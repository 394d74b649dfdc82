-------------------------- MODULE GraphChangesProofs --------------------------
(***************************************************************************)
(* Theorems about the graphs and the changes of GraphChanges.              *)
(***************************************************************************)
EXTENDS GraphChanges, ReviewGraphProofs

-----------------------------------------------------------------------------
(* Records by their IDs. *)

LEMMA ValueIs ==
    ASSUME NEW f, NEW k
    PROVE  /\ k \in DOMAIN f => ValueAt(f, k) = {f[k]}
           /\ k \notin DOMAIN f => ValueAt(f, k) = {}
           /\ k \in DOMAIN f <=> ValueAt(f, k) # {}
BY DEF ValueAt

IsMap(f) == f = [k \in DOMAIN f |-> f[k]]

LEMMA SameValues ==
    ASSUME NEW f, IsMap(f), NEW h, IsMap(h), \A k : ValueAt(f, k) = ValueAt(h, k)
    PROVE  f = h
<1>1. \A k : k \in DOMAIN f <=> k \in DOMAIN h
  BY ValueIs
<1>2. ASSUME NEW k \in DOMAIN f PROVE f[k] = h[k]
  <2>1. {f[k]} = {h[k]}
    BY <1>1, <1>2, ValueIs
  <2> QED
    BY <2>1
<1> QED
  BY <1>1, <1>2 DEF IsMap

\* What an operation makes of its entity.
Gives(op) == IF op.kind = "remove" THEN {} ELSE {op.value}

LEMMA MadeAt ==
    ASSUME NEW f, NEW ops, Apart(ops), NEW k
    PROVE  /\ \A op \in ops : op.id = k => ValueAt(Made(f, ops), k) = Gives(op)
           /\ (\A op \in ops : op.id # k) => ValueAt(Made(f, ops), k) = ValueAt(f, k)
<1> DEFINE h == Made(f, ops)
<1>1. IsMade(h, f, ops)
  BY MadeValue
<1> HIDE DEF h
<1>2. ASSUME NEW op \in ops, op.id = k PROVE ValueAt(h, k) = Gives(op)
  <2>1. CASE op.kind = "remove"
    <3>1. k \notin DOMAIN h
      BY <1>1, <1>2, <2>1 DEF IsMade
    <3> QED
      BY <2>1, <3>1, ValueIs DEF Gives
  <2>2. CASE op.kind # "remove"
    <3>1. \A o \in ops : o.id = k => o = op
      BY <1>2 DEF Apart
    <3>2. k \in DOMAIN h /\ h[k] = op.value
      BY <1>1, <1>2, <2>2, <3>1 DEF IsMade
    <3> QED
      BY <2>2, <3>2, ValueIs DEF Gives
  <2> QED
    BY <2>1, <2>2
<1>3. ASSUME \A op \in ops : op.id # k PROVE ValueAt(h, k) = ValueAt(f, k)
  <2>1. k \in DOMAIN h <=> k \in DOMAIN f
    BY <1>1, <1>3 DEF IsMade
  <2>2. k \in DOMAIN h => h[k] = f[k]
    BY <1>1, <1>3 DEF IsMade
  <2> QED
    BY <2>1, <2>2, ValueIs
<1> QED
  BY <1>2, <1>3 DEF h

LEMMA MadeIsMap ==
    ASSUME NEW f, NEW ops, Apart(ops)
    PROVE  IsMap(Made(f, ops))
BY MadeValue DEF IsMade, IsMap

-----------------------------------------------------------------------------
(* Graphs with finitely many entities, no ID of which is of both kinds. *)

Entities == {"nodes", "edges"}
IsProject(g) ==
    /\ IsGraph(g) /\ NodesOf(g) \cap EdgesOf(g) = {}
    /\ \A S \in {NodesOf(g), EdgesOf(g)} : S \subseteq Int /\ IsFiniteSet(S)

LEMMA ProjectIs ==
    ASSUME NEW g, IsProject(g)
    PROVE  \A e \in Entities : /\ IsMap(g[e]) /\ DOMAIN g[e] \subseteq Int /\ IsFiniteSet(DOMAIN g[e])
                               /\ Other(e) \in Entities /\ DOMAIN g[e] \cap DOMAIN g[Other(e)] = {}
<1>1. IsMap(g.nodes) /\ IsMap(g.edges)
  BY DEF IsProject, IsGraph, IsMap, NodesOf, EdgesOf
<1> QED
  BY <1>1 DEF IsProject, Entities, Other, NodesOf, EdgesOf

\* Two graphs are the same if they have the same records.
LEMMA SameGraphs ==
    ASSUME NEW g, NEW h, IsProject(g), IsProject(h), g.purpose = h.purpose,
           \A e \in Entities : \A k : ValueAt(g[e], k) = ValueAt(h[e], k)
    PROVE  g = h
<1>1. g.nodes = h.nodes /\ g.edges = h.edges
  BY ProjectIs, SameValues DEF Entities
<1> QED
  BY <1>1 DEF IsProject, IsGraph, NodesOf, EdgesOf

LEMMA ImageIsFinite ==
    ASSUME NEW S, IsFiniteSet(S), NEW f
    PROVE  IsFiniteSet({f[x] : x \in S})
<1> DEFINE T == {f[x] : x \in S}
           h == [x \in S |-> f[x]]
<1>1. h \in Surjection(S, T)
  BY DEF Surjection
<1> HIDE DEF T, h
<1>2. IsFiniteSet(T)
  BY <1>1, FS_Surjection
<1> QED
  BY <1>2 DEF T

\* How many numbers there are up to one.
LEMMA IntervalSize ==
    ASSUME NEW n \in Nat
    PROVE  IsFiniteSet(1 .. n) /\ Cardinality(1 .. n) = n
<1>1. IsFiniteSet(1 .. n) /\ Cardinality(1 .. n) = IF 1 > n THEN 0 ELSE n - 1 + 1
  BY FS_Interval
<1> QED
  BY <1>1

\* An operation of each kind of entity, as a batch of it.
LEMMA ApartIs ==
    ASSUME NEW ops, IsManifest(ops), Distinct(ops)
    PROVE  /\ Apart(ToSet(ops)) /\ \A e : Apart(Of(ToSet(ops), e))
           /\ \A op \in ToSet(ops) : IsOperation(op)
           /\ IsFiniteSet(ToSet(ops))
<1>1. ToSet(ops) = {ops[i] : i \in 1 .. Len(ops)} /\ Len(ops) \in Nat /\ DOMAIN ops = 1 .. Len(ops)
  BY DEF IsManifest, ToSet
<1>2. Apart(ToSet(ops))
  BY <1>1 DEF Apart, Distinct
<1>3. IsFiniteSet(ToSet(ops))
  <2>1. IsFiniteSet(1 .. Len(ops))
    BY <1>1, FS_Interval
  <2>2. IsFiniteSet({ops[i] : i \in 1 .. Len(ops)})
    BY <2>1, ImageIsFinite
  <2> QED
    BY <1>1, <2>2
<1> QED
  BY <1>1, <1>2, <1>3 DEF Apart, Of, IsManifest

\* What a batch makes of each entity.
LEMMA ResultAt ==
    ASSUME NEW g, NEW ops, Apart(ops), \A op \in ops : IsOperation(op), NEW e \in Entities, NEW k
    PROVE  /\ \A op \in ops : op.entity = e /\ op.id = k => ValueAt(ResultOf(g, ops)[e], k) = Gives(op)
           /\ (\A op \in ops : ~(op.entity = e /\ op.id = k)) => ValueAt(ResultOf(g, ops)[e], k) = ValueAt(g[e], k)
           /\ IsMap(ResultOf(g, ops)[e])
<1>1. ResultOf(g, ops)[e] = Made(g[e], Of(ops, e))
  BY DEF ResultOf, Entities
<1>2. Apart(Of(ops, e))
  BY DEF Apart, Of
<1>3. \A op \in ops : op.entity = e <=> op \in Of(ops, e)
  BY DEF Of
<1> QED
  BY <1>1, <1>2, <1>3, MadeAt, MadeIsMap DEF Of
-----------------------------------------------------------------------------
(* The operations between two graphs. *)

LEMMA JoinedIs ==
    ASSUME NEW m \in Nat, NEW n \in Nat, NEW s, NEW t,
           s = [i \in 1 .. m |-> s[i]], t = [i \in 1 .. n |-> t[i]]
    PROVE  /\ Len(s \o t) = m + n /\ DOMAIN (s \o t) = 1 .. m + n
           /\ \A i \in 1 .. m : (s \o t)[i] = s[i]
           /\ \A i \in 1 .. n : (s \o t)[m + i] = t[i]
           /\ \A i \in 1 .. m + n : i \in 1 .. m \/ \E j \in 1 .. n : i = m + j
<1> DEFINE S == {s[i] : i \in 1 .. m} \cup {t[i] : i \in 1 .. n}
<1>1. s \in [1 .. m -> S] /\ t \in [1 .. n -> S]
  OBVIOUS
<1> HIDE DEF S
<1>2. s \in Seq(S) /\ t \in Seq(S)
  BY <1>1, SeqDef
<1>3. Len(s) = m /\ Len(t) = n
  BY <1>1, <1>2, LenProperties
<1>4. /\ s \o t \in Seq(S) /\ Len(s \o t) = m + n
      /\ \A i \in 1 .. m + n : (s \o t)[i] = IF i <= m THEN s[i] ELSE t[i - m]
  BY <1>2, <1>3, ConcatProperties
<1>5. DOMAIN (s \o t) = 1 .. m + n
  BY <1>4, LenProperties
<1>6. \A i \in 1 .. m : i \in 1 .. m + n /\ i <= m
  OBVIOUS
<1>7. \A i \in 1 .. n : m + i \in 1 .. m + n /\ ~(m + i <= m) /\ m + i - m = i
  OBVIOUS
<1>8. ASSUME NEW i \in 1 .. m + n, i \notin 1 .. m PROVE \E j \in 1 .. n : i = m + j
  <2>1. i - m \in 1 .. n /\ i = m + (i - m)
    BY <1>8
  <2> QED
    BY <2>1
<1> QED
  BY <1>4, <1>5, <1>6, <1>7, <1>8

\* The entities that differ, and the operations for those of one kind.
Differ(old, new) == {id \in DOMAIN old \cup DOMAIN new : ValueAt(old, id) # ValueAt(new, id)}
Turns(old, new, entity, id) ==
    IF id \notin DOMAIN old THEN [kind |-> "add", entity |-> entity, id |-> id, value |-> new[id]]
    ELSE IF id \notin DOMAIN new THEN [kind |-> "remove", entity |-> entity, id |-> id, value |-> old[id]]
    ELSE [kind |-> "replace", entity |-> entity, id |-> id, value |-> new[id]]
Turning(old, new, entity) ==
    [i \in 1 .. Cardinality(Differ(old, new)) |-> Turns(old, new, entity, Sorted(Differ(old, new))[i])]

LEMMA BetweenIs ==
    ASSUME NEW g, NEW h
    PROVE  OperationsBetween(g, h) = Turning(g.nodes, h.nodes, "nodes") \o Turning(g.edges, h.edges, "edges")
BY DEF OperationsBetween, Turning, Differ, Turns

LEMMA TurnsIs ==
    ASSUME NEW old, NEW new, NEW entity, NEW id \in Differ(old, new)
    PROVE  LET op == Turns(old, new, entity, id)
           IN  /\ op.entity = entity /\ op.id = id
               /\ op.kind = "add" <=> id \notin DOMAIN old
               /\ Gives(op) = ValueAt(new, id)
<1> DEFINE op == Turns(old, new, entity, id)
<1>1. CASE id \notin DOMAIN old
  <2>1. op = [kind |-> "add", entity |-> entity, id |-> id, value |-> new[id]]
    BY <1>1 DEF Turns
  <2>2. id \in DOMAIN new
    BY <1>1 DEF Differ
  <2> QED
    BY <1>1, <2>1, <2>2, ValueIs DEF Gives
<1>2. CASE id \in DOMAIN old /\ id \notin DOMAIN new
  <2>1. op = [kind |-> "remove", entity |-> entity, id |-> id, value |-> old[id]]
    BY <1>2 DEF Turns
  <2> QED
    BY <1>2, <2>1, ValueIs DEF Gives
<1>3. CASE id \in DOMAIN old /\ id \in DOMAIN new
  <2>1. op = [kind |-> "replace", entity |-> entity, id |-> id, value |-> new[id]]
    BY <1>3 DEF Turns
  <2> QED
    BY <1>3, <2>1, ValueIs DEF Gives
<1> QED
  BY <1>1, <1>2, <1>3

IsTurning(s, n, old, new, entity) ==
    /\ n \in Nat /\ s = [i \in 1 .. n |-> s[i]] /\ Differ(old, new) \subseteq Int
    /\ \A i \in 1 .. n : \E id \in Differ(old, new) : s[i] = Turns(old, new, entity, id)
    /\ \A id \in Differ(old, new) : \E i \in 1 .. n : s[i] = Turns(old, new, entity, id)
    /\ \A i, j \in 1 .. n : i # j => s[i].id # s[j].id

LEMMA TurningIs ==
    ASSUME NEW old, NEW new, NEW entity,
           DOMAIN old \subseteq Int, IsFiniteSet(DOMAIN old), DOMAIN new \subseteq Int, IsFiniteSet(DOMAIN new)
    PROVE  IsTurning(Turning(old, new, entity), Cardinality(Differ(old, new)), old, new, entity)
<1> DEFINE D == Differ(old, new)
           n == Cardinality(D)
           s == Turning(old, new, entity)
<1>1. D \subseteq Int /\ IsFiniteSet(D)
  <2>1. IsFiniteSet(DOMAIN old \cup DOMAIN new)
    BY FS_Union
  <2> QED
    BY <2>1, FS_Subset DEF Differ
<1>2. s = [i \in 1 .. n |-> Turns(old, new, entity, Sorted(D)[i])]
  BY DEF Turning
<1> HIDE DEF D, s
<1>3. /\ n \in Nat /\ \A i \in 1 .. n : Sorted(D)[i] \in D
      /\ \A i, j \in 1 .. n : i < j => Sorted(D)[i] < Sorted(D)[j]
      /\ \A k \in D : \E i \in 1 .. n : Sorted(D)[i] = k
  BY <1>1, SortedEnumerates
<1>4. \A i \in 1 .. n : s[i].id = Sorted(D)[i]
  BY <1>2, <1>3, TurnsIs DEF D
<1>5. ASSUME NEW i \in 1 .. n, NEW j \in 1 .. n, i # j PROVE Sorted(D)[i] # Sorted(D)[j]
  <2>1. Sorted(D)[i] \in Int /\ Sorted(D)[j] \in Int
    BY <1>1, <1>3
  <2>2. i < j \/ j < i
    BY <1>3, <1>5
  <2> QED
    BY <1>3, <2>1, <2>2
<1> QED
  BY <1>1, <1>2, <1>3, <1>4, <1>5 DEF D, s, IsTurning

\* The operations between two graphs are those that give each entity that differs its new
\* record; they are of distinct entities if no ID is of a node here and of an edge there.
Bridges(ops, g, h) ==
    /\ \A op \in ops :
          /\ op.entity \in Entities /\ op.id \in Differ(g[op.entity], h[op.entity])
          /\ Gives(op) = ValueAt(h[op.entity], op.id)
          /\ op.kind = "add" <=> op.id \notin DOMAIN g[op.entity]
    /\ \A e \in Entities : \A id \in Differ(g[e], h[e]) : \E op \in ops : op.entity = e /\ op.id = id
Uncrossed(g, h) == (NodesOf(g) \cup NodesOf(h)) \cap (EdgesOf(g) \cup EdgesOf(h)) = {}

LEMMA BetweenBridges ==
    ASSUME NEW g, NEW h, IsProject(g), IsProject(h)
    PROVE  LET ops == OperationsBetween(g, h)
           IN  /\ IsManifest(ops) /\ Bridges(ToSet(ops), g, h)
               /\ Uncrossed(g, h) => Distinct(ops)
<1> DEFINE s == Turning(g.nodes, h.nodes, "nodes")
           t == Turning(g.edges, h.edges, "edges")
           N == Differ(g.nodes, h.nodes)
           E == Differ(g.edges, h.edges)
           m == Cardinality(N)
           n == Cardinality(E)
           ops == s \o t
<1>1. IsTurning(s, m, g.nodes, h.nodes, "nodes") /\ IsTurning(t, n, g.edges, h.edges, "edges")
  <2>1. /\ DOMAIN g.nodes \subseteq Int /\ IsFiniteSet(DOMAIN g.nodes) /\ DOMAIN h.nodes \subseteq Int /\ IsFiniteSet(DOMAIN h.nodes)
        /\ DOMAIN g.edges \subseteq Int /\ IsFiniteSet(DOMAIN g.edges) /\ DOMAIN h.edges \subseteq Int /\ IsFiniteSet(DOMAIN h.edges)
    BY DEF IsProject, NodesOf, EdgesOf
  <2> QED
    BY <2>1, TurningIs
<1>2. /\ m \in Nat /\ n \in Nat
      /\ s = [i \in 1 .. m |-> s[i]] /\ t = [i \in 1 .. n |-> t[i]]
      /\ N \subseteq Int /\ E \subseteq Int
  BY <1>1 DEF IsTurning
<1>3. /\ \A id \in N : LET op == Turns(g.nodes, h.nodes, "nodes", id)
                       IN  /\ op.entity = "nodes" /\ op.id = id
                           /\ op.kind = "add" <=> id \notin DOMAIN g.nodes
                           /\ Gives(op) = ValueAt(h.nodes, id)
      /\ \A id \in E : LET op == Turns(g.edges, h.edges, "edges", id)
                       IN  /\ op.entity = "edges" /\ op.id = id
                           /\ op.kind = "add" <=> id \notin DOMAIN g.edges
                           /\ Gives(op) = ValueAt(h.edges, id)
  BY TurnsIs
<1>4. ops = OperationsBetween(g, h)
  BY BetweenIs
<1>5. Uncrossed(g, h) => N \cap E = {}
  BY DEF Uncrossed, Differ, NodesOf, EdgesOf
<1> HIDE DEF s, t, N, E, m, n, ops
<1>6. /\ Len(ops) = m + n /\ DOMAIN ops = 1 .. m + n
      /\ \A i \in 1 .. m : ops[i] = s[i]
      /\ \A i \in 1 .. n : ops[m + i] = t[i]
      /\ \A i \in 1 .. m + n : i \in 1 .. m \/ \E j \in 1 .. n : i = m + j
  BY <1>2, JoinedIs DEF ops
<1>7. /\ \A i \in 1 .. m : i \in 1 .. m + n
      /\ \A i \in 1 .. n : m + i \in 1 .. m + n
  BY <1>2
<1>8. ToSet(ops) = {s[i] : i \in 1 .. m} \cup {t[i] : i \in 1 .. n}
  BY <1>6, <1>7 DEF ToSet
<1>9. /\ \A i \in 1 .. m : \E id \in N : s[i] = Turns(g.nodes, h.nodes, "nodes", id)
      /\ \A id \in N : \E i \in 1 .. m : s[i] = Turns(g.nodes, h.nodes, "nodes", id)
      /\ \A i, j \in 1 .. m : i # j => s[i].id # s[j].id
      /\ \A i \in 1 .. n : \E id \in E : t[i] = Turns(g.edges, h.edges, "edges", id)
      /\ \A id \in E : \E i \in 1 .. n : t[i] = Turns(g.edges, h.edges, "edges", id)
      /\ \A i, j \in 1 .. n : i # j => t[i].id # t[j].id
  BY <1>1, <1>2 DEF IsTurning, N, E
<1>10. /\ \A i \in 1 .. m : s[i].entity = "nodes" /\ s[i].id \in N
       /\ \A i \in 1 .. n : t[i].entity = "edges" /\ t[i].id \in E
  BY <1>3, <1>9
<1>11. IsManifest(ops)
  <2>1. \A op \in ToSet(ops) : IsOperation(op)
    BY <1>2, <1>8, <1>10 DEF IsOperation
  <2>2. \A i \in 1 .. m + n : ops[i] \in ToSet(ops)
    BY <1>6 DEF ToSet
  <2>3. m + n \in Nat
    BY <1>2
  <2> QED
    BY <1>6, <2>1, <2>2, <2>3 DEF IsManifest
<1>12. Bridges(ToSet(ops), g, h)
  <2>1. ASSUME NEW op \in ToSet(ops)
        PROVE  /\ op.entity \in Entities /\ op.id \in Differ(g[op.entity], h[op.entity])
               /\ Gives(op) = ValueAt(h[op.entity], op.id)
               /\ op.kind = "add" <=> op.id \notin DOMAIN g[op.entity]
    <3>1. CASE op \in {s[i] : i \in 1 .. m}
      <4>1. PICK id \in N : op = Turns(g.nodes, h.nodes, "nodes", id)
        BY <1>9, <3>1
      <4> QED
        BY <1>3, <4>1 DEF Entities, N
    <3>2. CASE op \in {t[i] : i \in 1 .. n}
      <4>1. PICK id \in E : op = Turns(g.edges, h.edges, "edges", id)
        BY <1>9, <3>2
      <4> QED
        BY <1>3, <4>1 DEF Entities, E
    <3> QED
      BY <1>8, <3>1, <3>2
  <2>2. ASSUME NEW id \in N PROVE \E op \in ToSet(ops) : op.entity = "nodes" /\ op.id = id
    <3>1. Turns(g.nodes, h.nodes, "nodes", id) \in ToSet(ops)
      BY <1>8, <1>9
    <3> QED
      BY <1>3, <3>1
  <2>3. ASSUME NEW id \in E PROVE \E op \in ToSet(ops) : op.entity = "edges" /\ op.id = id
    <3>1. Turns(g.edges, h.edges, "edges", id) \in ToSet(ops)
      BY <1>8, <1>9
    <3> QED
      BY <1>3, <3>1
  <2> QED
    BY <2>1, <2>2, <2>3 DEF Bridges, Entities, N, E
<1>13. ASSUME N \cap E = {} PROVE Distinct(ops)
  <2> SUFFICES ASSUME NEW i \in 1 .. m + n, NEW j \in 1 .. m + n, i # j PROVE ops[i].id # ops[j].id
    BY <1>6 DEF Distinct
  <2>1. CASE i \in 1 .. m /\ j \in 1 .. m
    BY <1>6, <1>9, <2>1
  <2>2. ASSUME NEW k \in 1 .. n, i = m + k, NEW l \in 1 .. n, j = m + l PROVE ops[i].id # ops[j].id
    <3>1. k # l
      BY <2>2
    <3>2. ops[i] = t[k] /\ ops[j] = t[l]
      BY <1>6, <2>2
    <3> QED
      BY <1>9, <3>1, <3>2
  <2>3. ASSUME i \in 1 .. m, NEW l \in 1 .. n, j = m + l PROVE ops[i].id # ops[j].id
    BY <1>6, <1>10, <1>13, <2>3
  <2>4. ASSUME j \in 1 .. m, NEW k \in 1 .. n, i = m + k PROVE ops[i].id # ops[j].id
    BY <1>6, <1>10, <1>13, <2>4
  <2> QED
    BY <1>6, <2>1, <2>2, <2>3, <2>4
<1> QED
  BY <1>4, <1>5, <1>11, <1>12, <1>13
-----------------------------------------------------------------------------
(* What a projection gives. *)

LEMMA ResultHas ==
    ASSUME NEW g, NEW ops, Apart(ops), \A op \in ops : IsOperation(op), NEW e \in Entities, NEW k \in DOMAIN ResultOf(g, ops)[e]
    PROVE  k \in DOMAIN g[e] \/ \E op \in ops : op.entity = e /\ op.id = k
<1>1. ValueAt(ResultOf(g, ops)[e], k) # {}
  BY ValueIs
<1> QED
  BY <1>1, ResultAt, ValueIs

LEMMA ResultIsProject ==
    ASSUME NEW g, IsProject(g), NEW ops, Apart(ops), IsFiniteSet(ops),
           \A op \in ops : IsOperation(op) /\ Admits(g, op)
    PROVE  /\ IsProject(ResultOf(g, ops)) /\ ResultOf(g, ops).purpose = g.purpose
           /\ Uncrossed(g, ResultOf(g, ops))
<1> DEFINE h == ResultOf(g, ops)
<1>1. /\ h = [purpose |-> h.purpose, nodes |-> h.nodes, edges |-> h.edges] /\ h.purpose = g.purpose
  BY DEF ResultOf
<1>2. IsMap(h.nodes) /\ IsMap(h.edges)
  <2>1. h["nodes"] = h.nodes /\ h["edges"] = h.edges
    OBVIOUS
  <2> HIDE DEF h
  <2> QED
    BY <2>1, ResultAt DEF Entities, h
<1>3. \A e \in Entities : \A k \in DOMAIN h[e] : k \in DOMAIN g[e] \/ \E op \in ops : op.entity = e /\ op.id = k
  BY ResultHas
<1> HIDE DEF h
<1>4. \A op \in ops : op.id \in Int /\ op.id \notin DOMAIN g[Other(op.entity)]
  BY DEF IsOperation, Admits
<1>5. IsGraph(h)
  BY <1>1, <1>2 DEF IsGraph, IsMap, NodesOf, EdgesOf
<1>6. Uncrossed(g, h)
  <2> SUFFICES ASSUME NEW k \in DOMAIN g.nodes \cup DOMAIN h.nodes, k \in DOMAIN g.edges \cup DOMAIN h.edges PROVE FALSE
    BY DEF Uncrossed, NodesOf, EdgesOf
  <2>1. k \in DOMAIN g.nodes \/ \E op \in ops : op.entity = "nodes" /\ op.id = k
    BY <1>3 DEF Entities
  <2>2. k \in DOMAIN g.edges \/ \E op \in ops : op.entity = "edges" /\ op.id = k
    BY <1>3 DEF Entities
  <2>3. ~(k \in DOMAIN g.nodes /\ k \in DOMAIN g.edges)
    BY DEF IsProject, NodesOf, EdgesOf
  <2>4. ASSUME NEW op \in ops, op.entity = "nodes", op.id = k PROVE k \notin DOMAIN g.edges
    BY <1>4, <2>4 DEF Other
  <2>5. ASSUME NEW op \in ops, op.entity = "edges", op.id = k PROVE k \notin DOMAIN g.nodes
    BY <1>4, <2>5 DEF Other
  <2>6. ~((\E op \in ops : op.entity = "nodes" /\ op.id = k) /\ (\E op \in ops : op.entity = "edges" /\ op.id = k))
    BY DEF Apart
  <2> QED
    BY <2>1, <2>2, <2>3, <2>4, <2>5, <2>6
<1>7. ASSUME NEW e \in Entities PROVE DOMAIN h[e] \subseteq Int /\ IsFiniteSet(DOMAIN h[e])
  <2> DEFINE f == [op \in ops |-> op.id]
             ids == {f[op] : op \in ops}
  <2>1. IsFiniteSet(ids)
    <3> HIDE DEF f
    <3> QED
      BY ImageIsFinite
  <2>2. DOMAIN h[e] \subseteq DOMAIN g[e] \cup ids /\ ids \subseteq Int
    BY <1>3, <1>4
  <2> HIDE DEF ids
  <2>3. IsFiniteSet(DOMAIN g[e]) /\ DOMAIN g[e] \subseteq Int
    BY ProjectIs
  <2>4. IsFiniteSet(DOMAIN g[e] \cup ids)
    BY <2>1, <2>3, FS_Union
  <2> QED
    BY <2>2, <2>3, <2>4, FS_Subset
<1>8. IsProject(h)
  <2>1. NodesOf(h) \cap EdgesOf(h) = {}
    BY <1>6 DEF Uncrossed
  <2> QED
    BY <1>5, <1>7, <2>1 DEF IsProject, Entities, NodesOf, EdgesOf
<1> QED
  BY <1>1, <1>6, <1>8 DEF h

\* What is known of a graph that a batch has led to.
LedTo(g, ops, h) ==
    /\ Distinct(ops) /\ \A op \in ToSet(ops) : Admits(g, op)
    /\ h = ResultOf(g, ToSet(ops))
    /\ IsProject(h) /\ h.purpose = g.purpose /\ Uncrossed(g, h)

LEMMA ProjectedIs ==
    ASSUME NEW g, IsProject(g), NEW ops, IsManifest(ops), NEW h \in ProjectGraph(g, ops)
    PROVE  LedTo(g, ops, h) /\ ProjectGraph(g, ops) = {h}
<1>1. /\ Distinct(ops) /\ \A op \in ToSet(ops) : Admits(g, op)
      /\ h = ResultOf(g, ToSet(ops)) /\ ProjectGraph(g, ops) = {h}
  BY ProjectionIsExact DEF IsProject
<1> QED
  BY <1>1, ApartIs, ResultIsProject DEF LedTo

\* _operations_between and project_graph fit each other, for any two graphs: the operations
\* between them are refused if an ID would change its kind, and else lead from one to the other.
THEOREM DifferenceIsExact ==
    ASSUME NEW g, IsProject(g), NEW h, IsProject(h), g.purpose = h.purpose
    PROVE  ProjectGraph(g, OperationsBetween(g, h)) = IF Uncrossed(g, h) THEN {h} ELSE {}
<1> DEFINE ops == OperationsBetween(g, h)
           made == ResultOf(g, ToSet(ops))
<1>1. IsManifest(ops) /\ Bridges(ToSet(ops), g, h) /\ (Uncrossed(g, h) => Distinct(ops))
  BY BetweenBridges
<1> HIDE DEF ops
<1>2. CASE Uncrossed(g, h)
  <2>1. Distinct(ops) /\ Apart(ToSet(ops)) /\ IsFiniteSet(ToSet(ops)) /\ \A op \in ToSet(ops) : IsOperation(op)
    BY <1>1, <1>2, ApartIs
  <2>2. ASSUME NEW op \in ToSet(ops) PROVE Admits(g, op)
    <3>1. op.entity \in Entities /\ (op.kind = "add" <=> op.id \notin DOMAIN g[op.entity])
          /\ op.id \in DOMAIN g[op.entity] \cup DOMAIN h[op.entity]
      BY <1>1 DEF Bridges, Differ
    <3>2. op.id \notin DOMAIN g[Other(op.entity)]
      BY <1>2, <3>1 DEF Uncrossed, NodesOf, EdgesOf, Other, Entities
    <3> QED
      BY <3>1, <3>2 DEF Admits
  <2>3. ProjectGraph(g, ops) = {made}
    BY <1>1, <2>1, <2>2, ProjectionIsExact DEF IsProject
  <2>4. IsProject(made) /\ made.purpose = h.purpose
    BY <2>1, <2>2, ResultIsProject
  <2>5. ASSUME NEW e \in Entities, NEW k PROVE ValueAt(made[e], k) = ValueAt(h[e], k)
    <3>1. CASE \E op \in ToSet(ops) : op.entity = e /\ op.id = k
      <4>1. PICK op \in ToSet(ops) : op.entity = e /\ op.id = k
        BY <3>1
      <4>2. ValueAt(made[e], k) = Gives(op)
        BY <2>1, <4>1, ResultAt
      <4>3. Gives(op) = ValueAt(h[e], k)
        BY <1>1, <4>1 DEF Bridges
      <4> QED
        BY <4>2, <4>3
    <3>2. CASE \A op \in ToSet(ops) : ~(op.entity = e /\ op.id = k)
      <4>1. ValueAt(made[e], k) = ValueAt(g[e], k)
        BY <2>1, <3>2, ResultAt
      <4>2. k \notin Differ(g[e], h[e])
        BY <1>1, <3>2 DEF Bridges
      <4>3. ValueAt(g[e], k) = ValueAt(h[e], k)
        BY <4>2, ValueIs DEF Differ
      <4> QED
        BY <4>1, <4>3
    <3> QED
      BY <3>1, <3>2
  <2> HIDE DEF made
  <2>6. made = h
    BY <2>4, <2>5, SameGraphs
  <2> QED
    BY <1>2, <2>3, <2>6 DEF ops
<1>3. CASE ~Uncrossed(g, h)
  <2> SUFFICES ASSUME NEW x \in ProjectGraph(g, ops) PROVE FALSE
    BY <1>3 DEF ops
  <2>1. \A op \in ToSet(ops) : Admits(g, op)
    BY <1>1, ProjectedIs DEF LedTo
  <2>2. PICK k : k \in DOMAIN g.nodes \cup DOMAIN h.nodes /\ k \in DOMAIN g.edges \cup DOMAIN h.edges
    BY <1>3 DEF Uncrossed, NodesOf, EdgesOf
  <2>3. ~(k \in DOMAIN g.nodes /\ k \in DOMAIN g.edges) /\ ~(k \in DOMAIN h.nodes /\ k \in DOMAIN h.edges)
    BY DEF IsProject, NodesOf, EdgesOf
  <2>4. CASE k \in DOMAIN g.nodes /\ k \in DOMAIN h.edges /\ k \notin DOMAIN g.edges
    <3>1. k \in Differ(g["edges"], h["edges"])
      BY <2>4, ValueIs DEF Differ
    <3>2. PICK op \in ToSet(ops) : op.entity = "edges" /\ op.id = k
      BY <1>1, <3>1 DEF Bridges, Entities
    <3> QED
      BY <2>1, <2>4, <3>2 DEF Admits, Other
  <2>5. CASE k \in DOMAIN h.nodes /\ k \in DOMAIN g.edges /\ k \notin DOMAIN g.nodes
    <3>1. k \in Differ(g["nodes"], h["nodes"])
      BY <2>5, ValueIs DEF Differ
    <3>2. PICK op \in ToSet(ops) : op.entity = "nodes" /\ op.id = k
      BY <1>1, <3>1 DEF Bridges, Entities
    <3> QED
      BY <2>1, <2>5, <3>2 DEF Admits, Other
  <2> QED
    BY <2>2, <2>3, <2>4, <2>5
<1> QED
  BY <1>2, <1>3
-----------------------------------------------------------------------------
(* The inductive invariant. *)

\* What is proposed is what the operations of the session make of the base; their graph was
\* made of the same base.
GInv ==
    /\ IsProject(base) /\ IsManifest(mine) /\ LedTo(base, mine, proposed)
    /\ IsProject(theirs) /\ theirs.purpose = base.purpose

LEMMA NoOperations == IsManifest(<<>>) /\ ToSet(<<>>) = {}
<1>1. Len(<<>>) = 0 /\ DOMAIN <<>> = 1 .. 0
  OBVIOUS
<1> QED
  BY <1>1 DEF IsManifest, ToSet

LEMMA OneOperation ==
    ASSUME NEW op, IsOperation(op)
    PROVE  IsManifest(<<op>>)
<1>1. Len(<<op>>) = 1 /\ DOMAIN <<op>> = 1 .. 1 /\ <<op>>[1] = op
  OBVIOUS
<1> QED
  BY <1>1 DEF IsManifest

LEMMA BaseIsProject == \A g \in Base : IsProject(g)
<1> SUFFICES ASSUME NEW g \in Base PROVE NodesOf(g) \cap EdgesOf(g) = {}
  BY BaseAssumption DEF IsProject
<1>1. Diagnostics(g) = {}
  BY BaseAssumption DEF IsValid
<1>2. \A k \in NodesOf(g) \cap EdgesOf(g) : <<"entity-id-collision", k>> \in Diagnostics(g)
  BY DEF Diagnostics
<1> QED
  BY <1>1, <1>2

LEMMA GInit == Init => GInv
<1> SUFFICES ASSUME Init PROVE GInv
  OBVIOUS
<1>1. IsProject(base) /\ mine = <<>> /\ proposed = base /\ theirs = base
  BY BaseIsProject DEF Init
<1>2. /\ Distinct(<<>>) /\ ToSet(<<>>) = {} /\ IsManifest(<<>>)
  BY NoOperations DEF Distinct
<1>3. ResultOf(base, {}) = base
  BY <1>1, ResultOfNothing DEF IsProject
<1>4. Uncrossed(base, base)
  BY <1>1 DEF Uncrossed, IsProject
<1> QED
  BY <1>1, <1>2, <1>3, <1>4 DEF GInv, LedTo

LEMMA PatchStep == ASSUME GInv, NEW op \in Edit, Patch(op) PROVE GInv'
<1>1. PICK patched \in ProjectGraph(proposed, <<op>>) :
        /\ mine' \in OperationBatch(OperationsBetween(base, patched))
        /\ proposed' \in ProjectGraph(base, OperationsBetween(base, patched))
        /\ UNCHANGED <<base, theirs>>
  BY DEF Patch
<1> DEFINE ops == OperationsBetween(base, patched)
<1>2. IsProject(patched)
  <2>1. IsManifest(<<op>>)
    BY EditAssumption, OneOperation
  <2>2. IsProject(proposed)
    BY DEF GInv, LedTo
  <2> QED
    BY <1>1, <2>1, <2>2, ProjectedIs DEF LedTo
<1>3. IsManifest(ops)
  BY <1>2, BetweenBridges DEF GInv
<1> HIDE DEF ops
<1>4. LedTo(base, ops, proposed')
  BY <1>1, <1>3, ProjectedIs DEF GInv, ops
<1>5. Distinct(ops)
  BY <1>4 DEF LedTo
<1>6. PICK batch : /\ OperationBatch(ops) = {batch}
                   /\ DOMAIN batch = 1 .. Len(ops) /\ Len(batch) = Len(ops)
                   /\ ToSet(batch) = ToSet(ops)
                   /\ \A i, j \in 1 .. Len(ops) : i < j => batch[i].id < batch[j].id
  BY <1>3, <1>5, BatchEnumerates
<1>7. mine' = batch
  BY <1>1, <1>6 DEF ops
<1>8. ToSet(mine') = ToSet(ops) /\ IsManifest(mine') /\ Distinct(mine')
  <2>1. \A i \in 1 .. Len(ops) : batch[i] \in ToSet(ops)
    BY <1>6 DEF ToSet
  <2>2. Len(ops) \in Nat /\ \A o \in ToSet(ops) : IsOperation(o)
    BY <1>3 DEF IsManifest, ToSet
  <2>3. \A i, j \in 1 .. Len(ops) : i # j => batch[i].id # batch[j].id
    <3> SUFFICES ASSUME NEW i \in 1 .. Len(ops), NEW j \in 1 .. Len(ops), i < j PROVE batch[i].id # batch[j].id
      BY <2>2
    <3>1. batch[i].id \in Int /\ batch[j].id \in Int
      BY <2>1, <2>2 DEF IsOperation
    <3> QED
      BY <1>6, <3>1
  <2> QED
    BY <1>6, <1>7, <2>1, <2>2, <2>3 DEF IsManifest, Distinct
<1> QED
  BY <1>1, <1>4, <1>8 DEF GInv, LedTo

LEMMA PatchTheirsStep == ASSUME GInv, NEW op \in TheirEdit, PatchTheirs(op) PROVE GInv'
<1>1. theirs' \in ProjectGraph(theirs, <<op>>) /\ UNCHANGED <<base, mine, proposed>>
  BY DEF PatchTheirs
<1>2. IsManifest(<<op>>)
  BY EditAssumption, OneOperation
<1>3. LedTo(theirs, <<op>>, theirs')
  BY <1>1, <1>2, ProjectedIs DEF GInv
<1> QED
  BY <1>1, <1>3 DEF GInv, LedTo

LEMMA Reached == Spec => []GInv
<1>1. GInv /\ [Next]_vars => GInv'
  <2> SUFFICES ASSUME GInv, [Next]_vars PROVE GInv'
    OBVIOUS
  <2>1. ASSUME UNCHANGED vars PROVE GInv'
    BY <2>1 DEF vars, GInv, LedTo
  <2> QED
    BY <2>1, PatchStep, PatchTheirsStep DEF Next
<1> QED
  BY <1>1, GInit, PTL DEF Spec

-----------------------------------------------------------------------------
(* The order of a batch. *)

LEMMA EnumerationIsAll ==
    ASSUME NEW S, IsFiniteSet(S), NEW order \in SetToSeqs(S)
    PROVE  /\ Len(order) = Cardinality(S) /\ Len(order) \in Nat
           /\ {order[i] : i \in 1 .. Len(order)} = S
           /\ \A i, j \in 1 .. Len(order) : i # j => order[i] # order[j]
<1> DEFINE n == Cardinality(S)
<1>1. /\ order \in [1 .. n -> S] /\ \A i, j \in 1 .. n : i # j => order[i] # order[j]
  BY DEF SetToSeqs
<1>2. n \in Nat
  BY FS_CardinalityType
<1> HIDE DEF n
<1>3. Len(order) = n
  <2>1. order \in Seq(S)
    BY <1>1, <1>2, SeqDef
  <2> QED
    BY <1>1, <1>2, <2>1, LenProperties
<1>4. order \in Injection(1 .. n, S)
  BY <1>1 DEF Injection, IsInjective
<1>5. Cardinality(1 .. n) = n
  BY <1>2, FS_Interval
<1>6. order \in Surjection(1 .. n, S)
  BY <1>4, <1>5, FS_Injection DEF n
<1> QED
  BY <1>1, <1>2, <1>3, <1>6 DEF Surjection, n

\* For any base, and any patches, the operations of a session make the proposed graph in any order.
THEOREM OrderNeverMatters == Spec => []OrderDoesNotMatter
<1>1. GInv => OrderDoesNotMatter
  <2> SUFFICES ASSUME GInv, NEW order \in SetToSeqs(ToSet(mine)) PROVE Stages(base, order)[Len(order)] = {proposed}
    BY DEF OrderDoesNotMatter
  <2>1. /\ Distinct(mine) /\ (\A op \in ToSet(mine) : Admits(base, op))
        /\ proposed = ResultOf(base, ToSet(mine)) /\ IsGraph(base)
    BY DEF GInv, LedTo, IsProject
  <2>2. Apart(ToSet(mine)) /\ IsFiniteSet(ToSet(mine)) /\ \A op \in ToSet(mine) : IsOperation(op)
    BY <2>1, ApartIs DEF GInv
  <2>3. /\ Len(order) \in Nat /\ {order[i] : i \in 1 .. Len(order)} = ToSet(mine)
        /\ \A i, j \in 1 .. Len(order) : i # j => order[i] # order[j]
    BY <2>2, EnumerationIsAll
  <2>4. /\ \A i \in 1 .. Len(order) : order[i] \in ToSet(mine) /\ order[i].entity \in {"nodes", "edges"}
        /\ \A i, j \in 1 .. Len(order) : i # j => order[i].id # order[j].id
    BY <2>2, <2>3 DEF IsOperation, Apart
  <2>5. Given(order, Len(order)) = ToSet(mine)
    BY <2>3 DEF Given
  <2>6. Stages(base, order)[Len(order)] = Outcome(base, ToSet(mine))
    BY <2>1, <2>3, <2>4, <2>5, StagesAre
  <2> QED
    BY <2>1, <2>6 DEF Outcome
<1> QED
  BY <1>1, Reached, PTL
-----------------------------------------------------------------------------
(* Merges. *)

\* What is known of three graphs that are merged.
AreMerged(b, o, t) ==
    /\ \A g \in {b, o, t} : IsProject(g)
    /\ b.purpose = o.purpose /\ b.purpose = t.purpose

SelectedAt(b, o, t, e, k) == Selected(ValueAt(b[e], k), ValueAt(o[e], k), ValueAt(t[e], k))

LEMMA SelectedIs ==
    ASSUME NEW x, NEW y, NEW z
    PROVE  /\ Selected(x, y, z) = Selected(x, z, y)
           /\ Selected(x, y, z) \in {{}, {x}, {y}, {z}}
           /\ Selected(x, y, z) # {} /\ x # y => Selected(x, y, z) = {y}
           /\ x = y => Selected(x, y, z) = {z}
BY DEF Selected

\* Nothing conflicts: no ID is of both kinds, and each entity has a record all can agree on.
Agree(b, o, t) ==
    /\ CrossKind(b, o, t) = {}
    /\ \A e \in Entities : \A k \in AllIds(b, o, t, e) : SelectedAt(b, o, t, e, k) # {}

LEMMA AgreeFlipped ==
    ASSUME NEW b, NEW o, NEW t
    PROVE  Agree(b, o, t) <=> Agree(b, t, o)
<1>1. {b, o, t} = {b, t, o}
  OBVIOUS
<1>2. \A e : AllIds(b, o, t, e) = AllIds(b, t, o, e)
  BY <1>1 DEF AllIds
<1>3. CrossKind(b, o, t) = CrossKind(b, t, o)
  BY <1>2 DEF CrossKind
<1>4. \A e, k : SelectedAt(b, o, t, e, k) = SelectedAt(b, t, o, e, k)
  BY SelectedIs DEF SelectedAt
<1> QED
  BY <1>2, <1>3, <1>4 DEF Agree

LEMMA IdsAre ==
    ASSUME NEW b, NEW o, NEW t, NEW e
    PROVE  /\ AllIds(b, o, t, e) = DOMAIN b[e] \cup DOMAIN o[e] \cup DOMAIN t[e]
           /\ \A k : k \notin AllIds(b, o, t, e) => SelectedAt(b, o, t, e, k) = {{}}
<1>1. AllIds(b, o, t, e) = DOMAIN b[e] \cup DOMAIN o[e] \cup DOMAIN t[e]
  BY DEF AllIds
<1>2. ASSUME NEW k, k \notin AllIds(b, o, t, e) PROVE SelectedAt(b, o, t, e, k) = {{}}
  <2>1. ValueAt(b[e], k) = {} /\ ValueAt(o[e], k) = {} /\ ValueAt(t[e], k) = {}
    BY <1>1, <1>2, ValueIs
  <2> QED
    BY <2>1 DEF SelectedAt, Selected
<1> QED
  BY <1>1, <1>2

\* The merged records of one kind.
LEMMA RecordsAre ==
    ASSUME NEW b, NEW o, NEW t, Agree(b, o, t), NEW e \in Entities
    PROVE  LET records == MergeKind(b, o, t, e).records
           IN  /\ IsMap(records) /\ DOMAIN records \subseteq AllIds(b, o, t, e)
               /\ \A k : SelectedAt(b, o, t, e, k) = {ValueAt(records, k)}
<1> DEFINE ids == AllIds(b, o, t, e)
           S(k) == SelectedAt(b, o, t, e, k)
           kept == {id \in ids : \E v \in S(id) : v # {}}
           records == [id \in kept |-> CHOOSE v \in UNION S(id) : TRUE]
<1>1. MergeKind(b, o, t, e).records = records
  <2>1. ids \ CrossKind(b, o, t) = ids
    BY DEF Agree
  <2> QED
    BY <2>1 DEF MergeKind, SelectedAt
<1>2. ASSUME NEW k PROVE \E x : S(k) = {x} /\ x \in {ValueAt(b[e], k), ValueAt(o[e], k), ValueAt(t[e], k)}
  <2>1. CASE k \in ids
    <3>1. S(k) # {}
      BY <2>1 DEF Agree
    <3> QED
      BY <3>1, SelectedIs DEF SelectedAt
  <2>2. CASE k \notin ids
    <3>1. S(k) = {{}} /\ ValueAt(b[e], k) = {}
      BY <2>2, IdsAre, ValueIs
    <3> QED
      BY <3>1
  <2> QED
    BY <2>1, <2>2
<1>3. ASSUME NEW k PROVE S(k) = {ValueAt(records, k)}
  <2>1. PICK x : S(k) = {x} /\ x \in {ValueAt(b[e], k), ValueAt(o[e], k), ValueAt(t[e], k)}
    BY <1>2
  <2>2. CASE x = {}
    <3>1. k \notin DOMAIN records
      BY <2>1, <2>2
    <3> QED
      BY <2>1, <2>2, <3>1, ValueIs
  <2>3. CASE x # {}
    <3>1. k \in ids
      BY <2>1, <2>3, IdsAre, ValueIs
    <3>2. k \in DOMAIN records /\ records[k] = CHOOSE v \in UNION S(k) : TRUE
      BY <2>1, <2>3, <3>1
    <3>3. PICK r : x = {r}
      BY <2>1, <2>3, ValueIs
    <3>4. UNION S(k) = {r}
      BY <2>1, <3>3
    <3>5. records[k] = r
      BY <3>2, <3>4
    <3> QED
      BY <2>1, <3>2, <3>3, <3>5, ValueIs
  <2> QED
    BY <2>2, <2>3
<1>4. IsMap(records) /\ DOMAIN records \subseteq ids
  <2> DEFINE Record(id) == CHOOSE v \in UNION S(id) : TRUE
  <2>1. records = [id \in kept |-> Record(id)]
    OBVIOUS
  <2>2. kept \subseteq ids
    OBVIOUS
  <2> HIDE DEF Record, kept, ids
  <2> QED
    BY <2>1, <2>2 DEF IsMap
<1> QED
  BY <1>1, <1>3, <1>4

\* What a merge without conflicts makes of each entity.
IsMerge(m, b, o, t) ==
    /\ IsProject(m) /\ m.purpose = b.purpose
    /\ \A e \in Entities : \A k : SelectedAt(b, o, t, e, k) = {ValueAt(m[e], k)}
    /\ \A e \in Entities : DOMAIN m[e] \subseteq AllIds(b, o, t, e)

MergedGraph(b, o, t) == [purpose |-> b.purpose, nodes |-> MergeKind(b, o, t, "nodes").records,
                         edges |-> MergeKind(b, o, t, "edges").records]

LEMMA MergeOfAgreed ==
    ASSUME NEW b, NEW o, NEW t, AreMerged(b, o, t), Agree(b, o, t)
    PROVE  IsMerge(MergedGraph(b, o, t), b, o, t)
<1> DEFINE N == MergeKind(b, o, t, "nodes").records
           E == MergeKind(b, o, t, "edges").records
           m == MergedGraph(b, o, t)
<1>1. /\ IsMap(N) /\ DOMAIN N \subseteq AllIds(b, o, t, "nodes")
      /\ \A k : SelectedAt(b, o, t, "nodes", k) = {ValueAt(N, k)}
      /\ IsMap(E) /\ DOMAIN E \subseteq AllIds(b, o, t, "edges")
      /\ \A k : SelectedAt(b, o, t, "edges", k) = {ValueAt(E, k)}
  BY RecordsAre DEF Entities
<1>2. m = [purpose |-> b.purpose, nodes |-> N, edges |-> E]
  BY DEF MergedGraph
<1> HIDE DEF N, E, m
<1>3. m.purpose = b.purpose /\ m.nodes = N /\ m.edges = E /\ m["nodes"] = N /\ m["edges"] = E
  BY <1>2
<1>4. \A e \in Entities : /\ DOMAIN m[e] \subseteq AllIds(b, o, t, e)
                         /\ \A k : SelectedAt(b, o, t, e, k) = {ValueAt(m[e], k)}
  BY <1>1, <1>3 DEF Entities
<1>5. IsGraph(m)
  BY <1>1, <1>2, <1>3 DEF IsGraph, IsMap, NodesOf, EdgesOf
<1>6. NodesOf(m) \cap EdgesOf(m) = {}
  <2>1. AllIds(b, o, t, "nodes") \cap AllIds(b, o, t, "edges") = {}
    BY DEF Agree, CrossKind
  <2> QED
    BY <1>1, <1>3, <2>1 DEF NodesOf, EdgesOf
<1>7. ASSUME NEW e \in Entities PROVE DOMAIN m[e] \subseteq Int /\ IsFiniteSet(DOMAIN m[e])
  <2>1. \A g \in {b, o, t} : DOMAIN g[e] \subseteq Int /\ IsFiniteSet(DOMAIN g[e])
    BY ProjectIs DEF AreMerged
  <2>2. IsFiniteSet(DOMAIN b[e] \cup DOMAIN o[e])
    BY <2>1, FS_Union
  <2>3. IsFiniteSet((DOMAIN b[e] \cup DOMAIN o[e]) \cup DOMAIN t[e])
    BY <2>1, <2>2, FS_Union
  <2>4. IsFiniteSet(AllIds(b, o, t, e)) /\ AllIds(b, o, t, e) \subseteq Int
    <3>1. AllIds(b, o, t, e) = (DOMAIN b[e] \cup DOMAIN o[e]) \cup DOMAIN t[e]
      BY IdsAre
    <3> QED
      BY <2>1, <2>3, <3>1
  <2> QED
    BY <1>4, <2>4, FS_Subset
<1>8. IsProject(m)
  BY <1>3, <1>5, <1>6, <1>7 DEF IsProject, Entities, NodesOf, EdgesOf
<1> QED
  BY <1>3, <1>4, <1>8 DEF IsMerge, m

LEMMA MergeIs ==
    ASSUME NEW b, NEW o, NEW t, AreMerged(b, o, t)
    PROVE  LET merge == MergeProjects(b, o, t)
               m == MergedGraph(b, o, t)
           IN  IF Agree(b, o, t)
               THEN merge = [status |-> IF IsValid(m) THEN "clean" ELSE "invalid", merged |-> m, operations |-> OperationsBetween(o, m)]
               ELSE merge.status = "conflicted"
<1> DEFINE nodes == MergeKind(b, o, t, "nodes")
           edges == MergeKind(b, o, t, "edges")
           conflicts == MetadataConflicts(b, o, t) \cup nodes.conflicts \cup edges.conflicts
                          \cup {<<"entityKindChanged", id>> : id \in CrossKind(b, o, t)}
           m == MergedGraph(b, o, t)
<1>1. MetadataConflicts(b, o, t) = {}
  BY DEF AreMerged, MetadataConflicts
<1>2. ASSUME NEW e
      PROVE  MergeKind(b, o, t, e).conflicts = {} <=>
               \A k \in AllIds(b, o, t, e) \ CrossKind(b, o, t) : SelectedAt(b, o, t, e, k) # {}
  BY DEF MergeKind, SelectedAt
<1>3. conflicts = {} <=> Agree(b, o, t)
  <2>1. conflicts = {} <=> nodes.conflicts = {} /\ edges.conflicts = {} /\ CrossKind(b, o, t) = {}
    BY <1>1
  <2> HIDE DEF nodes, edges, conflicts
  <2> QED
    BY <1>2, <2>1 DEF Agree, Entities, nodes, edges
<1>4. MergeProjects(b, o, t) =
        IF conflicts # {} THEN [status |-> "conflicted", conflicts |-> conflicts]
        ELSE [status |-> IF IsValid(m) THEN "clean" ELSE "invalid", merged |-> m, operations |-> OperationsBetween(o, m)]
  BY DEF MergeProjects, MergedGraph
<1> HIDE DEF conflicts, m
<1>5. CASE Agree(b, o, t)
  BY <1>3, <1>4, <1>5 DEF m
<1>6. CASE ~Agree(b, o, t)
  BY <1>3, <1>4, <1>6 DEF m
<1> QED
  BY <1>5, <1>6 DEF m

\* A merge is the same from the other side.
LEMMA MergeFlipped ==
    ASSUME NEW b, NEW o, NEW t, AreMerged(b, o, t), Agree(b, o, t)
    PROVE  MergedGraph(b, o, t) = MergedGraph(b, t, o)
<1> DEFINE m == MergedGraph(b, o, t)
           n == MergedGraph(b, t, o)
<1>1. IsMerge(m, b, o, t)
  BY MergeOfAgreed
<1>2. IsMerge(n, b, t, o)
  <2>1. AreMerged(b, t, o) /\ Agree(b, t, o)
    BY AgreeFlipped DEF AreMerged
  <2> QED
    BY <2>1, MergeOfAgreed
<1> HIDE DEF m, n
<1>3. ASSUME NEW e \in Entities, NEW k PROVE ValueAt(m[e], k) = ValueAt(n[e], k)
  <2>1. SelectedAt(b, o, t, e, k) = SelectedAt(b, t, o, e, k)
    BY SelectedIs DEF SelectedAt
  <2>2. {ValueAt(m[e], k)} = {ValueAt(n[e], k)}
    BY <1>1, <1>2, <2>1 DEF IsMerge
  <2> QED
    BY <2>2
<1>4. m = n
  BY <1>1, <1>2, <1>3, SameGraphs DEF IsMerge
<1> QED
  BY <1>4 DEF m, n

\* It takes what our side changed.
LEMMA MergeTakesOurs ==
    ASSUME NEW b, NEW o, NEW t, AreMerged(b, o, t), Agree(b, o, t),
           NEW op \in ToSet(OperationsBetween(b, o))
    PROVE  ValueAt(MergedGraph(b, o, t)[op.entity], op.id) = ValueAt(o[op.entity], op.id)
<1> DEFINE e == op.entity
           k == op.id
           m == MergedGraph(b, o, t)
<1>1. e \in Entities /\ k \in Differ(b[e], o[e])
  <2>1. Bridges(ToSet(OperationsBetween(b, o)), b, o)
    BY BetweenBridges DEF AreMerged
  <2> QED
    BY <2>1 DEF Bridges
<1>2. IsMerge(m, b, o, t)
  BY MergeOfAgreed
<1> HIDE DEF e, k, m
<1>3. SelectedAt(b, o, t, e, k) = {ValueAt(m[e], k)}
  BY <1>1, <1>2 DEF IsMerge
<1>4. SelectedAt(b, o, t, e, k) = {ValueAt(o[e], k)}
  <2>1. ValueAt(b[e], k) # ValueAt(o[e], k)
    BY <1>1 DEF Differ
  <2> QED
    BY <1>3, <2>1, SelectedIs DEF SelectedAt
<1>5. {ValueAt(m[e], k)} = {ValueAt(o[e], k)}
  BY <1>3, <1>4
<1> QED
  BY <1>5 DEF e, k, m

\* Our operations lead from our graph to the merged one.
LEMMA MergeIsReached ==
    ASSUME NEW b, NEW o, NEW t, AreMerged(b, o, t), Agree(b, o, t)
    PROVE  ProjectGraph(o, OperationsBetween(o, MergedGraph(b, o, t))) = {MergedGraph(b, o, t)}
<1> DEFINE m == MergedGraph(b, o, t)
<1>1. IsMerge(m, b, o, t)
  BY MergeOfAgreed
<1> HIDE DEF m
<1>2. \A e \in Entities : DOMAIN o[e] \cup DOMAIN m[e] \subseteq AllIds(b, o, t, e)
  BY <1>1, IdsAre DEF IsMerge
<1>3. Uncrossed(o, m)
  BY <1>2 DEF Agree, CrossKind, Uncrossed, NodesOf, EdgesOf, Entities
<1> QED
  BY <1>1, <1>3, DifferenceIsExact DEF IsMerge, AreMerged, m

\* Two sides that changed different entities, ours by operations on the base.
Disjoint(b, ops, o, t) ==
    /\ IsManifest(ops) /\ LedTo(b, ops, o)
    /\ Uncrossed(b, t)
    /\ {op.id : op \in ToSet(ops)} \cap {op.id : op \in ToSet(OperationsBetween(b, t))} = {}

\* Each entity is as the base has it, on one side.
LEMMA DisjointIs ==
    ASSUME NEW b, NEW ops, NEW o, NEW t, AreMerged(b, o, t), Disjoint(b, ops, o, t), NEW k
    PROVE  \/ \A e \in Entities : ValueAt(o[e], k) = ValueAt(b[e], k)
           \/ (\A e \in Entities : ValueAt(t[e], k) = ValueAt(b[e], k)) /\ \A op \in ToSet(OperationsBetween(b, t)) : op.id # k
<1>1. CASE \A op \in ToSet(ops) : op.id # k
  <2>1. /\ Apart(ToSet(ops)) /\ \A op \in ToSet(ops) : IsOperation(op)
        /\ o = ResultOf(b, ToSet(ops))
    BY ApartIs DEF Disjoint, LedTo
  <2> QED
    BY <1>1, <2>1, ResultAt
<1>2. CASE \E op \in ToSet(ops) : op.id = k
  <2>1. \A op \in ToSet(OperationsBetween(b, t)) : op.id # k
    BY <1>2 DEF Disjoint
  <2>2. Bridges(ToSet(OperationsBetween(b, t)), b, t)
    BY BetweenBridges DEF AreMerged
  <2>3. ASSUME NEW e \in Entities PROVE ValueAt(t[e], k) = ValueAt(b[e], k)
    <3>1. k \notin Differ(b[e], t[e])
      BY <2>1, <2>2 DEF Bridges
    <3> QED
      BY <3>1, ValueIs DEF Differ
  <2> QED
    BY <2>1, <2>3
<1> QED
  BY <1>1, <1>2

LEMMA DisjointAgree ==
    ASSUME NEW b, NEW ops, NEW o, NEW t, AreMerged(b, o, t), Disjoint(b, ops, o, t)
    PROVE  Agree(b, o, t)
<1>1. ASSUME NEW k \in CrossKind(b, o, t) PROVE FALSE
  <2>1. /\ k \in DOMAIN b["nodes"] \cup DOMAIN o["nodes"] \cup DOMAIN t["nodes"]
        /\ k \in DOMAIN b["edges"] \cup DOMAIN o["edges"] \cup DOMAIN t["edges"]
    BY IdsAre DEF CrossKind
  <2>2. Uncrossed(b, o) /\ Uncrossed(b, t)
    BY DEF Disjoint, LedTo
  <2>3. CASE \A e \in Entities : ValueAt(o[e], k) = ValueAt(b[e], k)
    <3>1. \A e \in Entities : k \in DOMAIN o[e] <=> k \in DOMAIN b[e]
      BY <2>3, ValueIs
    <3> QED
      BY <2>1, <2>2, <3>1 DEF Uncrossed, NodesOf, EdgesOf, Entities
  <2>4. CASE \A e \in Entities : ValueAt(t[e], k) = ValueAt(b[e], k)
    <3>1. \A e \in Entities : k \in DOMAIN t[e] <=> k \in DOMAIN b[e]
      BY <2>4, ValueIs
    <3> QED
      BY <2>1, <2>2, <3>1 DEF Uncrossed, NodesOf, EdgesOf, Entities
  <2> QED
    BY <2>3, <2>4, DisjointIs
<1>2. ASSUME NEW e \in Entities, NEW k PROVE SelectedAt(b, o, t, e, k) # {}
  <2>1. ValueAt(o[e], k) = ValueAt(b[e], k) \/ ValueAt(t[e], k) = ValueAt(b[e], k)
    BY DisjointIs
  <2> QED
    BY <2>1 DEF SelectedAt, Selected
<1> QED
  BY <1>1, <1>2 DEF Agree

\* Their operations, made on our graph, lead to the merged one.
LEMMA DisjointMerge ==
    ASSUME NEW b, NEW ops, NEW o, NEW t, AreMerged(b, o, t), Disjoint(b, ops, o, t)
    PROVE  ProjectGraph(o, OperationsBetween(b, t)) = {MergedGraph(b, o, t)}
<1> DEFINE batch == OperationsBetween(b, t)
           m == MergedGraph(b, o, t)
           made == ResultOf(o, ToSet(batch))
<1>1. Agree(b, o, t)
  BY DisjointAgree
<1>2. IsMerge(m, b, o, t)
  BY <1>1, MergeOfAgreed
<1>3. IsManifest(batch) /\ Bridges(ToSet(batch), b, t) /\ Distinct(batch)
  BY BetweenBridges DEF AreMerged, Disjoint
<1>4. \A op \in ToSet(batch) : Admits(b, op)
  <2>1. ProjectGraph(b, batch) = {t}
    BY DifferenceIsExact DEF AreMerged, Disjoint
  <2> QED
    BY <1>3, <2>1, ProjectedIs DEF LedTo, AreMerged
<1> HIDE DEF m
<1>5. \A k : \/ \A e \in Entities : ValueAt(o[e], k) = ValueAt(b[e], k)
             \/ (\A e \in Entities : ValueAt(t[e], k) = ValueAt(b[e], k)) /\ \A op \in ToSet(batch) : op.id # k
  BY DisjointIs
<1> HIDE DEF batch
<1>6. Apart(ToSet(batch)) /\ IsFiniteSet(ToSet(batch)) /\ \A op \in ToSet(batch) : IsOperation(op)
  BY <1>3, ApartIs
<1>7. ASSUME NEW op \in ToSet(batch) PROVE Admits(o, op)
  <2>1. op.entity \in Entities /\ Other(op.entity) \in Entities
    BY <1>6 DEF IsOperation, Entities, Other
  <2>2. \A e \in Entities : ValueAt(o[e], op.id) = ValueAt(b[e], op.id)
    BY <1>5
  <2>3. \A e \in Entities : op.id \in DOMAIN o[e] <=> op.id \in DOMAIN b[e]
    BY <2>2, ValueIs
  <2> QED
    BY <1>4, <2>1, <2>3 DEF Admits
<1>8. ProjectGraph(o, batch) = {made} /\ IsProject(made) /\ made.purpose = o.purpose
  <2>1. IsProject(o)
    BY DEF AreMerged
  <2> QED
    BY <1>3, <1>6, <1>7, <2>1, ProjectionIsExact, ResultIsProject DEF IsProject
<1>9. ASSUME NEW e \in Entities, NEW k PROVE ValueAt(made[e], k) = ValueAt(m[e], k)
  <2>1. SelectedAt(b, o, t, e, k) = {ValueAt(m[e], k)}
    BY <1>2 DEF IsMerge
  <2>2. CASE \E op \in ToSet(batch) : op.entity = e /\ op.id = k
    <3>1. PICK op \in ToSet(batch) : op.entity = e /\ op.id = k
      BY <2>2
    <3>2. ValueAt(made[e], k) = ValueAt(t[e], k)
      <4>1. ValueAt(made[e], k) = Gives(op)
        BY <1>6, <3>1, ResultAt
      <4>2. Gives(op) = ValueAt(t[e], k)
        BY <1>3, <3>1 DEF Bridges
      <4> QED
        BY <4>1, <4>2
    <3>3. ValueAt(o[e], k) = ValueAt(b[e], k)
      BY <1>5, <3>1
    <3>4. SelectedAt(b, o, t, e, k) = {ValueAt(t[e], k)}
      BY <3>3, SelectedIs DEF SelectedAt
    <3> QED
      BY <2>1, <3>2, <3>4
  <2>3. CASE \A op \in ToSet(batch) : ~(op.entity = e /\ op.id = k)
    <3>1. ValueAt(made[e], k) = ValueAt(o[e], k)
      BY <1>6, <2>3, ResultAt
    <3>2. k \notin Differ(b[e], t[e])
      <4>1. Bridges(ToSet(batch), b, t)
        BY <1>3
      <4> QED
        BY <2>3, <4>1 DEF Bridges
    <3>3. ValueAt(t[e], k) = ValueAt(b[e], k)
      BY <3>2, ValueIs DEF Differ
    <3>4. SelectedAt(b, o, t, e, k) = {ValueAt(o[e], k)}
      <4>1. SelectedAt(b, t, o, e, k) = {ValueAt(o[e], k)}
        BY <3>3, SelectedIs DEF SelectedAt
      <4> QED
        BY <4>1, SelectedIs DEF SelectedAt
    <3> QED
      BY <2>1, <3>1, <3>4
  <2> QED
    BY <2>2, <2>3
<1> HIDE DEF made
<1>10. made = m
  BY <1>2, <1>8, <1>9, SameGraphs DEF IsMerge, AreMerged
<1> QED
  BY <1>8, <1>10 DEF batch, m

LEMMA StatusIs ==
    ASSUME NEW b, NEW o, NEW t, AreMerged(b, o, t)
    PROVE  LET merge == MergeProjects(b, o, t)
               m == MergedGraph(b, o, t)
           IN  /\ merge.status # "conflicted" <=> Agree(b, o, t)
               /\ Agree(b, o, t) => /\ merge.status = IF IsValid(m) THEN "clean" ELSE "invalid"
                                   /\ merge.merged = m /\ merge.operations = OperationsBetween(o, m)
<1> DEFINE m == MergedGraph(b, o, t)
<1>1. IF Agree(b, o, t)
      THEN MergeProjects(b, o, t) = [status |-> IF IsValid(m) THEN "clean" ELSE "invalid", merged |-> m, operations |-> OperationsBetween(o, m)]
      ELSE MergeProjects(b, o, t).status = "conflicted"
  BY MergeIs
<1> HIDE DEF m
<1>2. (IF IsValid(m) THEN "clean" ELSE "invalid") # "conflicted"
  OBVIOUS
<1>3. CASE Agree(b, o, t)
  BY <1>1, <1>2, <1>3 DEF m
<1>4. CASE ~Agree(b, o, t)
  BY <1>1, <1>4
<1> QED
  BY <1>3, <1>4

\* merge_projects, for any two graphs that sessions can have made of the base: the merge takes
\* what either side changed, does not depend on which side asks, and is what both batches make.
THEOREM MergesTakeBothSides == Spec => []MergeTakesBothSides
<1>1. GInv => MergeTakesBothSides
  <2> SUFFICES ASSUME GInv PROVE MergeTakesBothSides
    OBVIOUS
  <2> DEFINE merge   == MergeProjects(base, proposed, theirs)
             flipped == MergeProjects(base, theirs, proposed)
             m == MergedGraph(base, proposed, theirs)
             Batch(g) == OperationsBetween(base, g)
             apart == /\ {op.id : op \in ToSet(mine)} \cap {op.id : op \in ToSet(Batch(theirs))} = {}
                      /\ ProjectGraph(base, Batch(theirs)) # {}
  <2>1. AreMerged(base, proposed, theirs) /\ AreMerged(base, theirs, proposed)
    BY DEF AreMerged, GInv, LedTo
  <2>2. /\ merge.status # "conflicted" <=> Agree(base, proposed, theirs)
        /\ Agree(base, proposed, theirs) => /\ merge.status = IF IsValid(m) THEN "clean" ELSE "invalid"
                                           /\ merge.merged = m /\ merge.operations = OperationsBetween(proposed, m)
    BY <2>1, StatusIs
  <2>3. /\ flipped.status # "conflicted" <=> Agree(base, proposed, theirs)
        /\ Agree(base, proposed, theirs) => /\ flipped.status = IF IsValid(m) THEN "clean" ELSE "invalid"
                                           /\ flipped.merged = m
    <3> DEFINE n == MergedGraph(base, theirs, proposed)
    <3>1. /\ flipped.status # "conflicted" <=> Agree(base, theirs, proposed)
          /\ Agree(base, theirs, proposed) => /\ flipped.status = IF IsValid(n) THEN "clean" ELSE "invalid"
                                             /\ flipped.merged = n
      BY <2>1, StatusIs
    <3>2. Agree(base, theirs, proposed) <=> Agree(base, proposed, theirs)
      BY AgreeFlipped
    <3>3. Agree(base, proposed, theirs) => n = m
      BY <2>1, MergeFlipped
    <3> HIDE DEF n, m, flipped
    <3> QED
      BY <3>1, <3>2, <3>3
  <2>4. ASSUME Agree(base, proposed, theirs)
        PROVE  /\ ProjectGraph(proposed, OperationsBetween(proposed, m)) = {m}
               /\ \A g \in {proposed, theirs} : \A op \in ToSet(Batch(g)) :
                     ValueAt(m[op.entity], op.id) = ValueAt(g[op.entity], op.id)
    <3>1. ProjectGraph(proposed, OperationsBetween(proposed, m)) = {m}
      BY <2>1, <2>4, MergeIsReached
    <3>2. \A op \in ToSet(Batch(proposed)) : ValueAt(m[op.entity], op.id) = ValueAt(proposed[op.entity], op.id)
      BY <2>1, <2>4, MergeTakesOurs
    <3>3. \A op \in ToSet(Batch(theirs)) : ValueAt(m[op.entity], op.id) = ValueAt(theirs[op.entity], op.id)
      <4>1. Agree(base, theirs, proposed) /\ MergedGraph(base, theirs, proposed) = m
        BY <2>1, <2>4, AgreeFlipped, MergeFlipped
      <4> QED
        BY <2>1, <4>1, MergeTakesOurs
    <3> HIDE DEF m, Batch
    <3> QED
      BY <3>1, <3>2, <3>3
  <2>5. ASSUME apart
        PROVE  Agree(base, proposed, theirs) /\ ProjectGraph(proposed, Batch(theirs)) = {m}
    <3>1. Uncrossed(base, theirs)
      <4>1. ProjectGraph(base, Batch(theirs)) = IF Uncrossed(base, theirs) THEN {theirs} ELSE {}
        BY DifferenceIsExact DEF GInv
      <4> QED
        BY <2>5, <4>1
    <3>2. Disjoint(base, mine, proposed, theirs)
      BY <2>5, <3>1 DEF Disjoint, GInv
    <3> QED
      BY <2>1, <3>2, DisjointAgree, DisjointMerge
  <2>6. MergeTakesBothSides <=>
          /\ merge.status = flipped.status
          /\ merge.status # "conflicted" =>
                /\ merge.merged = flipped.merged
                /\ ProjectGraph(proposed, merge.operations) = {merge.merged}
                /\ \A g \in {proposed, theirs} : \A op \in ToSet(Batch(g)) :
                      ValueAt(merge.merged[op.entity], op.id) = ValueAt(g[op.entity], op.id)
          /\ apart => /\ merge.status # "conflicted"
                      /\ ProjectGraph(proposed, Batch(theirs)) = {merge.merged}
    BY DEF MergeTakesBothSides
  <2> HIDE DEF merge, flipped, m, Batch, apart
  <2>7. CASE Agree(base, proposed, theirs)
    BY <2>2, <2>3, <2>4, <2>5, <2>6, <2>7
  <2>8. CASE ~Agree(base, proposed, theirs)
    BY <2>2, <2>3, <2>5, <2>6, <2>8
  <2> QED
    BY <2>7, <2>8
<1> QED
  BY <1>1, Reached, PTL

-----------------------------------------------------------------------------
(* Packets. *)

\* Which packet owns a node does not depend on the item the node is in.
LEMMA OneOwner ==
    ASSUME NEW c, NEW items, NEW n,
           NEW q \in DOMAIN Partition(c, items), n \in EntityIds(items, Partition(c, items)[q], "nodes"),
           NEW r \in DOMAIN Partition(c, items), n \in EntityIds(items, Partition(c, items)[r], "nodes")
    PROVE  q = r
<1>1. PICK i : i \in Partition(c, items)[q] /\ items[i].entity = "nodes" /\ items[i].id = n
  BY DEF EntityIds
<1>2. PICK j : j \in Partition(c, items)[r] /\ items[j].entity = "nodes" /\ items[j].id = n
  BY DEF EntityIds
<1>3. \A p \in DOMAIN Partition(c, items) : \A k \in Partition(c, items)[p] : Owner(c, items[k]) = p
  BY DEF Partition
<1>4. Owner(c, items[i]) = Owner(c, items[j])
  <2>1. items[i].entity = items[j].entity /\ items[i].id = items[j].id
    BY <1>1, <1>2
  <2> HIDE DEF EntityIds
  <2> QED
    BY <2>1 DEF Owner
<1> QED
  BY <1>1, <1>2, <1>3, <1>4

LEMMA LineagesHave ==
    ASSUME NEW g, NEW S, NEW n \in S, n \in NodesOf(g)
    PROVE  ToSet(Upstream(g, n)) \subseteq Lineages(g, S)
BY DEF Lineages

\* The parts of the context of a packet.
ContextParts(c, items, ownership, p, start, before, after, old, shown, context) ==
    LET edges == EntityIds(items, ownership[p], "edges")
        ends == UNION {{e.source, e.target} : e \in UNION {ValueAt(g.edges, d) : g \in {c.base, c.proposed}, d \in context.dependencies}}
    IN  /\ start = EntityIds(items, ownership[p] \cup SharedOrdinals(items, ownership, p), "nodes")
        /\ before = start \cup Lineages(c.base, start)
        /\ after = before \cup Lineages(c.proposed, before)
        /\ old = EdgesAbout(c.base, before, edges)
        /\ context.dependencies = edges \cup old \cup EdgesAbout(c.proposed, after, edges \cup old)
                                    \cup (IF p = Synthesis THEN CrossEdges(c, items, ownership) ELSE {})
        /\ shown = after \cup ends \cup Lineages(c.base, after \cup ends)
        /\ context.nodes = shown \cup Lineages(c.proposed, shown)

LEMMA ContextIs ==
    ASSUME NEW c, NEW items, NEW ownership, NEW p
    PROVE  \E start, before, after, old, shown :
             ContextParts(c, items, ownership, p, start, before, after, old, shown, PacketContext(c, items, ownership, p))
<1> DEFINE edges  == EntityIds(items, ownership[p], "edges")
           start  == EntityIds(items, ownership[p] \cup SharedOrdinals(items, ownership, p), "nodes")
           before == start \cup Lineages(c.base, start)
           after  == before \cup Lineages(c.proposed, before)
           old    == EdgesAbout(c.base, before, edges)
           dependencies == edges \cup old \cup EdgesAbout(c.proposed, after, edges \cup old)
                             \cup (IF p = Synthesis THEN CrossEdges(c, items, ownership) ELSE {})
           EndsIn(d) == UNION {{e.source, e.target} : e \in UNION {ValueAt(g.edges, x) : g \in {c.base, c.proposed}, x \in d}}
           shown  == after \cup EndsIn(dependencies) \cup Lineages(c.base, after \cup EndsIn(dependencies))
           nodes  == shown \cup Lineages(c.proposed, shown)
           context == PacketContext(c, items, ownership, p)
<1>1. context = [dependencies |-> dependencies, nodes |-> nodes]
  BY DEF PacketContext
<1> HIDE DEF dependencies, nodes, context
<1>2. context.dependencies = dependencies /\ context.nodes = nodes
  BY <1>1
<1>3. ContextParts(c, items, ownership, p, start, before, after, old, shown, context)
  BY <1>2 DEF ContextParts, dependencies, nodes
<1> HIDE DEF start, before, after, old, shown
<1> QED
  BY <1>3 DEF context

\* A packet shows the dependencies and lineages of what it owns, and the synthesis what joins
\* packets.
LEMMA ContextShows ==
    ASSUME NEW c, NEW items, NEW p \in DOMAIN Partition(c, items), NEW g \in {c.base, c.proposed}
    PROVE  LET ownership == Partition(c, items)
               owned == [q \in DOMAIN ownership |-> EntityIds(items, ownership[q], "nodes")]
               context == PacketContext(c, items, ownership, p)
               ends == UNION {{g.edges[d].source, g.edges[d].target} : d \in context.dependencies \cap EdgesOf(g)}
           IN  /\ \A e \in EdgesOf(g) \ ScopeEdges(g) :
                     {g.edges[e].source, g.edges[e].target} \cap owned[p] # {} => e \in context.dependencies
               /\ \A n \in ends \cup owned[p] : \A h \in {c.base, c.proposed} :
                     n \in NodesOf(h) => ToSet(Upstream(h, n)) \subseteq context.nodes
               /\ p = Synthesis => \A e \in EdgesOf(g) \ ScopeEdges(g) : \A q, r \in DOMAIN ownership :
                     q # r /\ g.edges[e].source \in owned[q] /\ g.edges[e].target \in owned[r]
                         => e \in context.dependencies
<1> DEFINE ownership == Partition(c, items)
           owned == [q \in DOMAIN ownership |-> EntityIds(items, ownership[q], "nodes")]
           context == PacketContext(c, items, ownership, p)
           edges == EntityIds(items, ownership[p], "edges")
<1>1. PICK start, before, after, old, shown : ContextParts(c, items, ownership, p, start, before, after, old, shown, context)
  BY ContextIs
<1>2. \A q, r \in DOMAIN ownership : \A n : n \in EntityIds(items, ownership[q], "nodes") /\ n \in EntityIds(items, ownership[r], "nodes") => q = r
  BY OneOwner
<1> HIDE DEF ownership, context
<1>3. owned[p] \subseteq start /\ start \subseteq before /\ before \subseteq after
  <2>1. EntityIds(items, ownership[p], "nodes") \subseteq EntityIds(items, ownership[p] \cup SharedOrdinals(items, ownership, p), "nodes")
    BY DEF EntityIds
  <2> QED
    BY <1>1, <2>1 DEF ContextParts, ownership
<1>4. ASSUME NEW e \in EdgesOf(g) \ ScopeEdges(g), {g.edges[e].source, g.edges[e].target} \cap owned[p] # {}
      PROVE  e \in context.dependencies
  <2>1. CASE g = c.base
    <3>1. e \in EdgesAbout(c.base, before, edges)
      BY <1>3, <1>4, <2>1 DEF EdgesAbout
    <3> QED
      BY <1>1, <3>1 DEF ContextParts
  <2>2. CASE g = c.proposed
    <3>1. e \in EdgesAbout(c.proposed, after, edges \cup old)
      BY <1>3, <1>4, <2>2 DEF EdgesAbout
    <3> QED
      BY <1>1, <3>1 DEF ContextParts
  <2> QED
    BY <2>1, <2>2
<1>5. ASSUME NEW n \in owned[p] \cup UNION {{g.edges[d].source, g.edges[d].target} : d \in context.dependencies \cap EdgesOf(g)},
             NEW h \in {c.base, c.proposed}, n \in NodesOf(h)
      PROVE  ToSet(Upstream(h, n)) \subseteq context.nodes
  <2> DEFINE ends == UNION {{e.source, e.target} : e \in UNION {ValueAt(x.edges, d) : x \in {c.base, c.proposed}, d \in context.dependencies}}
  <2>1. n \in after \cup ends
    <3>1. CASE n \in owned[p]
      BY <1>3, <3>1
    <3>2. ASSUME NEW d \in context.dependencies \cap EdgesOf(g), n \in {g.edges[d].source, g.edges[d].target} PROVE n \in ends
      <4>1. g.edges[d] \in ValueAt(g.edges, d)
        BY ValueIs DEF EdgesOf
      <4> QED
        BY <3>2, <4>1
    <3> HIDE DEF ends, owned
    <3> QED
      BY <1>5, <3>1, <3>2
  <2>2. /\ shown = after \cup ends \cup Lineages(c.base, after \cup ends)
        /\ context.nodes = shown \cup Lineages(c.proposed, shown)
    BY <1>1 DEF ContextParts
  <2> HIDE DEF ends
  <2>3. CASE h = c.base
    <3>1. ToSet(Upstream(h, n)) \subseteq Lineages(c.base, after \cup ends)
      BY <1>5, <2>1, <2>3, LineagesHave
    <3> QED
      BY <2>2, <3>1
  <2>4. CASE h = c.proposed
    <3>1. ToSet(Upstream(h, n)) \subseteq Lineages(c.proposed, shown)
      BY <1>5, <2>1, <2>2, <2>4, LineagesHave
    <3> QED
      BY <2>2, <3>1
  <2> QED
    BY <2>3, <2>4
<1>6. ASSUME p = Synthesis, NEW e \in EdgesOf(g) \ ScopeEdges(g), NEW q \in DOMAIN ownership, NEW r \in DOMAIN ownership,
             q # r, g.edges[e].source \in owned[q], g.edges[e].target \in owned[r]
      PROVE  e \in context.dependencies
  <2> DEFINE Owners(n) == {s \in DOMAIN ownership : n \in owned[s]}
  <2>1. q \in Owners(g.edges[e].source) /\ r \in Owners(g.edges[e].target) /\ q \notin Owners(g.edges[e].target)
    BY <1>2, <1>6
  <2>2. e \in CrossEdges(c, items, ownership)
    <3> DEFINE Cross(x) == {f \in EdgesOf(x) \ ScopeEdges(x) :
                              /\ Owners(x.edges[f].source) # {} /\ Owners(x.edges[f].target) # {}
                              /\ Owners(x.edges[f].source) # Owners(x.edges[f].target)}
    <3>1. CrossEdges(c, items, ownership) = UNION {Cross(x) : x \in {c.base, c.proposed}}
      BY DEF CrossEdges
    <3> HIDE DEF Owners
    <3>2. e \in Cross(g)
      BY <2>1
    <3> HIDE DEF Cross
    <3> QED
      BY <3>1, <3>2
  <2> QED
    BY <1>1, <1>6, <2>2 DEF ContextParts
<1> HIDE DEF owned
<1> QED
  BY <1>4, <1>5, <1>6 DEF owned, ownership, context

\* packet_items, for any change and any review items: each packet shows what it was made to show.
THEOREM PacketsAlwaysShowContext == Spec => []PacketsShowContext
<1>1. PacketsShowContext
  <2> SUFFICES ASSUME NEW items, NEW p \in DOMAIN Partition(Change, items), NEW g \in {base, proposed}
               PROVE  LET ownership == Partition(Change, items)
                          owned == [q \in DOMAIN ownership |-> EntityIds(items, ownership[q], "nodes")]
                          context == PacketContext(Change, items, ownership, p)
                          ends == UNION {{g.edges[d].source, g.edges[d].target} : d \in context.dependencies \cap EdgesOf(g)}
                      IN  /\ \A e \in EdgesOf(g) \ ScopeEdges(g) :
                                {g.edges[e].source, g.edges[e].target} \cap owned[p] # {} => e \in context.dependencies
                          /\ \A n \in ends \cup owned[p] : \A h \in {base, proposed} :
                                n \in NodesOf(h) => ToSet(Upstream(h, n)) \subseteq context.nodes
                          /\ p = Synthesis => \A e \in EdgesOf(g) \ ScopeEdges(g) : \A q, r \in DOMAIN ownership :
                                q # r /\ g.edges[e].source \in owned[q] /\ g.edges[e].target \in owned[r]
                                    => e \in context.dependencies
    BY DEF PacketsShowContext
  <2>1. Change.base = base /\ Change.proposed = proposed
    BY DEF Change
  <2> HIDE DEF Change
  <2> QED
    BY <2>1, ContextShows
<1> QED
  BY <1>1, PTL

-----------------------------------------------------------------------------
(* The search for what is affected. *)

\* Arcs between finitely many nodes, over finitely many edges.
IsArcs(arcs, N, E) ==
    /\ N \subseteq Int /\ IsFiniteSet(N) /\ E \subseteq Int /\ IsFiniteSet(E)
    /\ \A a \in arcs : a[1] \in E /\ a[2] \in N /\ a[3] \in N

Longer(p, a) == [nodes |-> Append(p.nodes, a[3]), edges |-> Append(p.edges, a[1]), direct |-> FALSE]

LEMMA LastIs == \A p : \A n \in Int : p \in Seq(Int) => Last(Append(p, n)) = n /\ Append(p, n) \in Seq(Int)
<1> SUFFICES ASSUME NEW p \in Seq(Int), NEW n \in Int PROVE Last(Append(p, n)) = n /\ Append(p, n) \in Seq(Int)
  OBVIOUS
<1>1. Append(p, n) \in Seq(Int) /\ Len(Append(p, n)) = Len(p) + 1 /\ Append(p, n)[Len(p) + 1] = n
  BY AppendProperties
<1> QED
  BY <1>1 DEF Last

\* What the arcs from the end of a path lead on to, each node once.
LEMMA FurtherIs ==
    ASSUME NEW arcs, NEW N, NEW E, IsArcs(arcs, N, E), NEW paths, NEW path \in Path
    PROVE  /\ Further(arcs, paths, path) \in Seq(Path)
           /\ \A i \in 1 .. Len(Further(arcs, paths, path)) :
                 \E a \in arcs : /\ a[2] = Last(path.nodes) /\ a[3] \notin Ends(paths)
                                 /\ Further(arcs, paths, path)[i] = Longer(path, a)
                                 /\ Last(Further(arcs, paths, path)[i].nodes) = a[3]
           /\ \A i, j \in 1 .. Len(Further(arcs, paths, path)) :
                 i # j => Last(Further(arcs, paths, path)[i].nodes) # Last(Further(arcs, paths, path)[j].nodes)
           /\ \A a \in arcs : a[2] = Last(path.nodes) /\ a[3] \notin Ends(paths)
                 => \E i \in 1 .. Len(Further(arcs, paths, path)) : Last(Further(arcs, paths, path)[i].nodes) = a[3]
<1> DEFINE out   == {a \in arcs : a[2] = Last(path.nodes)}
           reach == {a[3] : a \in out} \ Ends(paths)
           over(n) == {a[1] : a \in {x \in out : x[3] = n}}
           news  == Sorted(reach)
           Along(n) == [nodes |-> Append(path.nodes, n), edges |-> Append(path.edges, Sorted(over(n))[1]), direct |-> FALSE]
           F == Further(arcs, paths, path)
<1>1. F = [i \in DOMAIN news |-> Along(news[i])]
  BY DEF Further
<1>2. reach \subseteq Int /\ IsFiniteSet(reach)
  <2>1. reach \in SUBSET N
    BY DEF IsArcs
  <2> HIDE DEF reach
  <2> QED
    BY <2>1, FS_Subset DEF IsArcs
<1>3. ASSUME NEW n \in reach
      PROVE  \E a \in out : a[3] = n /\ Sorted(over(n))[1] = a[1] /\ a[1] \in Int
  <2>1. over(n) \in SUBSET E /\ over(n) # {}
    BY DEF IsArcs
  <2> HIDE DEF over
  <2>2. over(n) \subseteq Int /\ IsFiniteSet(over(n))
    BY <2>1, FS_Subset DEF IsArcs
  <2>3. Sorted(over(n)) \in Seq(over(n)) /\ ToSet(Sorted(over(n))) = over(n)
    BY <2>2, SortedIs
  <2>4. Sorted(over(n)) # <<>>
    BY <2>1, <2>3, SetOf
  <2>5. Len(Sorted(over(n))) \in Nat \ {0}
    BY <2>3, <2>4, EmptySeq
  <2>6. Sorted(over(n))[1] \in over(n)
    BY <2>3, <2>5, ElementOfSeq
  <2> QED
    BY <2>2, <2>6 DEF over
<1> HIDE DEF over
<1>4. /\ Cardinality(reach) \in Nat
      /\ news \in [1 .. Cardinality(reach) -> reach]
      /\ \A i, j \in 1 .. Cardinality(reach) : i < j => news[i] < news[j]
      /\ \A k \in reach : \E i \in 1 .. Cardinality(reach) : news[i] = k
  <2> HIDE DEF reach
  <2> QED
    BY <1>2, SortedEnumerates
<1>5. path.nodes \in Seq(Int) /\ path.edges \in Seq(Int)
  BY DEF Path
<1>6. ASSUME NEW n \in reach
      PROVE  \E a \in out : a[3] = n /\ Along(n) = Longer(path, a) /\ Along(n) \in Path /\ Last(Along(n).nodes) = n
  <2>1. PICK a \in out : a[3] = n /\ Sorted(over(n))[1] = a[1] /\ a[1] \in Int
    BY <1>3
  <2>2. Along(n) = Longer(path, a)
    BY <2>1 DEF Longer
  <2>3. Append(path.nodes, n) \in Seq(Int) /\ Append(path.edges, a[1]) \in Seq(Int) /\ Last(Append(path.nodes, n)) = n
    BY <1>2, <1>5, <2>1, LastIs
  <2>4. Along(n) \in Path /\ Last(Along(n).nodes) = n
    BY <2>1, <2>3 DEF Path
  <2> HIDE DEF Along, out
  <2> QED
    BY <2>1, <2>2, <2>4
<1> DEFINE k == Cardinality(reach)
<1> HIDE DEF reach, news, Along, F
<1>7. F = [i \in 1 .. k |-> Along(news[i])] /\ k \in Nat
  BY <1>1, <1>4
<1>8. \A i \in 1 .. k : news[i] \in reach /\ F[i] = Along(news[i]) /\ F[i] \in Path /\ Last(F[i].nodes) = news[i]
  BY <1>4, <1>6, <1>7
<1>9. F \in Seq(Path) /\ Len(F) = k /\ DOMAIN F = 1 .. k
  <2>1. F \in [1 .. k -> Path]
    BY <1>7, <1>8
  <2>2. [1 .. k -> Path] \in {[1 .. n -> Path] : n \in Nat}
    BY <1>7
  <2>3. Seq(Path) = UNION {[1 .. n -> Path] : n \in Nat}
    BY SeqDef, Zenon
  <2>4. F \in UNION {[1 .. n -> Path] : n \in Nat}
    BY <2>1, <2>2, Zenon
  <2>5. F \in Seq(Path)
    BY <2>3, <2>4, Zenon
  <2>6. DOMAIN F = 1 .. Len(F) /\ Len(F) \in Nat
    BY <2>5, LenProperties
  <2>7. DOMAIN F = 1 .. k
    BY <2>1
  <2>8. Len(F) = k
    BY <1>7, <2>6, <2>7
  <2> QED
    BY <2>5, <2>7, <2>8
<1>10. ASSUME NEW i \in 1 .. k
       PROVE  \E a \in arcs : /\ a[2] = Last(path.nodes) /\ a[3] \notin Ends(paths)
                              /\ F[i] = Longer(path, a) /\ Last(F[i].nodes) = a[3]
  <2>1. PICK a \in out : a[3] = news[i] /\ Along(news[i]) = Longer(path, a) /\ Last(Along(news[i]).nodes) = news[i]
    BY <1>6, <1>8
  <2>2. a[3] \notin Ends(paths)
    BY <1>8, <2>1 DEF reach
  <2> QED
    BY <1>8, <2>1, <2>2
<1>11. ASSUME NEW i \in 1 .. k, NEW j \in 1 .. k, i # j PROVE Last(F[i].nodes) # Last(F[j].nodes)
  <2>1. news[i] \in Int /\ news[j] \in Int
    BY <1>2, <1>8
  <2>2. i < j \/ j < i
    BY <1>7, <1>11
  <2>3. news[i] # news[j]
    BY <1>4, <2>1, <2>2 DEF k
  <2> QED
    BY <1>8, <2>3
<1>12. ASSUME NEW a \in arcs, a[2] = Last(path.nodes), a[3] \notin Ends(paths)
       PROVE  \E i \in 1 .. k : Last(F[i].nodes) = a[3]
  <2>1. a[3] \in reach
    BY <1>12 DEF reach
  <2>2. PICK i \in 1 .. k : news[i] = a[3]
    BY <1>4, <2>1 DEF k
  <2> QED
    BY <1>8, <2>2
<1> HIDE DEF out, k
<1> QED
  BY <1>9, <1>10, <1>11, <1>12 DEF F

-----------------------------------------------------------------------------
(* The whole search. *)

Points == [next : Nat \ {0}, paths : Seq(Path)]
Searching(arcs) ==
    CHOOSE search : search = [at \in Points |->
            IF at.next > Len(at.paths) THEN at.paths
            ELSE search[[next |-> at.next + 1, paths |-> at.paths \o Further(arcs, at.paths, at.paths[at.next])]]]
SearchFrom(arcs, i, paths) == Searching(arcs)[[next |-> i, paths |-> paths]]
Seeded(c) == [i \in DOMAIN Sorted(DOMAIN SeedPaths(c)) |-> SeedPaths(c)[Sorted(DOMAIN SeedPaths(c))[i]]]

LEMMA ExplanationsAre ==
    ASSUME NEW c
    PROVE  Explanations(c) = SearchFrom(Arcs(c) \cup ScopeArcs(c), 1, Seeded(c))
BY DEF Explanations, Searching, SearchFrom, Points, Seeded

LEMMA SearchIs ==
    ASSUME NEW arcs, NEW N, NEW E, IsArcs(arcs, N, E), NEW i \in Nat \ {0}, NEW paths \in Seq(Path)
    PROVE  SearchFrom(arcs, i, paths) =
                IF i > Len(paths) THEN paths
                ELSE SearchFrom(arcs, i + 1, paths \o Further(arcs, paths, paths[i]))
<1> DEFINE done == {at \in Points : at.next > Len(at.paths)}
           out  == [at \in Points |-> at.paths]
           Goes(at) == [next |-> at.next + 1, paths |-> at.paths \o Further(arcs, at.paths, at.paths[at.next])]
           next == [at \in Points |-> IF at \in done THEN at ELSE Goes(at)]
           Body(search, at) == IF at.next > Len(at.paths) THEN at.paths ELSE search[Goes(at)]
           Def(search) == [at \in Points |-> Body(search, at)]
<1>1. next \in [Points -> Points]
  <2> SUFFICES ASSUME NEW at \in Points, at \notin done PROVE Goes(at) \in Points
    OBVIOUS
  <2>1. at.next \in Nat \ {0} /\ at.paths \in Seq(Path) /\ ~(at.next > Len(at.paths))
    BY DEF Points
  <2>2. at.next \in 1 .. Len(at.paths)
    BY <2>1, LenProperties
  <2>3. at.paths[at.next] \in Path
    BY <2>1, <2>2, ElementOfSeq
  <2>4. Further(arcs, at.paths, at.paths[at.next]) \in Seq(Path)
    BY <2>3, FurtherIs
  <2>5. at.paths \o Further(arcs, at.paths, at.paths[at.next]) \in Seq(Path)
    BY <2>1, <2>4, SetOf
  <2> QED
    BY <2>1, <2>5 DEF Points
<1>2. PICK f : f = [at \in Points |-> IF at \in done THEN out[at] ELSE f[next[at]]]
  <2> HIDE DEF done, out, next, Goes, Body, Def
  <2>1. \E f : Solves(f, Points, done, out, next)
    BY <1>1, TailRecursion
  <2> QED
    BY <2>1 DEF Solves
<1> HIDE DEF Goes
<1>3. ASSUME NEW at \in Points PROVE f[at] = Body(f, at)
  <2>1. f[at] = IF at \in done THEN out[at] ELSE f[next[at]]
    <3> HIDE DEF done, out, next
    <3> QED
      BY <1>2
  <2>2. CASE at.next > Len(at.paths)
    BY <2>1, <2>2
  <2>3. CASE ~(at.next > Len(at.paths))
    BY <2>1, <2>3
  <2> QED
    BY <2>2, <2>3
<1>4. f = Def(f)
  <2>1. f = [at \in Points |-> f[at]]
    <3> HIDE DEF done, out, next
    <3> QED
      BY <1>2
  <2> HIDE DEF Body
  <2> QED
    BY <1>3, <2>1
<1>5. Searching(arcs) = CHOOSE x : x = Def(x)
  BY DEF Searching, Goes
<1>6. Searching(arcs) = Def(Searching(arcs))
  <2> HIDE DEF Def
  <2> QED
    BY <1>4, <1>5
<1> DEFINE here == [next |-> i, paths |-> paths]
<1>7. here \in Points /\ here.next = i /\ here.paths = paths
  BY DEF Points
<1>8. Searching(arcs)[here] = Body(Searching(arcs), here)
  <2> HIDE DEF Body, here
  <2> QED
    BY <1>6, <1>7
<1>9. Goes(here) = [next |-> i + 1, paths |-> paths \o Further(arcs, paths, paths[i])]
  BY DEF Goes
<1> HIDE DEF Goes
<1> QED
  BY <1>7, <1>8, <1>9 DEF SearchFrom

\* The search keeps what it began with, finds all that the arcs lead to, and
\* only prolongs paths along arcs to what it did not begin with.
Follows(arcs, P, R) ==
    /\ R \in Seq(Path) /\ Ends(P) \subseteq Ends(R)
    /\ \A a \in arcs : a[2] \in Ends(R) => a[3] \in Ends(R)
    /\ \A G : /\ ToSet(P) \subseteq G
              /\ \A p \in G \cap Path : \A a \in arcs : a[2] = Last(p.nodes) /\ a[3] \notin Ends(P) => Longer(p, a) \in G
              => ToSet(R) \subseteq G

LEMMA SearchFollows ==
    ASSUME NEW arcs, NEW N, NEW E, IsArcs(arcs, N, E), NEW P \in Seq(Path), Ends(P) \subseteq N,
           \A j, k \in 1 .. Len(P) : j # k => Last(P[j].nodes) # Last(P[k].nodes)
    PROVE  Follows(arcs, P, SearchFrom(arcs, 1, P))
<1> DEFINE End(p) == Last(p.nodes)
           Once(Q) == \A j, k \in 1 .. Len(Q) : j # k => End(Q[j]) # End(Q[k])
           Done(i, Q) == \A a \in arcs : \A j \in 1 .. Len(Q) : j < i /\ a[2] = End(Q[j]) => a[3] \in Ends(Q)
           Ready(i, Q) == i <= Len(Q) + 1 /\ Ends(Q) \subseteq N /\ Once(Q) /\ Done(i, Q)
           T == {k \in Nat : \A i \in Nat \ {0} : \A Q \in Seq(Path) :
                    Ready(i, Q) /\ Cardinality(N) + 1 - i = k => Follows(arcs, Q, SearchFrom(arcs, i, Q))}
<1>1. \A Q \in Seq(Path) : /\ Len(Q) \in Nat /\ DOMAIN Q = 1 .. Len(Q)
                           /\ Ends(Q) = {End(Q[j]) : j \in 1 .. Len(Q)} /\ \A j \in 1 .. Len(Q) : Q[j] \in Path
  <2> SUFFICES ASSUME NEW Q \in Seq(Path)
               PROVE  /\ Len(Q) \in Nat /\ DOMAIN Q = 1 .. Len(Q)
                      /\ Ends(Q) = {End(Q[j]) : j \in 1 .. Len(Q)} /\ \A j \in 1 .. Len(Q) : Q[j] \in Path
    OBVIOUS
  <2>1. Len(Q) \in Nat /\ DOMAIN Q = 1 .. Len(Q) /\ \A j \in 1 .. Len(Q) : Q[j] \in Path
    BY LenProperties, ElementOfSeq
  <2>2. ToSet(Q) = {Q[j] : j \in 1 .. Len(Q)}
    BY <2>1 DEF ToSet
  <2> QED
    BY <2>1, <2>2 DEF Ends
<1>2. Cardinality(N) \in Nat
  BY FS_CardinalityType DEF IsArcs
<1>3. ASSUME NEW Q \in Seq(Path), Ends(Q) \subseteq N, Once(Q) PROVE Len(Q) <= Cardinality(N)
  <2> DEFINE f == [j \in 1 .. Len(Q) |-> End(Q[j])]
  <2>1. f \in Injection(1 .. Len(Q), N)
    BY <1>1, <1>3 DEF Injection, IsInjective
  <2> HIDE DEF f
  <2>2. Cardinality(1 .. Len(Q)) <= Cardinality(N)
    BY <2>1, FS_Injection DEF IsArcs
  <2>3. Len(Q) \in Nat
    BY LenProperties
  <2>4. Cardinality(1 .. Len(Q)) = Len(Q)
    BY <2>3, IntervalSize, Zenon
  <2> QED
    BY <2>2, <2>4
<1>4. ASSUME NEW k \in Nat, k = 0 \/ k - 1 \in T PROVE k \in T
  <2> SUFFICES ASSUME NEW i \in Nat \ {0}, NEW Q \in Seq(Path), Ready(i, Q), Cardinality(N) + 1 - i = k
               PROVE  Follows(arcs, Q, SearchFrom(arcs, i, Q))
    OBVIOUS
  <2>1. CASE i > Len(Q)
    <3>1. SearchFrom(arcs, i, Q) = Q
      BY <2>1, SearchIs
    <3>2. \A a \in arcs : a[2] \in Ends(Q) => a[3] \in Ends(Q)
      BY <1>1, <2>1
    <3> QED
      BY <3>1, <3>2 DEF Follows
  <2>2. CASE ~(i > Len(Q))
    <3> DEFINE p == Q[i]
               F == Further(arcs, Q, p)
               R == Q \o F
    <3>1. SearchFrom(arcs, i, Q) = SearchFrom(arcs, i + 1, R)
      BY <2>2, SearchIs
    <3>2. p \in Path /\ i \in 1 .. Len(Q)
      BY <1>1, <2>2
    <3> HIDE DEF p
    <3>3. /\ F \in Seq(Path)
          /\ \A j \in 1 .. Len(F) : \E a \in arcs : a[2] = End(p) /\ a[3] \notin Ends(Q) /\ F[j] = Longer(p, a) /\ End(F[j]) = a[3]
          /\ \A j, l \in 1 .. Len(F) : j # l => End(F[j]) # End(F[l])
          /\ \A a \in arcs : a[2] = End(p) /\ a[3] \notin Ends(Q) => \E j \in 1 .. Len(F) : End(F[j]) = a[3]
      BY <3>2, FurtherIs
    <3> HIDE DEF F, R
    <3>4. /\ R \in Seq(Path) /\ Len(R) = Len(Q) + Len(F) /\ ToSet(R) = ToSet(Q) \cup ToSet(F)
          /\ \A j \in 1 .. Len(R) : R[j] = IF j <= Len(Q) THEN Q[j] ELSE F[j - Len(Q)]
      <4>1. R \in Seq(Path) /\ ToSet(R) = ToSet(Q) \cup ToSet(F)
        BY <3>3, SetOf DEF R
      <4> QED
        BY <3>3, <4>1, ConcatProperties DEF R
    <3>5. Ends(R) = Ends(Q) \cup Ends(F)
      BY <3>4 DEF Ends
    <3>6. /\ Len(F) \in Nat /\ Len(Q) \in Nat /\ Ends(F) = {End(F[j]) : j \in 1 .. Len(F)}
          /\ Ends(Q) = {End(Q[j]) : j \in 1 .. Len(Q)}
      BY <1>1, <3>3
    <3>7. Ends(F) \subseteq N /\ Ends(F) \cap Ends(Q) = {}
      <4>1. ASSUME NEW j \in 1 .. Len(F) PROVE End(F[j]) \in N /\ End(F[j]) \notin Ends(Q)
        <5>1. PICK a \in arcs : a[3] \notin Ends(Q) /\ End(F[j]) = a[3]
          BY <3>3
        <5>2. a[3] \in N
          BY DEF IsArcs
        <5> QED
          BY <5>1, <5>2
      <4> HIDE DEF End
      <4> QED
        BY <3>6, <4>1
    <3>8. Once(R)
      <4> SUFFICES ASSUME NEW j \in 1 .. Len(R), NEW l \in 1 .. Len(R), j < l PROVE End(R[j]) # End(R[l])
        BY <3>4, <3>6
      <4> HIDE DEF End
      <4>1. CASE l <= Len(Q)
        <5>1. j \in 1 .. Len(Q) /\ l \in 1 .. Len(Q) /\ R[j] = Q[j] /\ R[l] = Q[l] /\ j # l
          BY <3>4, <3>6, <4>1
        <5> QED
          BY <5>1
      <4>2. CASE j <= Len(Q) /\ ~(l <= Len(Q))
        <5>1. j \in 1 .. Len(Q) /\ l - Len(Q) \in 1 .. Len(F) /\ R[j] = Q[j] /\ R[l] = F[l - Len(Q)]
          BY <3>4, <3>6, <4>2
        <5>2. End(R[j]) \in Ends(Q) /\ End(R[l]) \in Ends(F)
          BY <3>6, <5>1
        <5> QED
          BY <3>7, <5>2
      <4>3. CASE ~(j <= Len(Q)) /\ ~(l <= Len(Q))
        <5> DEFINE u == j - Len(Q)
                   v == l - Len(Q)
        <5>1. u \in 1 .. Len(F) /\ v \in 1 .. Len(F) /\ u # v
          BY <3>4, <3>6, <4>3
        <5>2. R[j] = F[u] /\ R[l] = F[v]
          BY <3>4, <4>3
        <5> HIDE DEF u, v
        <5>3. End(F[u]) # End(F[v])
          BY <3>3, <5>1, Zenon
        <5> QED
          BY <5>2, <5>3
      <4> QED
        BY <3>4, <3>6, <4>1, <4>2, <4>3
    <3>9. Done(i + 1, R)
      <4> SUFFICES ASSUME NEW a \in arcs, NEW j \in 1 .. Len(R), j < i + 1, a[2] = End(R[j]) PROVE a[3] \in Ends(R)
        OBVIOUS
      <4>1. j \in 1 .. Len(Q) /\ R[j] = Q[j] /\ (j < i \/ j = i)
        BY <3>2, <3>4, <3>6
      <4>2. CASE j < i
        BY <3>5, <4>1, <4>2
      <4>3. CASE j = i
        <5>1. a[2] = End(p)
          BY <4>1, <4>3 DEF p
        <5>2. a[3] \in Ends(Q) \/ a[3] \in Ends(F)
          BY <3>3, <3>6, <5>1
        <5> QED
          BY <3>5, <5>2
      <4> QED
        BY <4>1, <4>2, <4>3
    <3>10. k - 1 \in Nat /\ i + 1 \in Nat \ {0} /\ Cardinality(N) + 1 - (i + 1) = k - 1 /\ i + 1 <= Len(R) + 1
      <4>1. Len(Q) <= Cardinality(N)
        BY <1>3
      <4> QED
        BY <1>2, <3>2, <3>4, <3>6, <4>1
    <3>11. Ready(i + 1, R)
      BY <3>5, <3>7, <3>8, <3>9, <3>10
    <3> HIDE DEF Ready
    <3>12. Follows(arcs, R, SearchFrom(arcs, i, Q))
      <4>1. k - 1 \in T
        BY <1>4, <3>10
      <4>2. Follows(arcs, R, SearchFrom(arcs, i + 1, R))
        BY <3>4, <3>10, <3>11, <4>1
      <4> QED
        BY <3>1, <4>2
    <3> DEFINE D == SearchFrom(arcs, i, Q)
    <3> HIDE DEF D
    <3>13. ASSUME NEW G, ToSet(Q) \subseteq G,
                  \A q \in G \cap Path : \A a \in arcs : a[2] = End(q) /\ a[3] \notin Ends(Q) => Longer(q, a) \in G
           PROVE  ToSet(D) \subseteq G
      <4>1. p \in G
        <5>1. p \in ToSet(Q)
          BY <1>1, <3>2 DEF p, ToSet
        <5> QED
          BY <3>13, <5>1
      <4>2. ToSet(F) \subseteq G
        <5>1. \A j \in 1 .. Len(F) : F[j] \in G
          BY <3>2, <3>3, <3>13, <4>1
        <5>2. ToSet(F) = {F[j] : j \in 1 .. Len(F)}
          BY <1>1, <3>3 DEF ToSet
        <5> QED
          BY <5>1, <5>2
      <4>3. ToSet(R) \subseteq G
        BY <3>4, <3>13, <4>2
      <4>4. \A q \in G \cap Path : \A a \in arcs : a[2] = End(q) /\ a[3] \notin Ends(R) => Longer(q, a) \in G
        BY <3>5, <3>13
      <4> QED
        BY <3>12, <4>3, <4>4 DEF Follows, D
    <3> QED
      BY <3>5, <3>12, <3>13 DEF Follows, D
  <2> QED
    BY <2>1, <2>2
<1>5. Nat \subseteq T
  <2> HIDE DEF T
  <2>1. 0 \in T
    BY <1>4
  <2>2. \A k \in Nat : k \in T => k + 1 \in T
    <3> SUFFICES ASSUME NEW k \in Nat, k \in T PROVE k + 1 \in T
      OBVIOUS
    <3>1. k + 1 \in Nat /\ (k + 1) - 1 = k
      OBVIOUS
    <3> QED
      BY <1>4, <3>1
  <2> QED
    BY <2>1, <2>2, Induction
<1>6. Cardinality(N) + 1 - 1 \in T
  BY <1>2, <1>5
<1>7. Ready(1, P)
  BY <1>1
<1> HIDE DEF Ready
<1> QED
  BY <1>6, <1>7

-----------------------------------------------------------------------------
(* What it begins with. *)

\* What a change is to its analysis.
Touched(c) == {op.id : op \in Ops(c, "edges")}
Sides(c) == {c.base, c.proposed}
IsChange(c) ==
    /\ \A g \in Sides(c) : Wired(g) /\ EdgesOf(g) \subseteq Int /\ IsFiniteSet(EdgesOf(g))
    /\ Direct(c) \subseteq Int /\ IsFiniteSet(Direct(c))

\* The nodes and the edges it knows.
EndsOf(g) == {g.edges[e].source : e \in EdgesOf(g)} \cup {g.edges[e].target : e \in EdgesOf(g)}
KnownNodes(c) == Direct(c) \cup EndsOf(c.base) \cup EndsOf(c.proposed)
KnownEdges(c) == EdgesOf(c.base) \cup EdgesOf(c.proposed)

LEMMA KnownAre ==
    ASSUME NEW c, IsChange(c)
    PROVE  /\ KnownNodes(c) \subseteq Int /\ IsFiniteSet(KnownNodes(c))
           /\ KnownEdges(c) \subseteq Int /\ IsFiniteSet(KnownEdges(c))
           /\ \A g \in Sides(c) : \A e \in EdgesOf(g) :
                 e \in KnownEdges(c) /\ g.edges[e].source \in KnownNodes(c) /\ g.edges[e].target \in KnownNodes(c)
<1>1. ASSUME NEW g \in Sides(c) PROVE EndsOf(g) \subseteq Int /\ IsFiniteSet(EndsOf(g))
  <2> DEFINE A == {g.edges[e].source : e \in EdgesOf(g)}
             B == {g.edges[e].target : e \in EdgesOf(g)}
             from(e) == g.edges[e].source
             to(e) == g.edges[e].target
             s == [e \in EdgesOf(g) |-> from(e)]
             t == [e \in EdgesOf(g) |-> to(e)]
  <2>1. IsFiniteSet(EdgesOf(g)) /\ EndsOf(g) \subseteq Int
    BY DEF IsChange, Wired, EndsOf
  <2>2. s \in Surjection(EdgesOf(g), A) /\ t \in Surjection(EdgesOf(g), B)
    BY DEF Surjection
  <2> HIDE DEF A, B, s, t
  <2>3. IsFiniteSet(A) /\ IsFiniteSet(B)
    BY <2>1, <2>2, FS_Surjection
  <2>4. IsFiniteSet(A \cup B)
    BY <2>3, FS_Union
  <2> QED
    BY <2>1, <2>4 DEF EndsOf, A, B
<1>2. KnownNodes(c) \subseteq Int /\ IsFiniteSet(KnownNodes(c))
  <2>1. IsFiniteSet(EndsOf(c.base) \cup EndsOf(c.proposed))
    BY <1>1, FS_Union DEF Sides
  <2>2. IsFiniteSet(Direct(c) \cup (EndsOf(c.base) \cup EndsOf(c.proposed)))
    BY <2>1, FS_Union DEF IsChange
  <2>3. KnownNodes(c) = Direct(c) \cup (EndsOf(c.base) \cup EndsOf(c.proposed))
    BY DEF KnownNodes
  <2> QED
    BY <1>1, <2>2, <2>3 DEF IsChange, Sides
<1>3. KnownEdges(c) \subseteq Int /\ IsFiniteSet(KnownEdges(c))
  BY FS_Union DEF IsChange, Sides, KnownEdges
<1>4. \A g \in Sides(c) : \A e \in EdgesOf(g) :
         e \in KnownEdges(c) /\ g.edges[e].source \in KnownNodes(c) /\ g.edges[e].target \in KnownNodes(c)
  BY DEF Sides, KnownEdges, KnownNodes, EndsOf
<1> QED
  BY <1>2, <1>3, <1>4

\* Every arc the search follows is a review arc, or leads down a scope edge, of one of the graphs.
LEMMA ArcsAre ==
    ASSUME NEW c, NEW a \in Arcs(c) \cup ScopeArcs(c)
    PROVE  \E g \in Sides(c) : \/ a \in ReviewArcs(g)
                               \/ a[1] \in ScopeEdges(g) /\ a[2] = g.edges[a[1]].target /\ a[3] = g.edges[a[1]].source
<1>1. CASE a \in Arcs(c)
  BY <1>1 DEF Arcs, Sides
<1>2. CASE a \in ScopeArcs(c)
  BY <1>2 DEF ScopeArcs, Sides
<1> QED
  BY <1>1, <1>2

LEMMA ReviewArcsAre ==
    ASSUME NEW g, NEW a \in ReviewArcs(g)
    PROVE  /\ a = <<a[1], a[2], a[3]>> /\ a[1] \in EdgesOf(g)
           /\ {a[2], a[3]} \subseteq {g.edges[a[1]].source, g.edges[a[1]].target}
BY DEF ReviewArcs

LEMMA ArcsAreKnown ==
    ASSUME NEW c, IsChange(c)
    PROVE  IsArcs(Arcs(c) \cup ScopeArcs(c), KnownNodes(c), KnownEdges(c))
<1>1. ASSUME NEW a \in Arcs(c) \cup ScopeArcs(c)
      PROVE  a[1] \in KnownEdges(c) /\ a[2] \in KnownNodes(c) /\ a[3] \in KnownNodes(c)
  <2>1. PICK g \in Sides(c) : \/ a \in ReviewArcs(g)
                              \/ a[1] \in ScopeEdges(g) /\ a[2] = g.edges[a[1]].target /\ a[3] = g.edges[a[1]].source
    BY ArcsAre
  <2>2. a[1] \in EdgesOf(g) /\ {a[2], a[3]} \subseteq {g.edges[a[1]].source, g.edges[a[1]].target}
    BY <2>1, ReviewArcsAre DEF ScopeEdges
  <2> QED
    BY <2>2, KnownAre
<1> QED
  BY <1>1, KnownAre DEF IsArcs

\* A child whose scope changed is one of an edge the batch is about.
LEMMA RescopedAre ==
    ASSUME NEW c
    PROVE  /\ \A s \in Rescoped(c) : \E g \in Sides(c) :
                 /\ s[1] \in Touched(c) \cap ScopeEdges(g)
                 /\ s[2] = g.edges[s[1]].source /\ s[3] = g.edges[s[1]].target
           /\ \A g \in Sides(c) : \A e \in Touched(c) \cap ScopeEdges(g) : <<e, g.edges[e].source, g.edges[e].target>> \in Rescoped(c)
<1> DEFINE Scopes(id) == {e \in ValueAt(c.base.edges, id) \cup ValueAt(c.proposed.edges, id) : e.relationship = "scope-parent"}
           About(op) == {<<op.id, e.source, e.target>> : e \in Scopes(op.id)}
<1>1. Rescoped(c) = UNION {About(op) : op \in Ops(c, "edges")}
  BY DEF Rescoped
<1>2. ASSUME NEW s \in Rescoped(c)
      PROVE  \E g \in Sides(c) : /\ s[1] \in Touched(c) \cap ScopeEdges(g)
                                 /\ s[2] = g.edges[s[1]].source /\ s[3] = g.edges[s[1]].target
  <2>1. PICK op \in Ops(c, "edges") : s \in About(op)
    BY <1>1
  <2>2. PICK e \in Scopes(op.id) : s = <<op.id, e.source, e.target>>
    BY <2>1
  <2>3. PICK g \in Sides(c) : e \in ValueAt(g.edges, op.id)
    BY <2>2 DEF Sides
  <2>4. op.id \in EdgesOf(g) /\ e = g.edges[op.id]
    BY <2>3 DEF ValueAt, EdgesOf
  <2>5. op.id \in ScopeEdges(g) /\ op.id \in Touched(c)
    BY <2>2, <2>4 DEF ScopeEdges, Touched
  <2> QED
    BY <2>2, <2>4, <2>5
<1>3. ASSUME NEW g \in Sides(c), NEW e \in Touched(c) \cap ScopeEdges(g)
      PROVE  <<e, g.edges[e].source, g.edges[e].target>> \in Rescoped(c)
  <2>1. PICK op \in Ops(c, "edges") : op.id = e
    BY DEF Touched
  <2>2. g.edges[e] \in Scopes(e)
    BY ValueIs DEF Sides, ScopeEdges, EdgesOf
  <2> QED
    BY <1>1, <2>1, <2>2
<1> QED
  BY <1>2, <1>3

\* The nodes a path may begin with.
Began(c) == Direct(c) \cup {a[2] : a \in {x \in Arcs(c) : x[1] \in Touched(c)}} \cup {s[2] : s \in Rescoped(c)}

\* The search begins with one path to each of some nodes: the node itself, or a child of it whose
\* scope changed first.
LEMMA SeedsAre ==
    ASSUME NEW c, IsChange(c)
    PROVE  LET seeds == SeedPaths(c)
           IN  /\ Began(c) \subseteq DOMAIN seeds /\ DOMAIN seeds \subseteq KnownNodes(c)
               /\ \A n \in DOMAIN seeds :
                     /\ seeds[n] \in Path /\ Last(seeds[n].nodes) = n /\ (seeds[n].direct <=> n \in Direct(c))
                     /\ \/ seeds[n].nodes = <<n>> /\ seeds[n].edges = <<>> /\ n \in Began(c)
                        \/ \E s \in Rescoped(c) : s[3] = n /\ seeds[n].nodes = <<s[2], n>> /\ seeds[n].edges = <<s[1]>>
<1> DEFINE seeds == SeedPaths(c)
           Below(n) == {s \in Rescoped(c) : s[3] = n}
           First(n) == Sorted({s[2] : s \in Below(n)})[1]
           Over(n)  == {s[1] : s \in {x \in Below(n) : x[2] = First(n)}}
           Edge(n)  == Sorted(Over(n))[1]
           Seed(n)  == IF n \in Direct(c) \/ (n \in Began(c) /\ \A s \in Below(n) : n <= s[2])
                       THEN [nodes |-> <<n>>, edges |-> <<>>, direct |-> n \in Direct(c)]
                       ELSE [nodes |-> <<First(n), n>>, edges |-> <<Edge(n)>>, direct |-> FALSE]
           Roots == Began(c) \cup {s[3] : s \in Rescoped(c)}
<1>1. seeds = [n \in Roots |-> Seed(n)]
  BY DEF SeedPaths, Began, Touched
<1>2. \A s \in Rescoped(c) : s[1] \in KnownEdges(c) /\ s[2] \in KnownNodes(c) /\ s[3] \in KnownNodes(c)
  <2> SUFFICES ASSUME NEW s \in Rescoped(c) PROVE s[1] \in KnownEdges(c) /\ s[2] \in KnownNodes(c) /\ s[3] \in KnownNodes(c)
    OBVIOUS
  <2>1. PICK g \in Sides(c) : /\ s[1] \in Touched(c) \cap ScopeEdges(g)
                              /\ s[2] = g.edges[s[1]].source /\ s[3] = g.edges[s[1]].target
    BY RescopedAre
  <2>2. s[1] \in EdgesOf(g)
    BY <2>1 DEF ScopeEdges
  <2> QED
    BY <2>1, <2>2, KnownAre
<1>3. Roots \subseteq KnownNodes(c)
  <2>1. ASSUME NEW a \in Arcs(c) PROVE a[2] \in KnownNodes(c)
    BY <2>1, ArcsAreKnown DEF IsArcs
  <2> QED
    BY <1>2, <2>1 DEF Began, KnownNodes
<1>4. \A S \in SUBSET KnownNodes(c) : S # {} => Sorted(S)[1] \in S
  <2> SUFFICES ASSUME NEW S \in SUBSET KnownNodes(c), S # {} PROVE Sorted(S)[1] \in S
    OBVIOUS
  <2>1. S \subseteq Int /\ IsFiniteSet(S)
    BY KnownAre, FS_Subset
  <2> QED
    BY <2>1, FirstIs
<1>5. \A S \in SUBSET KnownEdges(c) : S # {} => Sorted(S)[1] \in S
  <2> SUFFICES ASSUME NEW S \in SUBSET KnownEdges(c), S # {} PROVE Sorted(S)[1] \in S
    OBVIOUS
  <2>1. S \subseteq Int /\ IsFiniteSet(S)
    BY KnownAre, FS_Subset
  <2> QED
    BY <2>1, FirstIs
<1>6. ASSUME NEW n, Below(n) # {}
      PROVE  \E s \in Below(n) : s[2] = First(n) /\ s[1] = Edge(n)
  <2> DEFINE children == {s[2] : s \in Below(n)}
  <2>1. children # {} /\ children \in SUBSET KnownNodes(c)
    BY <1>2, <1>6
  <2> HIDE DEF children
  <2>2. First(n) \in children
    BY <1>4, <2>1 DEF children
  <2>3. Over(n) # {} /\ Over(n) \in SUBSET KnownEdges(c)
    <3> HIDE DEF First
    <3> QED
      BY <1>2, <2>2 DEF children
  <2> HIDE DEF Over
  <2>4. Edge(n) \in Over(n)
    BY <1>5, <2>3
  <2> HIDE DEF Edge, First
  <2> QED
    BY <2>4 DEF Over
<1> HIDE DEF First, Edge, Over
<1>7. ASSUME NEW n \in Roots
      PROVE  /\ Seed(n) \in Path /\ Last(Seed(n).nodes) = n /\ (Seed(n).direct <=> n \in Direct(c))
             /\ \/ Seed(n).nodes = <<n>> /\ Seed(n).edges = <<>> /\ n \in Began(c)
                \/ \E s \in Rescoped(c) : s[3] = n /\ Seed(n).nodes = <<s[2], n>> /\ Seed(n).edges = <<s[1]>>
  <2>1. n \in Int
    BY <1>3, KnownAre
  <2>2. CASE n \in Direct(c) \/ (n \in Began(c) /\ \A s \in Below(n) : n <= s[2])
    <3>1. Seed(n) = [nodes |-> <<n>>, edges |-> <<>>, direct |-> n \in Direct(c)]
      BY <2>2
    <3>2. n \in Began(c)
      BY <2>2 DEF Began
    <3>3. <<n>> \in Seq(Int) /\ <<>> \in Seq(Int) /\ Last(<<n>>) = n
      BY <2>1 DEF Last
    <3>4. Seed(n).nodes = <<n>> /\ Seed(n).edges = <<>> /\ Seed(n).direct = (n \in Direct(c))
      BY <3>1
    <3>5. Seed(n) \in Path
      <4>1. (n \in Direct(c)) \in BOOLEAN
        OBVIOUS
      <4> QED
        BY <3>1, <3>3, <4>1 DEF Path
    <3> HIDE DEF Seed
    <3> QED
      BY <3>2, <3>3, <3>4, <3>5
  <2>3. CASE ~(n \in Direct(c) \/ (n \in Began(c) /\ \A s \in Below(n) : n <= s[2]))
    <3>1. Seed(n) = [nodes |-> <<First(n), n>>, edges |-> <<Edge(n)>>, direct |-> FALSE]
      BY <2>3
    <3>2. Below(n) # {}
      BY <2>3
    <3>3. PICK s \in Below(n) : s[2] = First(n) /\ s[1] = Edge(n)
      BY <1>6, <3>2
    <3>4. First(n) \in Int /\ Edge(n) \in Int
      BY <1>2, <3>3, KnownAre
    <3>5. <<First(n), n>> \in Seq(Int) /\ <<Edge(n)>> \in Seq(Int) /\ Last(<<First(n), n>>) = n
      BY <2>1, <3>4 DEF Last
    <3> QED
      BY <2>3, <3>1, <3>3, <3>5 DEF Path
  <2> QED
    BY <2>2, <2>3
<1> HIDE DEF Seed
<1>8. DOMAIN seeds = Roots /\ \A n \in Roots : seeds[n] = Seed(n)
  BY <1>1
<1> HIDE DEF seeds
<1>9. /\ Began(c) \subseteq DOMAIN seeds /\ DOMAIN seeds \subseteq KnownNodes(c)
      /\ \A n \in DOMAIN seeds :
                     /\ seeds[n] \in Path /\ Last(seeds[n].nodes) = n /\ (seeds[n].direct <=> n \in Direct(c))
                     /\ \/ seeds[n].nodes = <<n>> /\ seeds[n].edges = <<>> /\ n \in Began(c)
                        \/ \E s \in Rescoped(c) : s[3] = n /\ seeds[n].nodes = <<s[2], n>> /\ seeds[n].edges = <<s[1]>>
  BY <1>3, <1>7, <1>8
<1> QED
  BY <1>9 DEF seeds

-----------------------------------------------------------------------------
(* What it finds. *)

\* The search begins with the seeds, in the order of their nodes.
LEMMA SeededAre ==
    ASSUME NEW c, IsChange(c)
    PROVE  /\ Seeded(c) \in Seq(Path) /\ Ends(Seeded(c)) = DOMAIN SeedPaths(c)
           /\ ToSet(Seeded(c)) = {SeedPaths(c)[n] : n \in DOMAIN SeedPaths(c)}
           /\ \A j, k \in 1 .. Len(Seeded(c)) : j # k => Last(Seeded(c)[j].nodes) # Last(Seeded(c)[k].nodes)
<1> DEFINE seeds == SeedPaths(c)
           roots == DOMAIN seeds
           order == Sorted(roots)
           n == Cardinality(roots)
           P == Seeded(c)
<1>1. roots \subseteq Int /\ IsFiniteSet(roots)
  <2>1. roots \in SUBSET KnownNodes(c)
    BY SeedsAre
  <2> HIDE DEF roots
  <2> QED
    BY <2>1, KnownAre, FS_Subset
<1>2. \A r \in roots : seeds[r] \in Path /\ Last(seeds[r].nodes) = r
  BY SeedsAre
<1> HIDE DEF seeds, roots
<1>3. /\ n \in Nat /\ order \in [1 .. n -> roots]
      /\ \A i, j \in 1 .. n : i < j => order[i] < order[j]
      /\ \A k \in roots : \E i \in 1 .. n : order[i] = k
  BY <1>1, SortedEnumerates
<1>4. P = [i \in 1 .. n |-> seeds[order[i]]]
  BY <1>3 DEF Seeded, seeds, roots
<1> HIDE DEF n, order, P
<1>5. P \in Seq(Path) /\ Len(P) = n /\ DOMAIN P = 1 .. n
  <2>1. P \in [1 .. n -> Path]
    BY <1>2, <1>3, <1>4
  <2>2. P \in Seq(Path)
    BY <1>3, <2>1, SeqDef
  <2> QED
    BY <1>3, <2>1, <2>2, LenProperties
<1>6. ToSet(P) = {seeds[r] : r \in roots}
  BY <1>3, <1>4, <1>5 DEF ToSet
<1>7. Ends(P) = roots
  BY <1>2, <1>6 DEF Ends
<1>8. ASSUME NEW j \in 1 .. n, NEW k \in 1 .. n, j # k PROVE Last(P[j].nodes) # Last(P[k].nodes)
  <2>1. order[j] # order[k] /\ order[j] \in roots /\ order[k] \in roots
    <3>1. order[j] \in Int /\ order[k] \in Int
      BY <1>1, <1>3
    <3>2. j < k \/ k < j
      BY <1>3, <1>8
    <3> QED
      BY <1>3, <3>1, <3>2
  <2> QED
    BY <1>2, <1>4, <2>1
<1> QED
  BY <1>5, <1>6, <1>7, <1>8 DEF P, roots, seeds

\* What the explanations are, from what the search begins with.
LEMMA ExplanationsFollow ==
    ASSUME NEW c, IsChange(c)
    PROVE  Follows(Arcs(c) \cup ScopeArcs(c), Seeded(c), Explanations(c))
<1>1. Ends(Seeded(c)) \subseteq KnownNodes(c)
  BY SeededAre, SeedsAre
<1>2. IsArcs(Arcs(c) \cup ScopeArcs(c), KnownNodes(c), KnownEdges(c))
  BY ArcsAreKnown
<1>3. /\ Seeded(c) \in Seq(Path)
      /\ \A j, k \in 1 .. Len(Seeded(c)) : j # k => Last(Seeded(c)[j].nodes) # Last(Seeded(c)[k].nodes)
  BY SeededAre
<1>4. Follows(Arcs(c) \cup ScopeArcs(c), Seeded(c), SearchFrom(Arcs(c) \cup ScopeArcs(c), 1, Seeded(c)))
  BY <1>1, <1>2, <1>3, SearchFollows
<1> QED
  BY <1>4, ExplanationsAre

-----------------------------------------------------------------------------
(* Paths a reader can follow. *)

TouchedEnds(c) == UNION {UNION {{g.edges[e].source, g.edges[e].target} : e \in Touched(c) \cap EdgesOf(g)} : g \in Sides(c)}
GoesBy(c, i, e, m, n) ==
    \E g \in Sides(c) :
        \/ <<e, m, n>> \in ReviewArcs(g)
        \/ e \in ScopeEdges(g) /\ g.edges[e].target = m /\ g.edges[e].source = n
        \/ i = 1 /\ e \in Touched(c) \cap ScopeEdges(g) /\ g.edges[e].source = m /\ g.edges[e].target = n
Explains(c, p) ==
    /\ Head(p.nodes) \in Direct(c) \cup TouchedEnds(c)
    /\ Len(p.nodes) = Len(p.edges) + 1
    /\ \A i \in DOMAIN p.edges : GoesBy(c, i, p.edges[i], p.nodes[i], p.nodes[i + 1])
    /\ p.direct <=> Last(p.nodes) \in Direct(c)

\* Where a path begins was changed, or is an end of a changed edge.
LEMMA BeganIsTouched ==
    ASSUME NEW c, IsChange(c)
    PROVE  /\ Began(c) \subseteq Direct(c) \cup TouchedEnds(c)
           /\ \A s \in Rescoped(c) : s[2] \in TouchedEnds(c)
<1>1. ASSUME NEW g \in Sides(c), NEW e \in Touched(c), e \in EdgesOf(g)
      PROVE  {g.edges[e].source, g.edges[e].target} \subseteq TouchedEnds(c)
  BY <1>1 DEF TouchedEnds
<1>2. ASSUME NEW a \in Arcs(c), a[1] \in Touched(c) PROVE a[2] \in TouchedEnds(c)
  <2>1. PICK g \in Sides(c) : a \in ReviewArcs(g)
    BY DEF Arcs, Sides
  <2>2. a[1] \in EdgesOf(g) /\ a[2] \in {g.edges[a[1]].source, g.edges[a[1]].target}
    BY <2>1, ReviewArcsAre
  <2> QED
    BY <1>1, <1>2, <2>2
<1>3. ASSUME NEW s \in Rescoped(c) PROVE s[2] \in TouchedEnds(c)
  <2>1. PICK g \in Sides(c) : s[1] \in Touched(c) \cap ScopeEdges(g) /\ s[2] = g.edges[s[1]].source
    BY RescopedAre
  <2>2. s[1] \in EdgesOf(g)
    BY <2>1 DEF ScopeEdges
  <2> QED
    BY <1>1, <2>1, <2>2
<1> QED
  BY <1>2, <1>3 DEF Began

LEMMA SeedExplains ==
    ASSUME NEW c, IsChange(c), NEW n \in DOMAIN SeedPaths(c)
    PROVE  Explains(c, SeedPaths(c)[n])
<1> DEFINE p == SeedPaths(c)[n]
<1>1. /\ p \in Path /\ Last(p.nodes) = n /\ (p.direct <=> n \in Direct(c))
      /\ \/ p.nodes = <<n>> /\ p.edges = <<>> /\ n \in Began(c)
         \/ \E s \in Rescoped(c) : s[3] = n /\ p.nodes = <<s[2], n>> /\ p.edges = <<s[1]>>
  BY SeedsAre
<1> HIDE DEF p
<1>2. CASE p.nodes = <<n>> /\ p.edges = <<>> /\ n \in Began(c)
  <2>1. Head(p.nodes) = n /\ Len(p.nodes) = 1 /\ Len(p.edges) = 0 /\ DOMAIN p.edges = {}
    BY <1>2
  <2> QED
    BY <1>1, <1>2, <2>1, BeganIsTouched DEF Explains, p
<1>3. ASSUME NEW s \in Rescoped(c), s[3] = n, p.nodes = <<s[2], n>>, p.edges = <<s[1]>> PROVE Explains(c, p)
  <2>1. Head(p.nodes) = s[2] /\ Len(p.nodes) = 2 /\ Len(p.edges) = 1 /\ DOMAIN p.edges = {1}
    BY <1>3
  <2>2. PICK g \in Sides(c) : /\ s[1] \in Touched(c) \cap ScopeEdges(g)
                              /\ s[2] = g.edges[s[1]].source /\ s[3] = g.edges[s[1]].target
    BY RescopedAre
  <2>3. GoesBy(c, 1, s[1], s[2], n)
    BY <1>3, <2>2 DEF GoesBy
  <2>4. p.edges[1] = s[1] /\ p.nodes[1] = s[2] /\ p.nodes[1 + 1] = n
    BY <1>3
  <2>5. s[2] \in TouchedEnds(c)
    BY BeganIsTouched
  <2> QED
    BY <1>1, <2>1, <2>3, <2>4, <2>5 DEF Explains
<1> QED
  BY <1>1, <1>2, <1>3 DEF p

LEMMA LongerExplains ==
    ASSUME NEW c, IsChange(c), NEW p \in Path, Explains(c, p), NEW a \in Arcs(c) \cup ScopeArcs(c),
           a[2] = Last(p.nodes), a[3] \notin Direct(c)
    PROVE  Explains(c, Longer(p, a))
<1> DEFINE q == Longer(p, a)
           k == Len(p.edges)
<1>0. k = Len(p.edges)
  OBVIOUS
<1>1. /\ p.nodes \in Seq(Int) /\ p.edges \in Seq(Int) /\ k \in Nat /\ Len(p.nodes) = k + 1
      /\ DOMAIN p.edges = 1 .. k /\ a[1] \in Int /\ a[3] \in Int
  <2>1. a[1] \in Int /\ a[3] \in Int
    BY ArcsAreKnown DEF IsArcs
  <2> QED
    BY <2>1, LenProperties DEF Path, Explains
<1>2. q.nodes = Append(p.nodes, a[3]) /\ q.edges = Append(p.edges, a[1]) /\ ~q.direct
  BY DEF Longer
<1> HIDE DEF q, k
<1>3. /\ q.nodes \in Seq(Int) /\ Len(q.nodes) = k + 2 /\ q.nodes[k + 2] = a[3]
      /\ \A i \in 1 .. k + 1 : q.nodes[i] = p.nodes[i]
  BY <1>0, <1>1, <1>2, AppendProperties
<1>4. /\ q.edges \in Seq(Int) /\ Len(q.edges) = k + 1 /\ q.edges[k + 1] = a[1] /\ DOMAIN q.edges = 1 .. k + 1
      /\ \A i \in 1 .. k : q.edges[i] = p.edges[i]
  BY <1>0, <1>1, <1>2, AppendProperties, LenProperties
<1>5. Head(q.nodes) \in Direct(c) \cup TouchedEnds(c)
  <2>1. Head(q.nodes) = q.nodes[1] /\ Head(p.nodes) = p.nodes[1] /\ 1 \in 1 .. k + 1
    BY <1>1
  <2> QED
    BY <1>3, <2>1 DEF Explains
<1>6. Last(p.nodes) = p.nodes[k + 1] /\ Last(q.nodes) = a[3]
  BY <1>1, <1>3 DEF Last
<1>7. ASSUME NEW i \in 1 .. k + 1 PROVE GoesBy(c, i, q.edges[i], q.nodes[i], q.nodes[i + 1])
  <2>1. CASE i \in 1 .. k
    <3>1. i + 1 \in 1 .. k + 1 /\ i \in 1 .. k + 1
      BY <1>1, <2>1
    <3>2. q.edges[i] = p.edges[i] /\ q.nodes[i] = p.nodes[i] /\ q.nodes[i + 1] = p.nodes[i + 1]
      BY <1>3, <1>4, <2>1, <3>1
    <3> QED
      BY <1>1, <2>1, <3>2 DEF Explains
  <2>2. CASE i = k + 1
    <3>1. q.edges[i] = a[1] /\ q.nodes[i] = a[2] /\ q.nodes[i + 1] = a[3]
      <4>1. i + 1 = k + 2 /\ k + 1 \in 1 .. k + 1
        BY <1>1, <2>2
      <4>2. q.nodes[i] = p.nodes[k + 1] /\ q.edges[i] = a[1]
        BY <1>3, <1>4, <2>2, <4>1
      <4>3. q.nodes[i + 1] = a[3]
        BY <1>3, <4>1
      <4> QED
        BY <1>6, <4>2, <4>3
    <3>2. PICK g \in Sides(c) : \/ a \in ReviewArcs(g)
                                \/ a[1] \in ScopeEdges(g) /\ a[2] = g.edges[a[1]].target /\ a[3] = g.edges[a[1]].source
      BY ArcsAre
    <3>3. a \in ReviewArcs(g) => a = <<a[1], a[2], a[3]>>
      BY ReviewArcsAre
    <3> QED
      BY <3>1, <3>2, <3>3 DEF GoesBy
  <2> QED
    BY <1>1, <2>1, <2>2
<1>8. q.direct <=> Last(q.nodes) \in Direct(c)
  BY <1>2, <1>6
<1>9. Explains(c, q)
  <2>1. Len(q.nodes) = Len(q.edges) + 1
    BY <1>1, <1>3, <1>4
  <2>2. \A i \in DOMAIN q.edges : GoesBy(c, i, q.edges[i], q.nodes[i], q.nodes[i + 1])
    BY <1>4, <1>7
  <2> QED
    BY <1>5, <1>8, <2>1, <2>2 DEF Explains
<1> QED
  BY <1>9 DEF q

LEMMA ExplanationsExplain ==
    ASSUME NEW c, IsChange(c)
    PROVE  \A p \in ToSet(Explanations(c)) : Explains(c, p)
<1> DEFINE G == {p \in Path : Explains(c, p)}
           arcs == Arcs(c) \cup ScopeArcs(c)
<1>1. ToSet(Seeded(c)) \subseteq G
  BY SeededAre, SeedsAre, SeedExplains
<1>2. ASSUME NEW p \in G \cap Path, NEW a \in arcs, a[2] = Last(p.nodes), a[3] \notin Ends(Seeded(c))
      PROVE  Longer(p, a) \in G
  <2>1. a[3] \notin Direct(c)
    BY <1>2, SeededAre, SeedsAre DEF Began
  <2>2. Explains(c, Longer(p, a))
    BY <1>2, <2>1, LongerExplains
  <2>3. Longer(p, a) \in Path
    <3>1. a[1] \in Int /\ a[3] \in Int
      BY ArcsAreKnown DEF IsArcs
    <3>2. p.nodes \in Seq(Int) /\ p.edges \in Seq(Int)
      BY DEF Path
    <3>3. Append(p.nodes, a[3]) \in Seq(Int) /\ Append(p.edges, a[1]) \in Seq(Int)
      BY <3>1, <3>2, AppendProperties
    <3> QED
      BY <3>3 DEF Longer, Path
  <2> QED
    BY <2>2, <2>3
<1> HIDE DEF G, arcs
<1>3. ToSet(Explanations(c)) \subseteq G
  <2>1. Follows(arcs, Seeded(c), Explanations(c))
    BY ExplanationsFollow DEF arcs
  <2> QED
    BY <1>1, <1>2, <2>1 DEF Follows
<1> QED
  BY <1>3 DEF G

-----------------------------------------------------------------------------
(* What a change may shift. *)

\* What a batch leaves alone is the same before and after it.
IsEdited(c) ==
    /\ IsChange(c) /\ c.proposed.purpose = c.base.purpose
    /\ \A n : n \notin Direct(c) => ValueAt(c.base.nodes, n) = ValueAt(c.proposed.nodes, n)
    /\ \A e : e \notin Touched(c) => ValueAt(c.base.edges, e) = ValueAt(c.proposed.edges, e)

\* The nodes that changed, or whose scope did, and all that is below them, before or after.
Shifted(c) == Direct(c) \cup {s[2] : s \in Rescoped(c)}
Within(c) == Shifted(c) \cup UNION {ToSet(Descendants(g, n)) : g \in Sides(c), n \in Shifted(c)}

LEMMA WithinIsAffected ==
    ASSUME NEW c, IsChange(c)
    PROVE  Within(c) \subseteq AffectedNodes(c)
<1> DEFINE A == AffectedNodes(c)
           arcs == Arcs(c) \cup ScopeArcs(c)
<1>1. A = Ends(Explanations(c)) /\ Follows(arcs, Seeded(c), Explanations(c))
  BY ExplanationsFollow DEF AffectedNodes
<1>2. Shifted(c) \subseteq A
  BY <1>1, SeededAre, SeedsAre DEF Follows, Shifted, Began
<1>3. \A a \in arcs : a[2] \in A => a[3] \in A
  BY <1>1 DEF Follows
<1>4. ASSUME NEW g \in Sides(c), NEW e \in ScopeEdges(g), g.edges[e].target \in Within(c)
      PROVE  <<e, g.edges[e].target, g.edges[e].source>> \in arcs
  <2> DEFINE Down(h) == {<<f, h.edges[f].target, h.edges[f].source>> : f \in {x \in ScopeEdges(h) : h.edges[x].target \in Within(c)}}
  <2>1. ScopeArcs(c) = UNION {Down(h) : h \in Sides(c)}
    BY DEF ScopeArcs, Sides, Within, Shifted
  <2>2. <<e, g.edges[e].target, g.edges[e].source>> \in Down(g)
    BY <1>4
  <2> HIDE DEF Down
  <2> QED
    BY <2>1, <2>2
<1> HIDE DEF A, arcs
<1>5. ASSUME NEW g \in Sides(c), NEW e \in ScopeEdges(g), g.edges[e].target \in Within(c) \cap A
      PROVE  g.edges[e].source \in A
  <2> DEFINE a == <<e, g.edges[e].target, g.edges[e].source>>
  <2>1. a \in arcs
    BY <1>4, <1>5
  <2>2. a[2] = g.edges[e].target /\ a[3] = g.edges[e].source
    OBVIOUS
  <2> HIDE DEF a
  <2> QED
    BY <1>3, <1>5, <2>1, <2>2
<1>6. ASSUME NEW g \in Sides(c), NEW n \in Shifted(c) PROVE ToSet(Descendants(g, n)) \subseteq A
  <2> DEFINE D == ToSet(Descendants(g, n))
  <2>1. n \in Int /\ Wired(g)
    <3>1. Shifted(c) \subseteq KnownNodes(c)
      BY SeedsAre DEF Shifted, Began
    <3> QED
      BY <3>1, KnownAre DEF IsChange
  <2>2. /\ ScopeChildren(g, n) \subseteq D /\ ScopeClosed(g, D)
        /\ \A S : ScopeChildren(g, n) \subseteq S /\ ScopeClosed(g, S) => D \subseteq S
    BY <2>1, DescendantsAre
  <2>3. D \subseteq Within(c) /\ n \in Within(c)
    BY DEF Within
  <2> HIDE DEF D
  <2>4. ScopeChildren(g, n) \subseteq A \cap D
    BY <1>2, <1>5, <2>2, <2>3 DEF ScopeChildren
  <2>5. ScopeClosed(g, A \cap D)
    BY <1>5, <2>2, <2>3 DEF ScopeClosed
  <2> QED
    BY <2>2, <2>4, <2>5 DEF D
<1> QED
  BY <1>2, <1>6 DEF Within, A

\* A child, in either graph, of a node in the changed part is in it.
LEMMA WithinIsClosed ==
    ASSUME NEW c, IsChange(c), NEW g \in Sides(c), NEW e \in ScopeEdges(g), g.edges[e].source \notin Within(c),
           \A h \in Sides(c) : e \in ScopeEdges(h) /\ h.edges[e] = g.edges[e]
    PROVE  g.edges[e].target \notin Within(c)
<1> SUFFICES ASSUME g.edges[e].target \in Within(c) PROVE FALSE
  OBVIOUS
<1>1. \A n \in Shifted(c) : n \in Int
  BY SeedsAre, KnownAre DEF Shifted, Began
<1>2. ASSUME NEW n \in Shifted(c), g.edges[e].target = n PROVE FALSE
  <2>1. g.edges[e].source \in ScopeChildren(g, n)
    BY <1>2 DEF ScopeChildren
  <2>2. ScopeChildren(g, n) \subseteq ToSet(Descendants(g, n))
    BY <1>1, DescendantsAre DEF IsChange
  <2> QED
    BY <2>1, <2>2 DEF Within
<1>3. ASSUME NEW h \in Sides(c), NEW n \in Shifted(c), g.edges[e].target \in ToSet(Descendants(h, n)) PROVE FALSE
  <2>1. ScopeClosed(h, ToSet(Descendants(h, n)))
    BY <1>1, DescendantsAre DEF IsChange
  <2>2. g.edges[e].source \in ToSet(Descendants(h, n))
    BY <1>3, <2>1 DEF ScopeClosed
  <2> QED
    BY <2>2 DEF Within
<1> QED
  BY <1>2, <1>3 DEF Within

\* The scope of a node that did not shift is the same before and after.
LEMMA SameScope ==
    ASSUME NEW c, IsEdited(c), NEW n, n \notin Shifted(c)
    PROVE  /\ ScopeParents(c.base, n) = ScopeParents(c.proposed, n)
           /\ \A e \in ScopeParents(c.base, n) : c.base.edges[e] = c.proposed.edges[e]
<1>1. ASSUME NEW g \in Sides(c), NEW h \in Sides(c), NEW e \in ScopeParents(g, n)
      PROVE  e \in ScopeParents(h, n) /\ h.edges[e] = g.edges[e]
  <2>1. e \in ScopeEdges(g) /\ g.edges[e].source = n /\ e \in EdgesOf(g) /\ g.edges[e].relationship = "scope-parent"
    BY DEF ScopeParents, ScopeEdges
  <2>2. e \notin Touched(c)
    <3> SUFFICES ASSUME e \in Touched(c) PROVE FALSE
      OBVIOUS
    <3> DEFINE s == <<e, g.edges[e].source, g.edges[e].target>>
    <3>1. s \in Rescoped(c)
      BY <2>1, RescopedAre
    <3>2. s[2] = n
      BY <2>1
    <3> HIDE DEF s
    <3> QED
      BY <3>1, <3>2 DEF Shifted
  <2>3. ValueAt(h.edges, e) = ValueAt(g.edges, e)
    BY <2>2 DEF IsEdited, Sides
  <2>4. e \in EdgesOf(h) /\ h.edges[e] = g.edges[e]
    BY <2>1, <2>3 DEF ValueAt, EdgesOf
  <2> QED
    BY <2>1, <2>4 DEF ScopeParents, ScopeEdges
<1> QED
  BY <1>1 DEF Sides

\* Outside the changed part, lineages and their records are the same before and after.
LEMMA SameHistory ==
    ASSUME NEW c, IsEdited(c), IsValid(c.base), IsValid(c.proposed)
    PROVE  \A n \in NodesOf(c.base) \cup NodesOf(c.proposed) :
              n \notin Within(c) => History(c.base, n) = History(c.proposed, n)
<1> DEFINE g == c.base
           h == c.proposed
           Same(n) == /\ Upstream(g, n) = Upstream(h, n)
                      /\ \A m \in ToSet(Upstream(g, n)) : ValueAt(g.nodes, m) = ValueAt(h.nodes, m)
           S == {n \in NodesOf(g) : n \notin Within(c) => Same(n)}
<1>1. Wired(g) /\ Wired(h) /\ h.purpose = g.purpose /\ g \in Sides(c) /\ h \in Sides(c)
  BY DEF IsEdited, IsChange, Sides
<1>2. \A n : n \notin Within(c) => n \notin Shifted(c) /\ ValueAt(g.nodes, n) = ValueAt(h.nodes, n) /\ (n \in NodesOf(g) <=> n \in NodesOf(h))
  <2> SUFFICES ASSUME NEW n, n \notin Within(c)
               PROVE  n \notin Shifted(c) /\ ValueAt(g.nodes, n) = ValueAt(h.nodes, n) /\ (n \in NodesOf(g) <=> n \in NodesOf(h))
    OBVIOUS
  <2>1. n \notin Shifted(c) /\ n \notin Direct(c)
    BY DEF Within, Shifted
  <2> QED
    BY <2>1, ValueIs DEF IsEdited, NodesOf
<1> HIDE DEF g, h
<1>3. ASSUME g.purpose \notin Within(c) PROVE Same(g.purpose)
  <2>1. g.purpose \in NodesOf(g) /\ NodesOf(g) \subseteq Int
    BY <1>1, ValidScope DEF g, Wired
  <2>2. Upstream(g, g.purpose) = <<g.purpose>> /\ Upstream(h, g.purpose) = <<g.purpose>>
    BY <1>1, <2>1, UpstreamIs DEF g, h
  <2>3. ToSet(<<g.purpose>>) = {g.purpose}
    BY SetOf
  <2> QED
    BY <1>2, <1>3, <2>2, <2>3
<1>4. ASSUME NEW n \in NodesOf(g) \ {g.purpose}, Parent(g, n) \in S, n \notin Within(c) PROVE Same(n)
  <2>1. n \in NodesOf(h) \ {h.purpose}
    BY <1>1, <1>2, <1>4
  <2>2. ScopeParents(g, n) = ScopeParents(h, n) /\ \A e \in ScopeParents(g, n) : g.edges[e] = h.edges[e]
    BY <1>2, <1>4, SameScope DEF g, h
  <2>3. PICK e : ScopeParents(g, n) = {e}
    <3>1. Single(g, n) /\ IsFiniteSet(ScopeParents(g, n))
      <4>1. Single(g, n)
        BY <1>1, <1>4, ValidScope DEF g
      <4>2. ScopeParents(g, n) \in SUBSET EdgesOf(g)
        BY DEF ScopeParents, ScopeEdges
      <4> QED
        BY <1>1, <4>1, <4>2, FS_Subset DEF Wired
    <3> QED
      BY <3>1, FS_Singleton DEF Single
  <2>4. /\ Parent(g, n) = g.edges[e].target /\ Parent(h, n) = g.edges[e].target
        /\ e \in ScopeEdges(g) /\ e \in ScopeEdges(h) /\ h.edges[e] = g.edges[e] /\ g.edges[e].source = n
    BY <2>2, <2>3 DEF Parent, ScopeParents
  <2>5. Parent(g, n) \notin Within(c)
    <3>1. \A x \in Sides(c) : e \in ScopeEdges(x) /\ x.edges[e] = g.edges[e]
      BY <2>4 DEF Sides, g, h
    <3> QED
      BY <1>1, <1>4, <2>4, <3>1, WithinIsClosed DEF IsEdited
  <2>6. Same(Parent(g, n)) /\ Parent(g, n) \in NodesOf(g)
    BY <1>4, <2>5
  <2>7. /\ Upstream(g, n) = <<n>> \o Upstream(g, Parent(g, n)) /\ Upstream(h, n) = <<n>> \o Upstream(h, Parent(h, n))
        /\ Upstream(g, Parent(g, n)) \in Seq(Int) /\ n \in Int
    BY <1>1, <1>4, <2>1, <2>6, UpstreamIs DEF g, h, Wired
  <2>8. ToSet(Upstream(g, n)) = {n} \cup ToSet(Upstream(g, Parent(g, n)))
    <3>1. <<n>> \in Seq(Int) /\ ToSet(<<n>>) = {n}
      BY <2>7, SetOf
    <3>2. \A q, r \in Seq(Int) : ToSet(q \o r) = ToSet(q) \cup ToSet(r)
      BY SetOf
    <3> QED
      BY <2>7, <3>1, <3>2
  <2> QED
    BY <1>2, <1>4, <2>4, <2>6, <2>7, <2>8
<1>5. NodesOf(g) \subseteq S
  <2>1. g.purpose \in NodesOf(g)
    BY <1>1, ValidScope DEF g
  <2> HIDE DEF Same
  <2>2. g.purpose \in S /\ \A n \in NodesOf(g) \ {g.purpose} : Parent(g, n) \in S => n \in S
    BY <1>3, <1>4, <2>1
  <2> HIDE DEF S
  <2> QED
    BY <1>1, <2>2, ValidScope DEF g
<1>6. ASSUME NEW n \in NodesOf(g) \cup NodesOf(h), n \notin Within(c) PROVE History(g, n) = History(h, n)
  <2>1. n \in NodesOf(g) /\ Upstream(g, n) \in Seq(Int)
    <3>1. n \in NodesOf(g)
      BY <1>2, <1>6
    <3> QED
      BY <1>1, <3>1, UpstreamIs DEF g
  <2>2. Same(n)
    <3> HIDE DEF Same
    <3> QED
      BY <1>5, <1>6, <2>1
  <2>3. \A i \in DOMAIN Upstream(g, n) : ValueAt(g.nodes, Upstream(g, n)[i]) = ValueAt(h.nodes, Upstream(g, n)[i])
    BY <2>2 DEF ToSet
  <2> QED
    BY <2>2, <2>3 DEF History
<1> QED
  BY <1>6 DEF g, h

-----------------------------------------------------------------------------
(* The two traversals. *)

\* In a valid graph the nodes above a node are those it is below.
LEMMA TraversalsAgree ==
    ASSUME NEW g, Wired(g), IsValid(g)
    PROVE  \A n \in NodesOf(g) : \A m \in NodesOf(g) \ {n} :
              m \in ToSet(Upstream(g, n)) <=> n \in ToSet(Descendants(g, m))
<1> DEFINE Up(n) == ToSet(Upstream(g, n))
           Down(m) == ToSet(Descendants(g, m))
           Agreed(n) == \A m \in NodesOf(g) \ {n} : m \in Up(n) <=> n \in Down(m)
           S == {n \in NodesOf(g) : Agreed(n)}
<1>1. /\ g.purpose \in NodesOf(g) /\ NodesOf(g) \subseteq Int
      /\ \A e \in ScopeEdges(g) : g.edges[e].source \in NodesOf(g) \ {g.purpose} /\ g.edges[e].target = Parent(g, g.edges[e].source)
      /\ \A n \in NodesOf(g) \ {g.purpose} : Single(g, n) /\ Parent(g, n) \in NodesOf(g)
  BY ValidScope DEF Wired
<1>2. ASSUME NEW n \in NodesOf(g) \ {g.purpose}
      PROVE  \E e \in ScopeEdges(g) : g.edges[e].source = n /\ g.edges[e].target = Parent(g, n)
  BY <1>1, UpStepIs
<1>3. ASSUME NEW m \in NodesOf(g)
      PROVE  \A n : n \in Down(m) <=> n \in NodesOf(g) \ {g.purpose} /\ Parent(g, n) \in Down(m) \cup {m}
  <2> DEFINE T == {n \in NodesOf(g) \ {g.purpose} : Parent(g, n) \in Down(m) \cup {m}}
  <2>1. /\ ScopeChildren(g, m) \subseteq Down(m) /\ ScopeClosed(g, Down(m))
        /\ \A X : ScopeChildren(g, m) \subseteq X /\ ScopeClosed(g, X) => Down(m) \subseteq X
    BY <1>1, DescendantsAre
  <2> HIDE DEF Down
  <2>2. ScopeChildren(g, m) \subseteq T
    BY <1>1 DEF ScopeChildren
  <2>3. T \subseteq Down(m)
    <3> SUFFICES ASSUME NEW n \in T PROVE n \in Down(m)
      OBVIOUS
    <3>1. PICK e \in ScopeEdges(g) : g.edges[e].source = n /\ g.edges[e].target = Parent(g, n)
      BY <1>2
    <3>2. CASE Parent(g, n) = m
      BY <2>1, <3>1, <3>2 DEF ScopeChildren
    <3>3. CASE Parent(g, n) \in Down(m)
      BY <2>1, <3>1, <3>3 DEF ScopeClosed
    <3> QED
      BY <3>2, <3>3
  <2>4. ScopeClosed(g, T)
    <3> SUFFICES ASSUME NEW e \in ScopeEdges(g), g.edges[e].target \in T PROVE g.edges[e].source \in T
      BY DEF ScopeClosed
    <3> QED
      BY <1>1, <2>3
  <2>5. Down(m) = T
    BY <2>1, <2>2, <2>3, <2>4
  <2> QED
    BY <2>5
<1>4. Up(g.purpose) = {g.purpose}
  <2>1. Upstream(g, g.purpose) = <<g.purpose>>
    BY <1>1, UpstreamIs
  <2> QED
    BY <2>1, SetOf
<1>5. ASSUME NEW n \in NodesOf(g) \ {g.purpose} PROVE Up(n) = {n} \cup Up(Parent(g, n)) /\ Parent(g, n) \in Up(Parent(g, n))
  <2> DEFINE t == Parent(g, n)
  <2>1. t \in NodesOf(g) /\ t \in Int /\ n \in Int
    BY <1>1
  <2>2. /\ Upstream(g, n) = <<n>> \o Upstream(g, t) /\ Upstream(g, t) \in Seq(Int)
        /\ \/ Upstream(g, t) = <<t>>
           \/ Upstream(g, t) = <<t>> \o Upstream(g, Parent(g, t)) /\ Upstream(g, Parent(g, t)) \in Seq(Int)
    BY <1>1, <2>1, UpstreamIs
  <2> HIDE DEF t
  <2>3. /\ <<n>> \in Seq(Int) /\ ToSet(<<n>>) = {n} /\ <<t>> \in Seq(Int) /\ ToSet(<<t>>) = {t}
        /\ \A q, r \in Seq(Int) : ToSet(q \o r) = ToSet(q) \cup ToSet(r)
    BY <2>1, SetOf
  <2>4. Up(n) = {n} \cup Up(t) /\ t \in Up(t)
    BY <2>2, <2>3
  <2> QED
    BY <2>4 DEF t
<1> HIDE DEF Up, Down
<1>6. g.purpose \in S
  BY <1>1, <1>3, <1>4
<1>7. ASSUME NEW n \in NodesOf(g) \ {g.purpose}, Parent(g, n) \in S PROVE n \in S
  BY <1>1, <1>3, <1>5, <1>7
<1>8. NodesOf(g) \subseteq S
  <2> HIDE DEF S
  <2> QED
    BY <1>6, <1>7, ValidScope
<1> QED
  BY <1>8 DEF Up, Down

-----------------------------------------------------------------------------
(* Packets and their scopes. *)

\* The nodes on the lineage of a node, below the purpose, have its top-level scope.
LEMMA BranchesFollow ==
    ASSUME NEW g, Wired(g), IsValid(g)
    PROVE  \A n \in NodesOf(g) : \A m \in ToSet(Upstream(g, n)) \ {g.purpose} : m \in NodesOf(g) /\ Branch(g, m) = Branch(g, n)
<1> DEFINE Up(n) == Upstream(g, n)
           Below(n) == /\ Len(Up(n)) \in Nat \ {0, 1} /\ n # g.purpose
                       /\ \A m \in ToSet(Up(n)) \ {g.purpose} : m \in NodesOf(g) /\ Branch(g, m) = Branch(g, n)
           S == {n \in NodesOf(g) : n = g.purpose \/ Below(n)}
<1>1. /\ g.purpose \in NodesOf(g) /\ NodesOf(g) \subseteq Int
      /\ \A n \in NodesOf(g) \ {g.purpose} : Parent(g, n) \in NodesOf(g)
  BY ValidScope DEF Wired
<1>2. /\ Up(g.purpose) = <<g.purpose>>
      /\ \A n \in NodesOf(g) : Up(n) \in Seq(Int)
      /\ \A n \in NodesOf(g) \ {g.purpose} : Up(n) = <<n>> \o Up(Parent(g, n))
  BY <1>1, UpstreamIs
<1>3. ToSet(Up(g.purpose)) = {g.purpose}
  BY <1>2, SetOf
<1>4. \A n : Branch(g, n) = IF Len(Up(n)) > 1 THEN <<Up(n)[Len(Up(n)) - 1]>> ELSE <<>>
  BY DEF Branch
<1> HIDE DEF Up
<1>5. ASSUME NEW n \in NodesOf(g) \ {g.purpose}, Parent(g, n) \in S PROVE Below(n)
  <2> DEFINE t == Parent(g, n)
             u == Up(t)
  <2>1. /\ t \in NodesOf(g) /\ n \in Int /\ u \in Seq(Int) /\ Len(u) \in Nat /\ Up(n) = <<n>> \o u
        /\ <<n>> \in Seq(Int) /\ Len(<<n>>) = 1 /\ <<n>>[1] = n /\ ToSet(<<n>>) = {n}
    <3>1. t \in NodesOf(g) /\ n \in Int
      BY <1>1
    <3>2. u \in Seq(Int) /\ Up(n) = <<n>> \o u
      BY <1>2, <3>1
    <3> HIDE DEF t, u
    <3> QED
      BY <3>1, <3>2, LenProperties, SetOf
  <2> HIDE DEF t
  <2>2. /\ Up(n) \in Seq(Int) /\ Len(Up(n)) = 1 + Len(u) /\ ToSet(Up(n)) = {n} \cup ToSet(u)
        /\ Up(n)[1] = n /\ \A i \in 1 .. Len(u) : Up(n)[1 + i] = u[i]
    <3> HIDE DEF u
    <3>1. ToSet(<<n>> \o u) = ToSet(<<n>>) \cup ToSet(u)
      <4>1. \A q, r \in Seq(Int) : ToSet(q \o r) = ToSet(q) \cup ToSet(r)
        BY SetOf
      <4> QED
        BY <2>1, <4>1
    <3>2. Len(<<n>> \o u) = 1 + Len(u) /\ \A i \in 1 .. 1 + Len(u) : (<<n>> \o u)[i] = IF i <= 1 THEN <<n>>[i] ELSE u[i - 1]
      BY <2>1, ConcatProperties
    <3>3. Up(n)[1] = n
      <4>1. 1 \in 1 .. 1 + Len(u)
        BY <2>1
      <4> QED
        BY <2>1, <3>2, <4>1
    <3>4. ASSUME NEW i \in 1 .. Len(u) PROVE Up(n)[1 + i] = u[i]
      <4>1. 1 + i \in 1 .. 1 + Len(u) /\ ~(1 + i <= 1) /\ (1 + i) - 1 = i
        BY <2>1
      <4> QED
        BY <2>1, <3>2, <4>1
    <3> QED
      BY <1>2, <2>1, <3>1, <3>2, <3>3, <3>4
  <2>3. CASE t = g.purpose
    <3>1. u = <<g.purpose>> /\ Len(u) = 1 /\ ToSet(u) = {g.purpose}
      BY <1>2, <1>3, <2>3
    <3> HIDE DEF u
    <3>2. Len(Up(n)) = 2 /\ \A m \in ToSet(Up(n)) \ {g.purpose} : m = n
      BY <2>2, <3>1
    <3> QED
      BY <3>2
  <2>4. CASE t # g.purpose
    <3>1. Below(t)
      BY <1>5, <2>4 DEF t
    <3> HIDE DEF u
    <3>2. Len(u) > 1 /\ \A m \in ToSet(u) \ {g.purpose} : m \in NodesOf(g) /\ Branch(g, m) = Branch(g, t)
      BY <3>1 DEF u
    <3>3. Branch(g, n) = Branch(g, t)
      <4>1. Branch(g, t) = <<u[Len(u) - 1]>>
        BY <1>4, <3>2 DEF u
      <4>2. Len(Up(n)) > 1 /\ Len(Up(n)) - 1 = 1 + (Len(u) - 1) /\ Len(u) - 1 \in 1 .. Len(u)
        BY <2>1, <2>2, <3>2
      <4>3. Up(n)[Len(Up(n)) - 1] = u[Len(u) - 1]
        BY <2>2, <4>2
      <4> QED
        BY <1>4, <4>1, <4>2, <4>3
    <3>4. ASSUME NEW m \in ToSet(Up(n)) \ {g.purpose} PROVE m \in NodesOf(g) /\ Branch(g, m) = Branch(g, n)
      BY <2>2, <3>2, <3>3, <3>4
    <3>5. Len(Up(n)) \in Nat \ {0, 1}
      BY <2>1, <2>2, <3>2
    <3> QED
      BY <3>4, <3>5
  <2> QED
    BY <2>3, <2>4
<1>6. NodesOf(g) \subseteq S
  <2> HIDE DEF Below
  <2>1. g.purpose \in S /\ \A n \in NodesOf(g) \ {g.purpose} : Parent(g, n) \in S => n \in S
    BY <1>1, <1>5
  <2> HIDE DEF S
  <2> QED
    BY <2>1, ValidScope
<1> QED
  BY <1>3, <1>6 DEF Up

\* The owner of a node, and of an edge, that the proposed graph has.
LEMMA OwnerIs ==
    ASSUME NEW c, NEW item
    PROVE  /\ item.entity = "nodes" /\ item.id \in NodesOf(c.proposed) => Owner(c, item) = Branch(c.proposed, item.id)
           /\ item.entity = "edges" /\ item.id \in EdgesOf(c.proposed)
                 /\ c.proposed.edges[item.id].source \in NodesOf(c.proposed)
                 => Owner(c, item) = Branch(c.proposed, c.proposed.edges[item.id].source)
<1> DEFINE edge  == IF item.id \in EdgesOf(c.proposed) THEN ValueAt(c.proposed.edges, item.id) ELSE ValueAt(c.base.edges, item.id)
           nodes == IF item.entity = "nodes" THEN {item.id} ELSE IF item.entity = "edges" THEN {e.source : e \in edge} ELSE {}
           Graph(n) == IF n \in NodesOf(c.proposed) THEN c.proposed ELSE c.base
           owners == {Branch(Graph(n), n) : n \in {m \in nodes : m \in NodesOf(Graph(m))}}
<1>1. Owner(c, item) = IF owners = {} THEN Synthesis ELSE CHOOSE o \in owners : TRUE
  BY DEF Owner
<1>2. ASSUME NEW n \in NodesOf(c.proposed), nodes = {n} PROVE Owner(c, item) = Branch(c.proposed, n)
  <2>1. owners = {Branch(c.proposed, n)}
    <3> HIDE DEF nodes
    <3> QED
      BY <1>2
  <2> HIDE DEF owners
  <2> QED
    BY <1>1, <2>1
<1>3. ASSUME item.entity = "nodes", item.id \in NodesOf(c.proposed) PROVE Owner(c, item) = Branch(c.proposed, item.id)
  BY <1>2, <1>3
<1>4. ASSUME item.entity = "edges", item.id \in EdgesOf(c.proposed), c.proposed.edges[item.id].source \in NodesOf(c.proposed)
      PROVE  Owner(c, item) = Branch(c.proposed, c.proposed.edges[item.id].source)
  <2>1. edge = {c.proposed.edges[item.id]}
    BY <1>4, ValueIs DEF EdgesOf
  <2>2. nodes = {c.proposed.edges[item.id].source}
    <3> HIDE DEF edge
    <3> QED
      BY <1>4, <2>1
  <2> HIDE DEF nodes
  <2> QED
    BY <1>2, <1>4, <2>2
<1> QED
  BY <1>3, <1>4

\* Each ordinal is of one packet, whatever the change and the items.
LEMMA PacketsDivide ==
    ASSUME NEW c, NEW items, NEW i \in DOMAIN items
    PROVE  Cardinality({s \in DOMAIN Partition(c, items) : i \in Partition(c, items)[s]}) = 1
<1>1. {s \in DOMAIN Partition(c, items) : i \in Partition(c, items)[s]} = {Owner(c, items[i])}
  BY DEF Partition
<1> QED
  BY <1>1, FS_Singleton

-----------------------------------------------------------------------------
(* The change of GraphChanges. *)

Ended(g) == \A e \in EdgesOf(g) : g.edges[e].source \in Int /\ g.edges[e].target \in Int

LEMMA WiredIs == ASSUME NEW g, IsProject(g), Ended(g) PROVE Wired(g)
BY DEF IsProject, Ended, Wired

LEMMA ValidIsEnded == ASSUME NEW g, IsProject(g), IsValid(g) PROVE Ended(g)
BY ValidIs DEF IsProject, Ended

LEMMA ResultIsEnded ==
    ASSUME NEW g, Ended(g), NEW ops, Apart(ops),
           \A op \in ops : /\ IsOperation(op)
                           /\ op.entity = "edges" /\ op.kind # "remove" => {op.value.source, op.value.target} \subseteq Int
    PROVE  Ended(ResultOf(g, ops))
<1> DEFINE h == ResultOf(g, ops)
<1>1. ASSUME NEW e \in EdgesOf(h) PROVE h.edges[e].source \in Int /\ h.edges[e].target \in Int
  <2>1. ValueAt(h.edges, e) = {h.edges[e]}
    BY <1>1, ValueIs DEF EdgesOf
  <2>2. h["edges"] = h.edges /\ g["edges"] = g.edges /\ "edges" \in Entities
    BY DEF Entities
  <2>3. /\ \A op \in ops : op.entity = "edges" /\ op.id = e => ValueAt(h.edges, e) = Gives(op)
        /\ (\A op \in ops : ~(op.entity = "edges" /\ op.id = e)) => ValueAt(h.edges, e) = ValueAt(g.edges, e)
    BY <2>2, ResultAt
  <2> HIDE DEF h
  <2>4. CASE \E op \in ops : op.entity = "edges" /\ op.id = e
    <3>1. PICK op \in ops : op.entity = "edges" /\ op.id = e
      BY <2>4
    <3>2. {h.edges[e]} = Gives(op)
      BY <2>1, <2>3, <3>1
    <3>3. op.kind # "remove" /\ h.edges[e] = op.value
      BY <3>2 DEF Gives
    <3> QED
      BY <3>1, <3>3
  <2>5. CASE \A op \in ops : ~(op.entity = "edges" /\ op.id = e)
    <3>1. {h.edges[e]} = ValueAt(g.edges, e)
      BY <2>1, <2>3, <2>5
    <3>2. e \in EdgesOf(g) /\ h.edges[e] = g.edges[e]
      BY <3>1 DEF ValueAt, EdgesOf
    <3> QED
      BY <3>2 DEF Ended
  <2> QED
    BY <2>4, <2>5
<1> QED
  BY <1>1 DEF Ended

\* With it, the base stays valid, and every edge has ends, if only by their IDs.
CInv == GInv /\ IsValid(base) /\ Ended(proposed)

LEMMA Edited == Spec => []CInv
<1>1. Init => CInv
  BY GInit, ValidIsEnded, BaseAssumption DEF Init, CInv, GInv
<1>2. ASSUME CInv, NEW op \in Edit, Patch(op), GInv' PROVE CInv'
  <2>1. PICK patched \in ProjectGraph(proposed, <<op>>) :
          proposed' \in ProjectGraph(base, OperationsBetween(base, patched)) /\ base' = base
    BY <1>2 DEF Patch
  <2>2. /\ IsManifest(<<op>>) /\ ToSet(<<op>>) = {op} /\ IsOperation(op)
        /\ op.entity = "edges" /\ op.kind # "remove" => {op.value.source, op.value.target} \subseteq Int
    BY EditAssumption, OneOperation, SetOf
  <2>3. IsProject(proposed) /\ IsProject(base) /\ proposed.purpose = base.purpose
    BY <1>2 DEF CInv, GInv, LedTo
  <2>4. LedTo(proposed, <<op>>, patched)
    BY <2>1, <2>2, <2>3, ProjectedIs
  <2>5. patched = ResultOf(proposed, {op}) /\ Apart({op}) /\ IsProject(patched) /\ patched.purpose = base.purpose
    BY <2>2, <2>3, <2>4 DEF LedTo, Apart
  <2>6. Ended(patched)
    BY <1>2, <2>2, <2>5, ResultIsEnded DEF CInv
  <2>7. proposed' = patched
    <3>1. ProjectGraph(base, OperationsBetween(base, patched)) \subseteq {patched}
      BY <2>3, <2>5, DifferenceIsExact
    <3> QED
      BY <2>1, <3>1
  <2> QED
    BY <1>2, <2>1, <2>6, <2>7 DEF CInv
<1>3. ASSUME CInv, NEW op \in TheirEdit, PatchTheirs(op), GInv' PROVE CInv'
  BY <1>3 DEF CInv, PatchTheirs
<1>4. CInv /\ GInv' /\ [Next]_vars => CInv'
  <2> SUFFICES ASSUME CInv, GInv', [Next]_vars PROVE CInv'
    OBVIOUS
  <2>1. ASSUME UNCHANGED vars PROVE CInv'
    BY <2>1 DEF vars, CInv
  <2> QED
    BY <1>2, <1>3, <2>1 DEF Next
<1> QED
  BY <1>1, <1>4, Reached, PTL DEF Spec

LEMMA ChangeIsEdited == CInv => IsEdited(Change)
<1> SUFFICES ASSUME CInv PROVE IsEdited(Change)
  OBVIOUS
<1> DEFINE c == Change
<1>1. c.base = base /\ c.ops = mine /\ c.proposed = proposed
  BY DEF Change
<1> HIDE DEF c
<1>2. IsProject(base) /\ IsProject(proposed) /\ Ended(base) /\ Ended(proposed) /\ proposed.purpose = base.purpose
  BY ValidIsEnded DEF CInv, GInv, LedTo
<1>3. /\ Apart(ToSet(mine)) /\ IsFiniteSet(ToSet(mine)) /\ \A op \in ToSet(mine) : IsOperation(op)
      /\ proposed = ResultOf(base, ToSet(mine))
  BY ApartIs DEF CInv, GInv, LedTo
<1>4. \A e : Ops(c, e) = {op \in ToSet(mine) : op.entity = e}
  BY <1>1 DEF Ops, ToSet
<1>5. Direct(c) \subseteq Int /\ IsFiniteSet(Direct(c))
  <2>1. Ops(c, "nodes") \in SUBSET ToSet(mine)
    BY <1>4
  <2>2. IsFiniteSet(Ops(c, "nodes"))
    BY <1>3, <2>1, FS_Subset
  <2> DEFINE id == [op \in Ops(c, "nodes") |-> op.id]
             ids == {id[op] : op \in Ops(c, "nodes")}
  <2>3. id \in Surjection(Ops(c, "nodes"), ids)
    BY DEF Surjection
  <2>4. Direct(c) = ids
    BY DEF Direct
  <2> HIDE DEF id, ids
  <2>5. IsFiniteSet(ids)
    BY <2>2, <2>3, FS_Surjection
  <2> QED
    BY <1>3, <2>1, <2>4, <2>5 DEF Direct, IsOperation
<1>6. IsChange(c)
  <2>1. \A g \in {base, proposed} : Wired(g) /\ EdgesOf(g) \subseteq Int /\ IsFiniteSet(EdgesOf(g))
    BY <1>2, WiredIs DEF IsProject
  <2> QED
    BY <1>1, <1>5, <2>1 DEF IsChange, Sides
<1>7. \A e \in Entities : base[e] = (IF e = "nodes" THEN base.nodes ELSE base.edges)
                          /\ proposed[e] = (IF e = "nodes" THEN proposed.nodes ELSE proposed.edges)
  BY DEF Entities
<1>8. ASSUME NEW e \in Entities, NEW k, \A op \in Ops(c, e) : op.id # k
      PROVE  ValueAt(proposed[e], k) = ValueAt(base[e], k)
  <2>1. \A op \in ToSet(mine) : ~(op.entity = e /\ op.id = k)
    BY <1>4, <1>8
  <2> QED
    BY <1>3, <2>1, ResultAt
<1>9. ASSUME NEW n, n \notin Direct(c) PROVE ValueAt(base.nodes, n) = ValueAt(proposed.nodes, n)
  <2>1. \A op \in Ops(c, "nodes") : op.id # n
    BY <1>9 DEF Direct
  <2> QED
    BY <1>7, <1>8, <2>1 DEF Entities
<1>10. ASSUME NEW e, e \notin Touched(c) PROVE ValueAt(base.edges, e) = ValueAt(proposed.edges, e)
  <2>1. \A op \in Ops(c, "edges") : op.id # e
    BY <1>10 DEF Touched
  <2> QED
    BY <1>7, <1>8, <2>1 DEF Entities
<1>11. IsEdited(c)
  BY <1>1, <1>2, <1>6, <1>9, <1>10 DEF IsEdited
<1> QED
  BY <1>11 DEF c

-----------------------------------------------------------------------------
(* The theorems. *)

\* validate_graph, for any base and any patches: the graph of a change is accepted exactly when
\* its scope edges are a tree below the purpose and no edge dangles.
THEOREM AcceptanceIsAlwaysExact == Spec => []ValidIsScopeTree
<1>1. GInv => ValidIsScopeTree
  BY ValidityIsATree DEF GInv, LedTo, IsProject, ValidIsScopeTree
<1> QED
  BY <1>1, Reached, PTL

\* GraphIndex.descendants and upstream, for any graph a change leads to: the first is complete
\* whatever cycles there are, and they are inverses in a valid graph.
THEOREM TraversalsAlwaysAgree == Spec => []ClosuresAgree
<1>1. CInv => ClosuresAgree
  <2> SUFFICES ASSUME CInv, NEW n \in NodesOf(proposed)
               PROVE  LET down == ToSet(Descendants(proposed, n))
                          Below(S) == ScopeChildren(proposed, n) \subseteq S /\ ScopeClosed(proposed, S)
                      IN  /\ Below(down) /\ \A S \in SUBSET down : Below(S) => S = down
                          /\ IsValid(proposed) => \A m \in NodesOf(proposed) \ {n} :
                                m \in ToSet(Upstream(proposed, n)) <=> n \in ToSet(Descendants(proposed, m))
    BY DEF ClosuresAgree
  <2>1. Wired(proposed) /\ n \in Int
    <3>1. IsProject(proposed) /\ Ended(proposed)
      BY DEF CInv, GInv, LedTo
    <3> QED
      BY <3>1, WiredIs DEF IsProject
  <2>2. IsValid(proposed) => \A m \in NodesOf(proposed) \ {n} :
           m \in ToSet(Upstream(proposed, n)) <=> n \in ToSet(Descendants(proposed, m))
    BY <2>1, TraversalsAgree
  <2> DEFINE D == ToSet(Descendants(proposed, n))
  <2>3. /\ ScopeChildren(proposed, n) \subseteq D /\ ScopeClosed(proposed, D)
        /\ \A S : ScopeChildren(proposed, n) \subseteq S /\ ScopeClosed(proposed, S) => D \subseteq S
    BY <2>1, DescendantsAre
  <2>4. ASSUME NEW S \in SUBSET D, ScopeChildren(proposed, n) \subseteq S, ScopeClosed(proposed, S) PROVE S = D
    <3> HIDE DEF D
    <3> QED
      BY <2>3, <2>4
  <2> QED
    BY <2>2, <2>3, <2>4
<1> QED
  BY <1>1, Edited, PTL

\* Session._analyze, for any base and any patches: what changed, what has another lineage, and
\* what either depends on, is affected.
THEOREM ImpactAlwaysCovers == Spec => []ImpactCovers
<1>1. CInv => ImpactCovers
  <2> SUFFICES ASSUME CInv, IsValid(proposed)
               PROVE  /\ \A n \in NodesOf(base) \cup NodesOf(proposed) :
                            History(base, n) # History(proposed, n) => n \in AffectedNodes(Change)
                      /\ \A arc \in Arcs(Change) : arc[2] \in AffectedNodes(Change) => arc[3] \in AffectedNodes(Change)
    BY DEF ImpactCovers
  <2> DEFINE c == Change
  <2>1. c.base = base /\ c.proposed = proposed
    BY DEF Change
  <2>2. IsEdited(c) /\ IsChange(c)
    BY ChangeIsEdited DEF IsEdited
  <2> HIDE DEF c
  <2>3. IsValid(c.base) /\ IsValid(c.proposed)
    BY <2>1 DEF CInv
  <2>4. \A n \in NodesOf(base) \cup NodesOf(proposed) : n \notin Within(c) => History(base, n) = History(proposed, n)
    BY <2>1, <2>2, <2>3, SameHistory
  <2>5. Within(c) \subseteq AffectedNodes(c)
    BY <2>2, WithinIsAffected
  <2>6. \A a \in Arcs(c) : a[2] \in AffectedNodes(c) => a[3] \in AffectedNodes(c)
    BY <2>2, ExplanationsFollow DEF Follows, AffectedNodes
  <2> QED
    BY <2>4, <2>5, <2>6 DEF c
<1> QED
  BY <1>1, Edited, PTL

\* Session._analyze, for any base and any patches: every explanation is a path a reader can
\* follow from what was changed.
THEOREM ExplanationsAlwaysHold == Spec => []ExplanationsHold
<1>1. CInv => ExplanationsHold
  <2> SUFFICES ASSUME CInv PROVE ExplanationsHold
    OBVIOUS
  <2> DEFINE c == Change
  <2>1. c.base = base /\ c.proposed = proposed /\ Sides(c) = {base, proposed}
    BY DEF Change, Sides
  <2>2. \A p \in ToSet(Explanations(c)) : Explains(c, p)
    BY ChangeIsEdited, ExplanationsExplain DEF IsEdited
  <2> HIDE DEF c
  <2>3. \A p \in ToSet(Explanations(c)) :
          LET ends == UNION {UNION {{g.edges[e].source, g.edges[e].target} : e \in Touched(c) \cap EdgesOf(g)} : g \in {base, proposed}}
              Step(g, i) ==
                LET e == p.edges[i]
                    m == p.nodes[i]
                    n == p.nodes[i + 1]
                IN  \/ <<e, m, n>> \in ReviewArcs(g)
                    \/ e \in ScopeEdges(g) /\ g.edges[e].target = m /\ g.edges[e].source = n
                    \/ i = 1 /\ e \in Touched(c) \cap ScopeEdges(g) /\ g.edges[e].source = m /\ g.edges[e].target = n
          IN  /\ Head(p.nodes) \in Direct(c) \cup ends
              /\ Len(p.nodes) = Len(p.edges) + 1
              /\ \A i \in DOMAIN p.edges : \E g \in {base, proposed} : Step(g, i)
              /\ p.direct <=> Last(p.nodes) \in Direct(c)
    <3> SUFFICES ASSUME NEW p \in ToSet(Explanations(c))
                 PROVE  /\ Head(p.nodes) \in Direct(c) \cup TouchedEnds(c)
                        /\ Len(p.nodes) = Len(p.edges) + 1
                        /\ \A i \in DOMAIN p.edges : \E g \in {base, proposed} :
                              \/ <<p.edges[i], p.nodes[i], p.nodes[i + 1]>> \in ReviewArcs(g)
                              \/ p.edges[i] \in ScopeEdges(g) /\ g.edges[p.edges[i]].target = p.nodes[i] /\ g.edges[p.edges[i]].source = p.nodes[i + 1]
                              \/ /\ i = 1 /\ p.edges[i] \in Touched(c) \cap ScopeEdges(g)
                                 /\ g.edges[p.edges[i]].source = p.nodes[i] /\ g.edges[p.edges[i]].target = p.nodes[i + 1]
                        /\ p.direct <=> Last(p.nodes) \in Direct(c)
      BY <2>1 DEF TouchedEnds
    <3> QED
      BY <2>1, <2>2 DEF Explains, GoesBy
  <2> QED
    BY <2>3 DEF ExplanationsHold, Touched, c
<1> QED
  BY <1>1, Edited, PTL

\* partition, for any base and any patches: the packets divide the review without loss, along
\* the top-level scopes of the proposed graph.
THEOREM PacketsAlwaysFollowScope == Spec => []PacketsFollowScope
<1>1. CInv => PacketsFollowScope
  <2> SUFFICES ASSUME CInv, IsValid(proposed), NEW items
               PROVE  LET Kept(entity) == {i \in DOMAIN items : items[i].entity = entity /\ items[i].id \in DOMAIN proposed[entity]}
                          Together(i, j) == Owner(Change, items[i]) = Owner(Change, items[j])
                          packets == Partition(Change, items)
                      IN  /\ \A i \in DOMAIN items : Cardinality({s \in DOMAIN packets : i \in packets[s]}) = 1
                          /\ \A i, j \in Kept("nodes") :
                                items[j].id \in ToSet(Upstream(proposed, items[i].id)) \ {proposed.purpose} => Together(i, j)
                          /\ \A i \in Kept("edges"), j \in Kept("nodes") :
                                items[j].id = proposed.edges[items[i].id].source => Together(i, j)
    BY DEF PacketsFollowScope
  <2>1. Wired(proposed) /\ DOMAIN proposed["nodes"] = NodesOf(proposed) /\ DOMAIN proposed["edges"] = EdgesOf(proposed)
    BY WiredIs DEF CInv, GInv, LedTo, NodesOf, EdgesOf
  <2> DEFINE c == Change
  <2>2. c.proposed = proposed
    BY DEF Change
  <2> HIDE DEF c
  <2>3. \A i \in DOMAIN items : Cardinality({s \in DOMAIN Partition(c, items) : i \in Partition(c, items)[s]}) = 1
    BY PacketsDivide
  <2>4. ASSUME NEW i \in DOMAIN items, items[i].entity = "nodes", items[i].id \in NodesOf(proposed)
        PROVE  Owner(c, items[i]) = Branch(proposed, items[i].id)
    BY <2>2, <2>4, OwnerIs
  <2>5. ASSUME NEW i \in DOMAIN items, items[i].entity = "edges", items[i].id \in EdgesOf(proposed),
               proposed.edges[items[i].id].source \in NodesOf(proposed)
        PROVE  Owner(c, items[i]) = Branch(proposed, proposed.edges[items[i].id].source)
    BY <2>2, <2>5, OwnerIs
  <2>6. \A n \in NodesOf(proposed) : \A m \in ToSet(Upstream(proposed, n)) \ {proposed.purpose} : Branch(proposed, m) = Branch(proposed, n)
    BY <2>1, BranchesFollow
  <2> QED
    BY <2>1, <2>3, <2>4, <2>5, <2>6 DEF c
<1> QED
  BY <1>1, Edited, PTL
=============================================================================
