-------------------------- MODULE ReviewGraphProofs --------------------------
(***************************************************************************)
(* What sorting, a batch and its projection are, for every graph and every *)
(* batch.                                                                  *)
(***************************************************************************)
EXTENDS ReviewGraph, FiniteSetTheorems, SequenceTheorems, WellFoundedInduction, TLAPS

\* The set form of induction over the natural numbers.
LEMMA Least ==
    ASSUME NEW T, T \subseteq Nat, T # {}
    PROVE  \E x \in T : \A y \in T : x <= y
<1> DEFINE Less == {ss \in Nat \X Nat : ss[1] < ss[2]}
<1>1. IsWellFoundedOn(Less, Nat)
  BY NatLessThanWellFounded DEF OpToRel
<1> HIDE DEF Less
<1>2. PICK x \in T : \A y \in T : <<y, x>> \notin Less
  BY <1>1, WFMin
<1>3. \A y \in T : ~(y < x)
  <2> SUFFICES ASSUME NEW y \in T, y < x PROVE <<y, x>> \in Less
    BY <1>2
  <2> QED
    BY DEF Less
<1> QED
  BY <1>3

LEMMA Induction ==
    ASSUME NEW T, 0 \in T, \A n \in Nat : n \in T => n + 1 \in T
    PROVE  Nat \subseteq T
<1> SUFFICES ASSUME Nat \ T # {} PROVE FALSE
  OBVIOUS
<1>1. PICK x \in Nat \ T : \A y \in Nat \ T : x <= y
  BY Least
<1>2. x # 0 /\ x - 1 \in Nat /\ x - 1 \in T
  BY <1>1
<1> QED
  BY <1>1, <1>2

-----------------------------------------------------------------------------

\* Sorted gives each member of a finite set once, in its order.
LEMMA SortedEnumerates ==
    ASSUME NEW S, S \subseteq Int, IsFiniteSet(S)
    PROVE  /\ Cardinality(S) \in Nat
           /\ Sorted(S) \in [1 .. Cardinality(S) -> S]
           /\ \A i, j \in 1 .. Cardinality(S) : i < j => Sorted(S)[i] < Sorted(S)[j]
           /\ \A k \in S : \E i \in 1 .. Cardinality(S) : Sorted(S)[i] = k
<1> DEFINE n == Cardinality(S)
           below == [k \in S |-> {m \in S : m < k}]
           rank  == [k \in S |-> Cardinality(below[k]) + 1]
<1>1. n \in Nat
  BY FS_CardinalityType
<1>2. ASSUME NEW k \in S
      PROVE  /\ below[k] \subseteq S /\ k \notin below[k]
             /\ IsFiniteSet(below[k]) /\ Cardinality(below[k]) \in Nat
             /\ IsFiniteSet(below[k] \cup {k}) /\ Cardinality(below[k] \cup {k}) = rank[k]
             /\ rank[k] = Cardinality(below[k]) + 1 /\ rank[k] \in 1 .. n
  <2>1. below[k] \subseteq S /\ k \notin below[k]
    OBVIOUS
  <2>2. rank[k] = Cardinality(below[k]) + 1
    OBVIOUS
  <2> HIDE DEF below, rank
  <2>3. IsFiniteSet(below[k]) /\ Cardinality(below[k]) \in Nat
    BY <2>1, FS_Subset, FS_CardinalityType
  <2>4. IsFiniteSet(below[k] \cup {k}) /\ Cardinality(below[k] \cup {k}) = Cardinality(below[k]) + 1
    BY <2>1, <2>3, FS_AddElement
  <2>5. Cardinality(below[k] \cup {k}) <= Cardinality(S)
    <3>1. (below[k] \cup {k}) \in SUBSET S
      BY <2>1
    <3> QED
      BY <3>1, FS_Subset
  <2> QED
    BY <1>1, <2>1, <2>2, <2>3, <2>4, <2>5
<1>3. ASSUME NEW k \in S, NEW m \in S, k < m
      PROVE  rank[k] < rank[m]
  <2>1. below[k] \cup {k} \subseteq below[m]
    <3> SUFFICES ASSUME NEW x \in below[k] \cup {k} PROVE x \in S /\ x < m
      OBVIOUS
    <3>1. x \in Int /\ k \in Int /\ m \in Int /\ (x < k \/ x = k) /\ x \in S
      OBVIOUS
    <3> HIDE DEF below
    <3> QED
      BY <1>3, <3>1
  <2> HIDE DEF below, rank
  <2>2. Cardinality(below[k] \cup {k}) <= Cardinality(below[m])
    BY <1>2, <2>1, FS_Subset
  <2>3. Cardinality(below[m]) \in Nat /\ rank[m] = Cardinality(below[m]) + 1
    BY <1>2
  <2>4. Cardinality(below[k] \cup {k}) = rank[k] /\ rank[k] \in 1 .. n
    BY <1>2
  <2> QED
    BY <1>1, <2>2, <2>3, <2>4
<1>4. rank \in [S -> 1 .. n]
  <2>1. rank = [k \in S |-> rank[k]]
    OBVIOUS
  <2> HIDE DEF rank
  <2> QED
    BY <1>2, <2>1
<1>5. rank \in Injection(S, 1 .. n)
  <2>1. \A k, m \in S : rank[k] = rank[m] => k = m
    <3> SUFFICES ASSUME NEW k \in S, NEW m \in S, k # m PROVE rank[k] # rank[m]
      OBVIOUS
    <3> HIDE DEF rank
    <3>1. rank[k] \in Int /\ rank[m] \in Int
      BY <1>1, <1>4
    <3>2. k < m \/ m < k
      OBVIOUS
    <3> QED
      BY <1>3, <3>1, <3>2
  <2> HIDE DEF rank
  <2> QED
    BY <1>4, <2>1 DEF Injection, IsInjective
<1>6. \A i \in 1 .. n : \E k \in S : rank[k] = i
  <2> HIDE DEF rank
  <2>1. IsFiniteSet(1 .. n) /\ Cardinality(1 .. n) = n
    BY <1>1, FS_Interval
  <2>2. rank \in Surjection(S, 1 .. n)
    BY <1>5, <2>1, FS_Injection
  <2> QED
    BY <2>2 DEF Surjection
<1>7. ASSUME NEW i \in 1 .. n
      PROVE  Sorted(S)[i] \in S /\ rank[Sorted(S)[i]] = i
  <2>1. Sorted(S)[i] = CHOOSE k \in S : Cardinality(below[k]) = i - 1
    BY DEF Sorted
  <2> HIDE DEF below, rank
  <2>2. PICK k \in S : rank[k] = i
    BY <1>6
  <2>3. \A m \in S : Cardinality(below[m]) \in Nat /\ rank[m] = Cardinality(below[m]) + 1
    BY <1>2
  <2>4. Cardinality(below[k]) = i - 1
    BY <1>1, <2>2, <2>3
  <2>5. Sorted(S)[i] \in S /\ Cardinality(below[Sorted(S)[i]]) = i - 1
    BY <2>1, <2>4
  <2>6. rank[Sorted(S)[i]] = Cardinality(below[Sorted(S)[i]]) + 1
    BY <2>3, <2>5
  <2> QED
    BY <2>5, <2>6
<1>8. Sorted(S) \in [1 .. n -> S]
  <2> HIDE DEF rank, below
  <2>1. Sorted(S) = [i \in 1 .. n |-> Sorted(S)[i]]
    BY DEF Sorted
  <2> QED
    BY <1>7, <2>1
<1> HIDE DEF rank, below
<1>9. \A i, j \in 1 .. n : i < j => Sorted(S)[i] < Sorted(S)[j]
  <2> SUFFICES ASSUME NEW i \in 1 .. n, NEW j \in 1 .. n, i < j
               PROVE  Sorted(S)[i] < Sorted(S)[j]
    OBVIOUS
  <2> DEFINE a == Sorted(S)[i]
             b == Sorted(S)[j]
  <2>1. a \in S /\ b \in S /\ a \in Int /\ b \in Int /\ rank[a] = i /\ rank[b] = j
    BY <1>7
  <2> HIDE DEF a, b
  <2>2. ~(b < a) /\ a # b
    BY <1>1, <1>3, <2>1
  <2>3. a < b
    BY <2>1, <2>2
  <2> QED
    BY <2>3 DEF a, b
<1>10. \A k \in S : \E i \in 1 .. n : Sorted(S)[i] = k
  <2> SUFFICES ASSUME NEW k \in S PROVE Sorted(S)[rank[k]] = k
    BY <1>4
  <2>1. rank[Sorted(S)[rank[k]]] = rank[k]
    BY <1>4, <1>7
  <2> QED
    BY <1>4, <1>5, <1>7, <2>1 DEF Injection, IsInjective
<1> QED
  BY <1>1, <1>8, <1>9, <1>10

-----------------------------------------------------------------------------
(* Batches and projection. *)

Distinct(ops) == \A i, j \in DOMAIN ops : i # j => ops[i].id # ops[j].id

\* A batch is the operations themselves, once each, in the order of their IDs.
LEMMA BatchEnumerates ==
    ASSUME NEW ops, IsManifest(ops), Distinct(ops)
    PROVE  \E batch : /\ OperationBatch(ops) = {batch}
                      /\ DOMAIN batch = 1 .. Len(ops) /\ Len(batch) = Len(ops)
                      /\ ToSet(batch) = ToSet(ops)
                      /\ \A i, j \in 1 .. Len(ops) : i < j => batch[i].id < batch[j].id
<1> DEFINE n == Len(ops)
           S == {ops[i].id : i \in DOMAIN ops}
           f == [i \in 1 .. n |-> ops[i].id]
           batch == [i \in DOMAIN Sorted(S) |-> CHOOSE op \in ToSet(ops) : op.id = Sorted(S)[i]]
<1>1. n \in Nat /\ DOMAIN ops = 1 .. n /\ \A i \in 1 .. n : ops[i].id \in Int
  BY DEF IsManifest, IsOperation
<1>2. OperationBatch(ops) = {batch}
  BY DEF OperationBatch, Distinct
<1>3. S \subseteq Int /\ IsFiniteSet(S) /\ Cardinality(S) = n
  <2>1. f \in Surjection(1 .. n, S) /\ f \in Injection(1 .. n, S)
    BY <1>1 DEF Surjection, Injection, IsInjective, Distinct
  <2>2. IsFiniteSet(1 .. n) /\ Cardinality(1 .. n) = n
    BY <1>1, FS_Interval
  <2>3. IsFiniteSet(S) /\ Cardinality(S) = n
    <3> HIDE DEF f, S
    <3> QED
      BY <2>1, <2>2, FS_Surjection
  <2> QED
    BY <1>1, <2>3
<1>4. /\ Sorted(S) \in [1 .. n -> S]
      /\ \A i, j \in 1 .. n : i < j => Sorted(S)[i] < Sorted(S)[j]
      /\ \A k \in S : \E i \in 1 .. n : Sorted(S)[i] = k
  <2> HIDE DEF S
  <2> QED
    BY <1>3, SortedEnumerates
<1>5. ToSet(ops) = {ops[i] : i \in 1 .. n}
  BY <1>1 DEF ToSet
<1>6. \A i \in 1 .. n : batch[i] \in ToSet(ops) /\ batch[i].id = Sorted(S)[i]
  <2> SUFFICES ASSUME NEW i \in 1 .. n PROVE batch[i] \in ToSet(ops) /\ batch[i].id = Sorted(S)[i]
    OBVIOUS
  <2>1. PICK j \in 1 .. n : ops[j].id = Sorted(S)[i]
    <3>1. Sorted(S)[i] \in S
      BY <1>4
    <3> QED
      BY <1>1, <3>1
  <2>2. \E op \in ToSet(ops) : op.id = Sorted(S)[i]
    BY <1>5, <2>1
  <2>3. batch[i] = CHOOSE op \in ToSet(ops) : op.id = Sorted(S)[i]
    BY <1>4
  <2> QED
    BY <2>2, <2>3
<1>7. DOMAIN batch = 1 .. n /\ Len(batch) = n
  <2>0. DOMAIN Sorted(S) = 1 .. n
    <3> HIDE DEF S
    <3> QED
      BY <1>4
  <2>1. batch = [i \in 1 .. n |-> batch[i]]
    BY <2>0
  <2> HIDE DEF batch
  <2>2. batch \in [1 .. n -> ToSet(ops)]
    BY <1>6, <2>1
  <2>3. batch \in Seq(ToSet(ops)) /\ Len(batch) = n
    BY <1>1, <2>2, SeqDef, LenProperties
  <2> QED
    BY <2>2, <2>3
<1>8. ToSet(batch) = ToSet(ops)
  <2>1. ToSet(batch) = {batch[i] : i \in 1 .. n}
    BY <1>7 DEF ToSet
  <2> HIDE DEF batch
  <2>2. ASSUME NEW op \in ToSet(ops) PROVE \E i \in 1 .. n : batch[i] = op
    <3>1. PICK j \in 1 .. n : op = ops[j]
      BY <1>5
    <3>2. PICK i \in 1 .. n : Sorted(S)[i] = op.id
      BY <1>1, <1>4, <3>1
    <3>3. PICK k \in 1 .. n : batch[i] = ops[k]
      BY <1>5, <1>6
    <3>4. k = j
      BY <1>1, <1>6, <3>1, <3>2, <3>3 DEF Distinct
    <3> QED
      BY <3>1, <3>3, <3>4
  <2> QED
    BY <1>6, <2>1, <2>2
<1>9. \A i, j \in 1 .. n : i < j => batch[i].id < batch[j].id
  <2> HIDE DEF batch, S
  <2> QED
    BY <1>4, <1>6
<1> HIDE DEF batch
<1> QED
  BY <1>2, <1>7, <1>8, <1>9

\* A batch is empty-handed exactly when it names an entity twice.
LEMMA BatchRefused ==
    ASSUME NEW ops, ~Distinct(ops)
    PROVE  OperationBatch(ops) = {}
BY DEF OperationBatch, Distinct

Apply(graphs, op) == {Changed(h, op) : h \in {x \in graphs : Admits(x, op)}}

\* The stages of a batch, one operation at a time.
LEMMA StagesStep ==
    ASSUME NEW g, NEW batch, Len(batch) \in Nat
    PROVE  /\ Stages(g, batch)[0] = {g}
           /\ \A i \in 1 .. Len(batch) : Stages(g, batch)[i] = Apply(Stages(g, batch)[i - 1], batch[i])
<1> DEFINE Is(f, n) == /\ f = [i \in 0 .. n |-> f[i]] /\ f[0] = {g}
                       /\ \A i \in 1 .. n : f[i] = Apply(f[i - 1], batch[i])
           T == {n \in Nat : \E f : Is(f, n)}
           Def(f) == [i \in 0 .. Len(batch) |-> IF i = 0 THEN {g} ELSE Apply(f[i - 1], batch[i])]
<1>1. 0 \in T
  <2> DEFINE h == [i \in 0 .. 0 |-> {g}]
  <2>1. h = [i \in 0 .. 0 |-> h[i]] /\ h[0] = {g}
    OBVIOUS
  <2> HIDE DEF h
  <2>2. Is(h, 0)
    BY <2>1
  <2> HIDE DEF Is
  <2> QED
    BY <2>2
<1>2. ASSUME NEW n \in Nat, n \in T PROVE n + 1 \in T
  <2>1. PICK f : Is(f, n)
    BY <1>2
  <2> DEFINE h == [i \in 0 .. n + 1 |-> IF i = n + 1 THEN Apply(f[n], batch[n + 1]) ELSE f[i]]
  <2>2. /\ h = [i \in 0 .. n + 1 |-> h[i]]
        /\ \A i \in 0 .. n : h[i] = f[i]
        /\ h[n + 1] = Apply(f[n], batch[n + 1])
    OBVIOUS
  <2> HIDE DEF h
  <2>3. ASSUME NEW i \in 1 .. n + 1 PROVE h[i] = Apply(h[i - 1], batch[i])
    <3>1. CASE i = n + 1
      <4>1. i - 1 = n /\ n \in 0 .. n
        BY <3>1
      <4>2. h[n] = f[n]
        BY <2>2, <4>1
      <4> QED
        BY <2>2, <3>1, <4>1, <4>2
    <3>2. CASE i \in 1 .. n
      BY <2>1, <2>2, <3>2
    <3> QED
      BY <3>1, <3>2
  <2>4. h[0] = {g}
    BY <2>1, <2>2
  <2>5. Is(h, n + 1)
    BY <2>2, <2>3, <2>4
  <2> HIDE DEF Is
  <2> QED
    BY <2>5
<1>3. PICK f : Is(f, Len(batch))
  <2> HIDE DEF T
  <2>1. Len(batch) \in T
    BY <1>1, <1>2, Induction
  <2> QED
    BY <2>1 DEF T
<1>4. f = Def(f)
  <2> DEFINE n == Len(batch)
  <2>1. \A i \in 0 .. n : f[i] = IF i = 0 THEN {g} ELSE Apply(f[i - 1], batch[i])
    BY <1>3
  <2> QED
    BY <1>3, <2>1
<1>5. Stages(g, batch) = CHOOSE x : x = Def(x)
  BY DEF Stages, Apply
<1>6. Stages(g, batch) = Def(Stages(g, batch))
  <2> HIDE DEF Def
  <2> QED
    BY <1>4, <1>5
<1>7. \A i \in 0 .. Len(batch) : Stages(g, batch)[i] = IF i = 0 THEN {g} ELSE Apply(Stages(g, batch)[i - 1], batch[i])
  BY <1>6
<1> QED
  BY <1>7

-----------------------------------------------------------------------------
(* The graph a set of operations leads to, whatever the order. *)

Made(f, ops) ==
    [k \in (DOMAIN f \ {op.id : op \in {o \in ops : o.kind = "remove"}}) \cup {op.id : op \in {o \in ops : o.kind # "remove"}} |->
        IF \E op \in ops : op.id = k THEN (CHOOSE op \in ops : op.id = k).value ELSE f[k]]
Of(ops, entity) == {op \in ops : op.entity = entity}
ResultOf(g, ops) == [purpose |-> g.purpose, nodes |-> Made(g.nodes, Of(ops, "nodes")), edges |-> Made(g.edges, Of(ops, "edges"))]

Apart(ops) == \A o, p \in ops : o.id = p.id => o = p

\* What the operations make of each ID.
IsMade(h, f, ops) ==
    /\ DOMAIN h = {k \in DOMAIN f \cup {op.id : op \in ops} : \A op \in ops : op.id = k => op.kind # "remove"}
    /\ \A k \in DOMAIN h : \A op \in ops : op.id = k => h[k] = op.value
    /\ \A k \in DOMAIN h : (\A op \in ops : op.id # k) => h[k] = f[k]
    /\ h = [k \in DOMAIN h |-> h[k]]

LEMMA MadeValue ==
    ASSUME NEW f, NEW ops, Apart(ops)
    PROVE  IsMade(Made(f, ops), f, ops)
<1> DEFINE D == (DOMAIN f \ {op.id : op \in {o \in ops : o.kind = "remove"}}) \cup {op.id : op \in {o \in ops : o.kind # "remove"}}
           V(k) == IF \E op \in ops : op.id = k THEN (CHOOSE op \in ops : op.id = k).value ELSE f[k]
<1>1. Made(f, ops) = [k \in D |-> V(k)]
  BY DEF Made
<1>2. D = {k \in DOMAIN f \cup {op.id : op \in ops} : \A op \in ops : op.id = k => op.kind # "remove"}
  BY DEF Apart
<1>3. ASSUME NEW k, NEW op \in ops, op.id = k PROVE V(k) = op.value
  <2>1. (CHOOSE o \in ops : o.id = k) = op
    BY <1>3 DEF Apart
  <2> QED
    BY <1>3, <2>1
<1>4. ASSUME NEW k, \A op \in ops : op.id # k PROVE V(k) = f[k]
  BY <1>4
<1> HIDE DEF D, V
<1>5. DOMAIN Made(f, ops) = D /\ \A k \in D : Made(f, ops)[k] = V(k)
  BY <1>1
<1>6. Made(f, ops) = [k \in DOMAIN Made(f, ops) |-> Made(f, ops)[k]]
  BY <1>1
<1> QED
  BY <1>2, <1>3, <1>4, <1>5, <1>6 DEF IsMade

Updated(f, op) == IF op.kind = "remove" THEN [k \in DOMAIN f \ {op.id} |-> f[k]]
                  ELSE [k \in DOMAIN f \cup {op.id} |-> IF k = op.id THEN op.value ELSE f[k]]

LEMMA MadeStep ==
    ASSUME NEW f, NEW ops, NEW op, Apart(ops), \A o \in ops : o.id # op.id
    PROVE  Made(f, ops \cup {op}) = Updated(Made(f, ops), op)
<1> DEFINE old == Made(f, ops)
           new == Made(f, ops \cup {op})
<1>1. Apart(ops \cup {op})
  BY DEF Apart
<1>2. IsMade(old, f, ops) /\ IsMade(new, f, ops \cup {op})
  BY <1>1, MadeValue
<1> HIDE DEF old, new
<1>3. /\ old = [k \in DOMAIN old |-> old[k]]
      /\ new = [k \in DOMAIN new |-> new[k]]
  BY <1>2 DEF IsMade
<1>4. DOMAIN new = IF op.kind = "remove" THEN DOMAIN old \ {op.id} ELSE DOMAIN old \cup {op.id}
  <2>1. ASSUME NEW k PROVE k \in DOMAIN new <=> IF op.kind = "remove" THEN k \in DOMAIN old /\ k # op.id ELSE k \in DOMAIN old \/ k = op.id
    <3>1. CASE k = op.id
      BY <1>2, <3>1 DEF IsMade
    <3>2. CASE k # op.id
      BY <1>2, <3>2 DEF IsMade
    <3> QED
      BY <3>1, <3>2
  <2> QED
    BY <2>1
<1>5. ASSUME NEW k \in DOMAIN new, k # op.id PROVE k \in DOMAIN old /\ new[k] = old[k]
  <2>1. k \in DOMAIN old
    BY <1>4, <1>5
  <2>2. CASE \E o \in ops : o.id = k
    BY <1>2, <2>1, <1>5, <2>2 DEF IsMade
  <2>3. CASE \A o \in ops : o.id # k
    BY <1>2, <1>5, <2>1, <2>3 DEF IsMade
  <2> QED
    BY <2>1, <2>2, <2>3
<1>6. op.id \in DOMAIN new => new[op.id] = op.value
  BY <1>2 DEF IsMade
<1>7. new = IF op.kind = "remove" THEN [k \in DOMAIN old \ {op.id} |-> old[k]]
            ELSE [k \in DOMAIN old \cup {op.id} |-> IF k = op.id THEN op.value ELSE old[k]]
  <2>1. CASE op.kind = "remove"
    <3>1. \A k \in DOMAIN new : new[k] = old[k]
      BY <1>4, <1>5, <2>1
    <3> QED
      BY <1>3, <1>4, <2>1, <3>1
  <2>2. CASE op.kind # "remove"
    <3>1. \A k \in DOMAIN new : new[k] = IF k = op.id THEN op.value ELSE old[k]
      BY <1>5, <1>6
    <3> QED
      BY <1>3, <1>4, <2>2, <3>1
  <2> QED
    BY <2>1, <2>2
<1> QED
  BY <1>7 DEF old, new, Updated

\* One more operation, for an entity the others do not name.
LEMMA ResultStep ==
    ASSUME NEW g, NEW ops, NEW op, Apart(ops), op.entity \in {"nodes", "edges"}, \A o \in ops : o.id # op.id
    PROVE  /\ Changed(ResultOf(g, ops), op) = ResultOf(g, ops \cup {op})
           /\ Admits(ResultOf(g, ops), op) <=> Admits(g, op)
<1> DEFINE N == Of(ops, "nodes")
           E == Of(ops, "edges")
           h == ResultOf(g, ops)
<1>1. Apart(N) /\ Apart(E) /\ (\A o \in N : o.id # op.id) /\ (\A o \in E : o.id # op.id)
  BY DEF Of, Apart
<1>2. IsMade(Made(g.nodes, N), g.nodes, N) /\ IsMade(Made(g.edges, E), g.edges, E)
  BY <1>1, MadeValue
<1>3. /\ op.id \in DOMAIN Made(g.nodes, N) <=> op.id \in DOMAIN g.nodes
      /\ op.id \in DOMAIN Made(g.edges, E) <=> op.id \in DOMAIN g.edges
  <2> HIDE DEF N, E
  <2> QED
    BY <1>1, <1>2 DEF IsMade
<1>4. h.nodes = Made(g.nodes, N) /\ h.edges = Made(g.edges, E)
  BY DEF ResultOf
<1>5. Admits(h, op) <=> Admits(g, op)
  <2> HIDE DEF h, N, E
  <2>1. CASE op.entity = "nodes"
    BY <1>3, <1>4, <2>1 DEF Admits, Other
  <2>2. CASE op.entity = "edges"
    BY <1>3, <1>4, <2>2 DEF Admits, Other
  <2> QED
    BY <2>1, <2>2
<1>6. CASE op.entity = "nodes"
  <2>1. Of(ops \cup {op}, "nodes") = N \cup {op} /\ Of(ops \cup {op}, "edges") = E
    BY <1>6 DEF Of
  <2>2. Made(g.nodes, N \cup {op}) = Updated(h.nodes, op)
    <3> HIDE DEF N, E, h
    <3> QED
      BY <1>1, <1>4, MadeStep
  <2>3. Changed(h, op) = [purpose |-> g.purpose, nodes |-> Updated(h.nodes, op), edges |-> h.edges]
    <3>1. h = [purpose |-> g.purpose, nodes |-> h.nodes, edges |-> h.edges]
      BY DEF ResultOf
    <3>2. Changed(h, op) = [h EXCEPT !.nodes = Updated(h.nodes, op)]
      <4> HIDE DEF h
      <4> QED
        BY <1>6 DEF Changed, Updated
    <3> HIDE DEF h
    <3> QED
      BY <3>1, <3>2
  <2>4. ResultOf(g, ops \cup {op}) = [purpose |-> g.purpose, nodes |-> Updated(h.nodes, op), edges |-> h.edges]
    <3> HIDE DEF N, E, h
    <3> QED
      BY <1>4, <2>1, <2>2 DEF ResultOf
  <2> QED
    BY <1>5, <2>3, <2>4
<1>7. CASE op.entity = "edges"
  <2>1. Of(ops \cup {op}, "edges") = E \cup {op} /\ Of(ops \cup {op}, "nodes") = N
    BY <1>7 DEF Of
  <2>2. Made(g.edges, E \cup {op}) = Updated(h.edges, op)
    <3> HIDE DEF N, E, h
    <3> QED
      BY <1>1, <1>4, MadeStep
  <2>3. Changed(h, op) = [purpose |-> g.purpose, nodes |-> h.nodes, edges |-> Updated(h.edges, op)]
    <3>1. h = [purpose |-> g.purpose, nodes |-> h.nodes, edges |-> h.edges]
      BY DEF ResultOf
    <3>2. Changed(h, op) = [h EXCEPT !.edges = Updated(h.edges, op)]
      <4> HIDE DEF h
      <4> QED
        BY <1>7 DEF Changed, Updated
    <3> HIDE DEF h
    <3> QED
      BY <3>1, <3>2
  <2>4. ResultOf(g, ops \cup {op}) = [purpose |-> g.purpose, nodes |-> h.nodes, edges |-> Updated(h.edges, op)]
    <3> HIDE DEF N, E, h
    <3> QED
      BY <1>4, <2>1, <2>2 DEF ResultOf
  <2> QED
    BY <1>5, <2>3, <2>4
<1> QED
  BY <1>6, <1>7

LEMMA ResultOfNothing ==
    ASSUME NEW g, IsGraph(g)
    PROVE  ResultOf(g, {}) = g
<1>1. Of({}, "nodes") = {} /\ Of({}, "edges") = {}
  BY DEF Of
<1>2. Made(g.nodes, {}) = [k \in DOMAIN g.nodes |-> g.nodes[k]] /\ Made(g.edges, {}) = [k \in DOMAIN g.edges |-> g.edges[k]]
  BY DEF Made
<1> QED
  BY <1>1, <1>2 DEF ResultOf, IsGraph, NodesOf, EdgesOf

Given(batch, i) == {batch[j] : j \in 1 .. i}

\* After i operations: nothing if one was not admitted, else what they lead to.
Outcome(g, ops) == IF \A op \in ops : Admits(g, op) THEN {ResultOf(g, ops)} ELSE {}

LEMMA StagesAre ==
    ASSUME NEW g, IsGraph(g), NEW batch, Len(batch) \in Nat,
           \A i \in 1 .. Len(batch) : batch[i].entity \in {"nodes", "edges"},
           \A i, j \in 1 .. Len(batch) : i # j => batch[i].id # batch[j].id
    PROVE  \A i \in 0 .. Len(batch) : Stages(g, batch)[i] = Outcome(g, Given(batch, i))
<1> DEFINE Is(i) == Stages(g, batch)[i] = Outcome(g, Given(batch, i))
           T == {i \in Nat : i <= Len(batch) => Is(i)}
<1>1. 0 \in T
  <2>1. Given(batch, 0) = {}
    BY DEF Given
  <2> QED
    BY <2>1, StagesStep, ResultOfNothing DEF Outcome
<1>2. ASSUME NEW i \in Nat, i \in T PROVE i + 1 \in T
  <2> SUFFICES ASSUME i + 1 <= Len(batch) PROVE Is(i + 1)
    OBVIOUS
  <2> DEFINE op == batch[i + 1]
             ops == Given(batch, i)
  <2>1. i \in 0 .. Len(batch) /\ i + 1 \in 1 .. Len(batch) /\ (i + 1) - 1 = i
    OBVIOUS
  <2>2. Stages(g, batch)[i + 1] = Apply(Stages(g, batch)[i], op)
    BY <2>1, StagesStep
  <2>3. Is(i)
    BY <1>2, <2>1
  <2>4. Given(batch, i + 1) = ops \cup {op}
    <3>1. 1 .. i + 1 = (1 .. i) \cup {i + 1}
      BY <2>1
    <3> QED
      BY <3>1 DEF Given
  <2>5. /\ op.entity \in {"nodes", "edges"} /\ \A o \in ops : o.id # op.id
        /\ Apart(ops)
    <3>1. \A j \in 1 .. i : j \in 1 .. Len(batch) /\ j # i + 1
      BY <2>1
    <3> QED
      BY <2>1, <3>1 DEF Given, Apart
  <2> HIDE DEF op, ops
  <2>6. /\ Changed(ResultOf(g, ops), op) = ResultOf(g, ops \cup {op})
        /\ Admits(ResultOf(g, ops), op) <=> Admits(g, op)
    BY <2>5, ResultStep
  <2>7. Stages(g, batch)[i] = IF \A o \in ops : Admits(g, o) THEN {ResultOf(g, ops)} ELSE {}
    BY <2>3 DEF ops, Outcome
  <2>8. CASE \A o \in ops : Admits(g, o)
    <3>1. Apply({ResultOf(g, ops)}, op) = IF Admits(g, op) THEN {ResultOf(g, ops \cup {op})} ELSE {}
      BY <2>6 DEF Apply
    <3> QED
      BY <2>2, <2>4, <2>7, <2>8, <3>1 DEF Outcome
  <2>9. CASE ~ \A o \in ops : Admits(g, o)
    <3>1. Apply({}, op) = {}
      BY DEF Apply
    <3> QED
      BY <2>2, <2>4, <2>7, <2>9, <3>1 DEF Outcome
  <2> QED
    BY <2>8, <2>9
<1>3. Nat \subseteq T
  <2> HIDE DEF T
  <2> QED
    BY <1>1, <1>2, Induction
<1>4. ASSUME NEW i \in 0 .. Len(batch) PROVE Is(i)
  BY <1>3
<1> QED
  BY <1>4

\* project_graph, for every graph and every batch: refused, or the one graph in which each
\* entity is as the operation on it says, whatever the order the operations were given in.
THEOREM ProjectionIsExact ==
    ASSUME NEW g, IsGraph(g), NEW ops, IsManifest(ops)
    PROVE  ProjectGraph(g, ops) =
             IF /\ NodesOf(g) \cap EdgesOf(g) = {} /\ Distinct(ops)
                /\ \A op \in ToSet(ops) : Admits(g, op)
             THEN {ResultOf(g, ToSet(ops))} ELSE {}
<1>1. CASE ~Distinct(ops)
  BY <1>1, BatchRefused DEF ProjectGraph
<1>2. CASE NodesOf(g) \cap EdgesOf(g) # {}
  BY <1>2 DEF ProjectGraph
<1>3. CASE NodesOf(g) \cap EdgesOf(g) = {} /\ Distinct(ops)
  <2>1. PICK batch : /\ OperationBatch(ops) = {batch}
                     /\ DOMAIN batch = 1 .. Len(ops) /\ Len(batch) = Len(ops)
                     /\ ToSet(batch) = ToSet(ops)
                     /\ \A i, j \in 1 .. Len(ops) : i < j => batch[i].id < batch[j].id
    BY <1>3, BatchEnumerates
  <2> DEFINE n == Len(batch)
  <2>2. ToSet(ops) = {ops[i] : i \in 1 .. Len(ops)} /\ Len(ops) \in Nat /\ \A op \in ToSet(ops) : IsOperation(op)
    BY DEF IsManifest, ToSet
  <2>3. Given(batch, n) = ToSet(ops) /\ \A i \in 1 .. n : batch[i] \in ToSet(ops)
    BY <2>1 DEF Given, ToSet
  <2>4. /\ \A i \in 1 .. n : batch[i].entity \in {"nodes", "edges"} /\ batch[i].id \in Int
        /\ \A i, j \in 1 .. n : i # j => batch[i].id # batch[j].id
    <3>1. \A i \in 1 .. n : batch[i].entity \in {"nodes", "edges"} /\ batch[i].id \in Int
      BY <2>2, <2>3 DEF IsOperation
    <3>2. ASSUME NEW i \in 1 .. n, NEW j \in 1 .. n, i < j PROVE batch[i].id # batch[j].id
      BY <2>1, <3>1, <3>2
    <3> QED
      BY <2>1, <2>2, <3>1, <3>2
  <2>5. n \in Nat /\ n \in 0 .. n
    BY <2>1, <2>2
  <2>6. Stages(g, batch)[n] = Outcome(g, ToSet(ops))
    BY <2>3, <2>4, <2>5, StagesAre
  <2>7. ProjectGraph(g, ops) = UNION {Stages(g, b)[Len(b)] : b \in {batch}}
    BY <1>3, <2>1 DEF ProjectGraph
  <2>8. ProjectGraph(g, ops) = Stages(g, batch)[n]
    BY <2>7
  <2> QED
    BY <1>3, <2>6, <2>8 DEF Outcome
<1> QED
  BY <1>1, <1>2, <1>3

-----------------------------------------------------------------------------
(* Functions that call themselves last. *)

\* The places a step leads to from a place, one after the other.
IsOrbit(o, next, x) == o[0] = x /\ \A n \in Nat : o[n + 1] = next[o[n]]

LEMMA OrbitExists ==
    ASSUME NEW X, NEW next \in [X -> X], NEW x \in X
    PROVE  \E o \in [Nat -> X] : IsOrbit(o, next, x)
<1> DEFINE Is(h, n) == h \in [0 .. n -> X] /\ h[0] = x /\ \A i \in 0 .. n - 1 : h[i + 1] = next[h[i]]
           T == {n \in Nat : \E h : Is(h, n)}
           H(n) == CHOOSE h : Is(h, n)
<1>1. 0 \in T
  <2> DEFINE h == [i \in 0 .. 0 |-> x]
  <2>1. Is(h, 0)
    OBVIOUS
  <2> HIDE DEF Is
  <2> QED
    BY <2>1
<1>2. ASSUME NEW n \in Nat, n \in T PROVE n + 1 \in T
  <2>1. PICK f : Is(f, n)
    BY <1>2
  <2> DEFINE h == [i \in 0 .. n + 1 |-> IF i = n + 1 THEN next[f[n]] ELSE f[i]]
  <2>2. /\ h \in [0 .. n + 1 -> X] /\ h[n + 1] = next[f[n]]
        /\ \A i \in 0 .. n : h[i] = f[i]
    BY <2>1
  <2> HIDE DEF h
  <2>3. ASSUME NEW i \in 0 .. n PROVE h[i + 1] = next[h[i]]
    <3>1. CASE i = n
      BY <2>2, <3>1
    <3>2. CASE i \in 0 .. n - 1
      BY <2>1, <2>2, <3>2
    <3> QED
      BY <3>1, <3>2
  <2>4. h[0] = x
    BY <2>1, <2>2
  <2>5. Is(h, n + 1)
    BY <2>2, <2>3, <2>4
  <2> HIDE DEF Is
  <2> QED
    BY <2>5
<1>3. \A n \in Nat : Is(H(n), n)
  <2> HIDE DEF Is, T
  <2>1. \A n \in Nat : n \in T
    BY <1>1, <1>2, Induction
  <2> SUFFICES ASSUME NEW n \in Nat PROVE Is(CHOOSE h : Is(h, n), n)
    OBVIOUS
  <2>2. \E h : Is(h, n)
    BY <2>1 DEF T
  <2> QED
    BY <2>2
<1>4. ASSUME NEW n \in Nat PROVE H(n + 1)[n] = H(n)[n]
  <2> DEFINE U == {i \in Nat : i <= n => H(n + 1)[i] = H(n)[i]}
  <2>1. Is(H(n), n) /\ Is(H(n + 1), n + 1)
    <3>1. n + 1 \in Nat
      OBVIOUS
    <3> HIDE DEF Is, H
    <3> QED
      BY <1>3, <3>1
  <2> HIDE DEF H
  <2>2. 0 \in U
    BY <2>1
  <2>3. ASSUME NEW i \in Nat, i \in U PROVE i + 1 \in U
    BY <2>1, <2>3
  <2> HIDE DEF U
  <2>4. n \in U
    BY <2>2, <2>3, Induction
  <2> QED
    BY <2>4 DEF U
<1> DEFINE o == [n \in Nat |-> H(n)[n]]
<1>5. ASSUME NEW n \in Nat PROVE H(n)[n] \in X /\ H(n + 1)[n + 1] = next[H(n)[n]]
  <2>1. Is(H(n), n) /\ Is(H(n + 1), n + 1)
    <3>1. n + 1 \in Nat
      OBVIOUS
    <3> HIDE DEF Is, H
    <3> QED
      BY <1>3, <3>1
  <2> HIDE DEF H
  <2>2. H(n + 1)[n + 1] = next[H(n + 1)[n]]
    <3>1. n \in 0 .. (n + 1) - 1
      OBVIOUS
    <3> QED
      BY <2>1, <3>1
  <2>3. H(n)[n] \in X
    <3>1. n \in 0 .. n
      OBVIOUS
    <3> QED
      BY <2>1, <3>1
  <2> QED
    BY <1>4, <2>2, <2>3
<1>6. H(0)[0] = x
  BY <1>3
<1> HIDE DEF H
<1>7. o \in [Nat -> X] /\ o[0] = x /\ \A n \in Nat : o[n + 1] = next[o[n]]
  BY <1>5, <1>6
<1> HIDE DEF o
<1> QED
  BY <1>7 DEF IsOrbit

\* f is what an equation of the form of a tail recursion asks of it.
Solves(f, X, done, out, next) == f = [x \in X |-> IF x \in done THEN out[x] ELSE f[next[x]]]

\* An equation of the form of a tail recursion has a solution, whether or not it ends.
LEMMA TailRecursion ==
    ASSUME NEW X, NEW done, NEW out, NEW next \in [X -> X]
    PROVE  \E f : Solves(f, X, done, out, next)
<1> DEFINE O(x) == CHOOSE o \in [Nat -> X] : IsOrbit(o, next, x)
           Ends(x) == {k \in Nat : O(x)[k] \in done}
           First(x) == CHOOSE k \in Ends(x) : \A j \in Ends(x) : k <= j
           f == [x \in X |-> IF Ends(x) = {} THEN {} ELSE out[O(x)[First(x)]]]
<1>1. ASSUME NEW x \in X PROVE O(x) \in [Nat -> X] /\ IsOrbit(O(x), next, x)
  BY OrbitExists
<1>2. ASSUME NEW x \in X, Ends(x) # {}
      PROVE  First(x) \in Ends(x) /\ \A j \in Ends(x) : First(x) <= j
  <2> HIDE DEF O
  <2>1. \E k \in Ends(x) : \A j \in Ends(x) : k <= j
    <3>1. Ends(x) \subseteq Nat
      OBVIOUS
    <3> HIDE DEF Ends
    <3> QED
      BY <1>2, <3>1, Least
  <2> HIDE DEF Ends
  <2> QED
    BY <2>1
<1>3. ASSUME NEW x \in X, x \notin done, NEW n \in Nat PROVE O(next[x])[n] = O(x)[n + 1]
  <2> DEFINE U == {i \in Nat : O(next[x])[i] = O(x)[i + 1]}
  <2>1. /\ next[x] \in X /\ O(x)[0] = x /\ O(next[x])[0] = next[x]
        /\ \A i \in Nat : O(x)[i + 1] = next[O(x)[i]] /\ O(next[x])[i + 1] = next[O(next[x])[i]]
    <3>1. next[x] \in X
      OBVIOUS
    <3> HIDE DEF O
    <3> QED
      BY <1>1, <3>1 DEF IsOrbit
  <2> HIDE DEF O
  <2>2. 0 \in U
    BY <2>1
  <2>3. ASSUME NEW i \in Nat, i \in U PROVE i + 1 \in U
    BY <2>1, <2>3
  <2> HIDE DEF U
  <2>4. n \in U
    BY <2>2, <2>3, Induction
  <2> QED
    BY <2>4 DEF U
<1>4. ASSUME NEW x \in X PROVE f[x] = IF x \in done THEN out[x] ELSE f[next[x]]
  <2>1. CASE x \in done
    <3>1. O(x)[0] = x
      BY <1>1 DEF IsOrbit
    <3>2. 0 \in Ends(x)
      BY <2>1, <3>1
    <3>3. First(x) = 0
      <4>1. First(x) <= 0 /\ First(x) \in Nat
        BY <1>2, <3>2
      <4> HIDE DEF First
      <4> QED
        BY <4>1
    <3>4. f[x] = out[O(x)[First(x)]]
      <4> HIDE DEF Ends, O, First
      <4> QED
        BY <3>2
    <3> HIDE DEF f, O, First
    <3> QED
      BY <2>1, <3>1, <3>3, <3>4
  <2>2. CASE x \notin done
    <3> DEFINE y == next[x]
    <3>1. y \in X
      OBVIOUS
    <3>2. O(x)[0] = x /\ \A n \in Nat : O(y)[n] = O(x)[n + 1]
      BY <1>1, <1>3, <2>2 DEF IsOrbit
    <3>3. \A k \in Nat : k \in Ends(y) <=> k + 1 \in Ends(x)
      <4> HIDE DEF O, y
      <4> QED
        BY <3>2
    <3>4. 0 \notin Ends(x)
      BY <2>2, <3>2
    <3>5. Ends(x) = {} <=> Ends(y) = {}
      <4>1. Ends(x) \subseteq Nat /\ Ends(y) \subseteq Nat
        OBVIOUS
      <4>2. ASSUME NEW k \in Ends(x) PROVE Ends(y) # {}
        <5>1. k - 1 \in Nat /\ k = (k - 1) + 1
          <6> HIDE DEF Ends
          <6> QED
            BY <3>4, <4>1, <4>2
        <5> HIDE DEF Ends
        <5> QED
          BY <3>3, <4>2, <5>1
      <4> HIDE DEF Ends
      <4> QED
        BY <3>3, <4>1, <4>2
    <3>6. CASE Ends(x) # {}
      <4>1. Ends(x) \subseteq Nat /\ Ends(y) \subseteq Nat
        OBVIOUS
      <4>2. /\ First(x) \in Ends(x) /\ \A j \in Ends(x) : First(x) <= j
            /\ First(y) \in Ends(y) /\ \A j \in Ends(y) : First(y) <= j
        BY <1>2, <3>1, <3>5, <3>6
      <4> HIDE DEF Ends, First, y, O
      <4>3. First(x) = First(y) + 1
        <5>1. First(x) - 1 \in Nat /\ First(x) = (First(x) - 1) + 1
          BY <3>4, <4>1, <4>2
        <5>2. First(x) - 1 \in Ends(y) /\ First(y) + 1 \in Ends(x)
          BY <3>3, <4>1, <4>2, <5>1
        <5> QED
          BY <4>1, <4>2, <5>1, <5>2
      <4>4. O(x)[First(x)] = O(y)[First(y)]
        BY <3>2, <4>1, <4>2, <4>3
      <4> QED
        BY <2>2, <3>1, <3>5, <3>6, <4>4 DEF y
    <3>7. CASE Ends(x) = {}
      <4> HIDE DEF Ends, First, O
      <4> QED
        BY <2>2, <3>1, <3>5, <3>7
    <3> QED
      BY <3>6, <3>7
  <2> QED
    BY <2>1, <2>2
<1>5. f = [x \in X |-> IF x \in done THEN out[x] ELSE f[next[x]]]
  <2>1. f = [x \in X |-> f[x]]
    OBVIOUS
  <2> HIDE DEF f
  <2> QED
    BY <1>4, <2>1
<1> HIDE DEF f
<1> QED
  BY <1>5 DEF Solves

-----------------------------------------------------------------------------
(* Where a lineage ends. *)

\* How the lineage of a node is walked.
Parent(g, m) == g.edges[CHOOSE e \in ScopeParents(g, m) : TRUE].target
Single(g, m) == Cardinality(ScopeParents(g, m)) = 1
Places == [node : Int, seen : SUBSET Int]
Walk(g) ==
    CHOOSE walk : walk = [at \in Places |->
            IF at.node = g.purpose THEN "reached"
            ELSE IF at.node \in at.seen THEN "scope-cycle"
            ELSE IF Cardinality(ScopeParents(g, at.node)) # 1 THEN "scope-does-not-reach-purpose"
            ELSE LET parent == g.edges[CHOOSE e \in ScopeParents(g, at.node) : TRUE].target
                 IN  IF parent \in NodesOf(g) THEN walk[[node |-> parent, seen |-> at.seen \cup {at.node}]]
                                              ELSE "scope-does-not-reach-purpose"]
WalkFrom(g, m, seen) == Walk(g)[[node |-> m, seen |-> seen]]

LEMMA LineageIs == ASSUME NEW g, NEW n PROVE Lineage(g, n) = WalkFrom(g, n, {})
BY DEF Lineage, Walk, WalkFrom, Places

LEMMA WalkIs ==
    ASSUME NEW g, NodesOf(g) \subseteq Int, NEW m \in Int, NEW seen \in SUBSET Int
    PROVE  WalkFrom(g, m, seen) = IF m = g.purpose THEN "reached"
                                  ELSE IF m \in seen THEN "scope-cycle"
                                  ELSE IF Single(g, m) /\ Parent(g, m) \in NodesOf(g) THEN WalkFrom(g, Parent(g, m), seen \cup {m})
                                  ELSE "scope-does-not-reach-purpose"
<1> DEFINE X == Places
           Stops(at) == at.node = g.purpose \/ at.node \in at.seen \/ ~Single(g, at.node) \/ Parent(g, at.node) \notin NodesOf(g)
           done == {at \in X : Stops(at)}
           out  == [at \in X |-> IF at.node = g.purpose THEN "reached" ELSE IF at.node \in at.seen THEN "scope-cycle"
                                  ELSE "scope-does-not-reach-purpose"]
           next == [at \in X |-> IF at \in done THEN at ELSE [node |-> Parent(g, at.node), seen |-> at.seen \cup {at.node}]]
           Body(walk, at) ==
             IF at.node = g.purpose THEN "reached"
             ELSE IF at.node \in at.seen THEN "scope-cycle"
             ELSE IF Cardinality(ScopeParents(g, at.node)) # 1 THEN "scope-does-not-reach-purpose"
             ELSE LET parent == g.edges[CHOOSE e \in ScopeParents(g, at.node) : TRUE].target
                  IN  IF parent \in NodesOf(g) THEN walk[[node |-> parent, seen |-> at.seen \cup {at.node}]]
                                               ELSE "scope-does-not-reach-purpose"
           Def(walk) == [at \in X |-> Body(walk, at)]
<1>1. next \in [X -> X]
  <2> SUFFICES ASSUME NEW at \in X, at \notin done PROVE [node |-> Parent(g, at.node), seen |-> at.seen \cup {at.node}] \in X
    OBVIOUS
  <2>1. Parent(g, at.node) \in Int
    OBVIOUS
  <2> QED
    BY <2>1 DEF Places
<1>2. PICK f : f = [at \in X |-> IF at \in done THEN out[at] ELSE f[next[at]]]
  <2> HIDE DEF X, done, out, next, Stops, Body, Def
  <2>1. \E f : Solves(f, X, done, out, next)
    BY <1>1, TailRecursion
  <2> QED
    BY <2>1 DEF Solves
<1>3. ASSUME NEW at \in X PROVE f[at] = Body(f, at)
  <2>1. f[at] = IF at \in done THEN out[at] ELSE f[next[at]]
    <3> HIDE DEF X, done, out, next
    <3> QED
      BY <1>2
  <2>2. CASE Stops(at)
    <3>1. f[at] = out[at]
      BY <2>1, <2>2
    <3>2. out[at] = Body(f, at)
      BY <2>2 DEF Single, Parent
    <3> QED
      BY <3>1, <3>2
  <2>3. CASE ~Stops(at)
    <3>1. f[at] = f[[node |-> Parent(g, at.node), seen |-> at.seen \cup {at.node}]]
      BY <2>1, <2>3
    <3>2. Body(f, at) = f[[node |-> Parent(g, at.node), seen |-> at.seen \cup {at.node}]]
      BY <2>3 DEF Single, Parent
    <3> QED
      BY <3>1, <3>2
  <2> QED
    BY <2>2, <2>3
<1>4. f = Def(f)
  <2>1. f = [at \in X |-> f[at]]
    <3> HIDE DEF X, done, out, next
    <3> QED
      BY <1>2
  <2> HIDE DEF Body, X
  <2> QED
    BY <1>3, <2>1
<1>5. Walk(g) = CHOOSE x : x = Def(x)
  BY DEF Walk
<1>6. Walk(g) = Def(Walk(g))
  <2> HIDE DEF Def
  <2> QED
    BY <1>4, <1>5
<1>7. [node |-> m, seen |-> seen] \in X
  BY DEF Places
<1>8. Walk(g)[[node |-> m, seen |-> seen]] = Body(Walk(g), [node |-> m, seen |-> seen])
  <2> HIDE DEF Body, X
  <2> QED
    BY <1>6, <1>7
<1> QED
  BY <1>8 DEF Single, Parent, WalkFrom

-----------------------------------------------------------------------------
(* What it means that a graph is accepted. *)

\* A graph is valid when each rule of validate_graph finds nothing.
LEMMA ValidIs ==
    ASSUME NEW g
    PROVE  IsValid(g) <=>
              /\ NodesOf(g) \cap EdgesOf(g) = {}
              /\ \A e \in EdgesOf(g) : g.edges[e].source \in NodesOf(g) /\ g.edges[e].target \in NodesOf(g)
              /\ g.purpose \in NodesOf(g)
              /\ \A e \in ScopeEdges(g) : ~(Cardinality(ScopeParents(g, g.edges[e].source)) > 1)
              /\ \A e \in ScopeEdges(g) : g.edges[e].direction = "none"
              /\ ScopeParents(g, g.purpose) = {}
              /\ \A n \in NodesOf(g) \ {g.purpose} : Cardinality(ScopeParents(g, n)) # 0
              /\ \A n \in NodesOf(g) : Lineage(g, n) = "reached"
<1> DEFINE Found(code, ids) == {<<code, id>> : id \in ids}
           both    == NodesOf(g) \cap EdgesOf(g)
           sources == {e \in EdgesOf(g) : g.edges[e].source \notin NodesOf(g)}
           targets == {e \in EdgesOf(g) : g.edges[e].target \notin NodesOf(g)}
           purpose == {g.purpose} \ NodesOf(g)
           many    == {n \in {g.edges[e].source : e \in ScopeEdges(g)} : Cardinality(ScopeParents(g, n)) > 1}
           directed == {e \in ScopeEdges(g) : g.edges[e].direction # "none"}
           above   == ScopeParents(g, g.purpose)
           none    == {n \in NodesOf(g) \ {g.purpose} : Cardinality(ScopeParents(g, n)) = 0}
           lost    == {m \in NodesOf(g) : Lineage(g, m) # "reached"}
<1>1. Diagnostics(g) = UNION {
          Found("entity-id-collision", both), Found("missing-edge-source", sources), Found("missing-edge-target", targets),
          Found("missing-purpose-node", purpose), Found("multiple-scope-parents", many),
          Found("scope-parent-review-direction", directed), Found("purpose-has-scope-parent", above),
          Found("missing-scope-parent", none), UNION {Found(Lineage(g, n), {n}) : n \in lost}}
  BY DEF Diagnostics
<1>2. \A code, ids : Found(code, ids) = {} <=> ids = {}
  OBVIOUS
<1>3. UNION {Found(Lineage(g, n), {n}) : n \in lost} = {} <=> lost = {}
  <2>1. ASSUME NEW n \in lost PROVE <<Lineage(g, n), n>> \in UNION {Found(Lineage(g, m), {m}) : m \in lost}
    <3>1. <<Lineage(g, n), n>> \in Found(Lineage(g, n), {n})
      OBVIOUS
    <3> HIDE DEF lost, Found
    <3> QED
      BY <2>1, <3>1
  <2>2. lost = {} => UNION {Found(Lineage(g, m), {m}) : m \in lost} = {}
    <3> HIDE DEF lost, Found
    <3> QED
      OBVIOUS
  <2> HIDE DEF lost, Found
  <2> QED
    BY <2>1, <2>2
<1>4. IsValid(g) <=> /\ both = {} /\ sources = {} /\ targets = {} /\ purpose = {} /\ many = {}
                     /\ directed = {} /\ above = {} /\ none = {} /\ lost = {}
  <2> DEFINE lineages == UNION {Found(Lineage(g, n), {n}) : n \in lost}
             all == {Found("entity-id-collision", both), Found("missing-edge-source", sources), Found("missing-edge-target", targets),
                     Found("missing-purpose-node", purpose), Found("multiple-scope-parents", many),
                     Found("scope-parent-review-direction", directed), Found("purpose-has-scope-parent", above),
                     Found("missing-scope-parent", none), lineages}
  <2>1. UNION all = {} <=> \A x \in all : x = {}
    <3> HIDE DEF all
    <3> QED
      OBVIOUS
  <2>2. (\A x \in all : x = {}) <=>
             /\ Found("entity-id-collision", both) = {} /\ Found("missing-edge-source", sources) = {}
             /\ Found("missing-edge-target", targets) = {} /\ Found("missing-purpose-node", purpose) = {}
             /\ Found("multiple-scope-parents", many) = {} /\ Found("scope-parent-review-direction", directed) = {}
             /\ Found("purpose-has-scope-parent", above) = {} /\ Found("missing-scope-parent", none) = {} /\ lineages = {}
    <3> HIDE DEF lineages, Found, both, sources, targets, purpose, many, directed, above, none
    <3> QED
      OBVIOUS
  <2>3. IsValid(g) <=> UNION all = {}
    BY <1>1 DEF IsValid
  <2> HIDE DEF all, Found, both, sources, targets, purpose, many, directed, above, none, lost
  <2> QED
    BY <1>2, <1>3, <2>1, <2>2, <2>3 DEF lineages
<1>5. many = {} <=> \A e \in ScopeEdges(g) : ~(Cardinality(ScopeParents(g, g.edges[e].source)) > 1)
  OBVIOUS
<1>6. both = {} <=> NodesOf(g) \cap EdgesOf(g) = {}
  OBVIOUS
<1>7. /\ sources = {} <=> \A e \in EdgesOf(g) : g.edges[e].source \in NodesOf(g)
      /\ targets = {} <=> \A e \in EdgesOf(g) : g.edges[e].target \in NodesOf(g)
  OBVIOUS
<1>8. purpose = {} <=> g.purpose \in NodesOf(g)
  OBVIOUS
<1>9. directed = {} <=> \A e \in ScopeEdges(g) : g.edges[e].direction = "none"
  OBVIOUS
<1>10. none = {} <=> \A n \in NodesOf(g) \ {g.purpose} : Cardinality(ScopeParents(g, n)) # 0
  OBVIOUS
<1>11. lost = {} <=> \A n \in NodesOf(g) : Lineage(g, n) = "reached"
  OBVIOUS
<1> HIDE DEF both, sources, targets, purpose, many, directed, none, lost
<1> QED
  BY <1>4, <1>5, <1>6, <1>7, <1>8, <1>9, <1>10, <1>11

\* In a set of nodes that scope does not lead into from the purpose, no lineage gets there.
LEMMA OutsideIsLost ==
    ASSUME NEW g, NodesOf(g) \subseteq Int, IsFiniteSet(NodesOf(g)),
           NEW S, g.purpose \in S, ScopeClosed(g, S), NEW n \in NodesOf(g), n \notin S
    PROVE  Lineage(g, n) # "reached"
<1> DEFINE Left(seen) == Cardinality(NodesOf(g) \ seen)
           T == {k \in Nat : \A seen \in SUBSET Int : \A m \in NodesOf(g) \ S : Left(seen) = k => WalkFrom(g, m, seen) # "reached"}
<1>1. ASSUME NEW k \in Nat, k = 0 \/ k - 1 \in T PROVE k \in T
  <2> SUFFICES ASSUME NEW seen \in SUBSET Int, NEW m \in NodesOf(g) \ S, Left(seen) = k
               PROVE  WalkFrom(g, m, seen) # "reached"
    OBVIOUS
  <2>1. WalkFrom(g, m, seen) = IF m = g.purpose THEN "reached"
                                  ELSE IF m \in seen THEN "scope-cycle"
                                  ELSE IF Single(g, m) /\ Parent(g, m) \in NodesOf(g) THEN WalkFrom(g, Parent(g, m), seen \cup {m})
                                  ELSE "scope-does-not-reach-purpose"
    BY WalkIs
  <2>2. CASE m \notin seen /\ Single(g, m) /\ Parent(g, m) \in NodesOf(g)
    <3>1. Left(seen \cup {m}) = Left(seen) - 1
      <4>1. IsFiniteSet(NodesOf(g) \ seen)
        BY FS_Subset
      <4>2. NodesOf(g) \ (seen \cup {m}) = (NodesOf(g) \ seen) \ {m} /\ m \in NodesOf(g) \ seen
        BY <2>2
      <4>3. Cardinality((NodesOf(g) \ seen) \ {m}) = Cardinality(NodesOf(g) \ seen) - 1
        BY <4>1, <4>2, FS_RemoveElement
      <4> QED
        BY <4>2, <4>3
    <3>2. Left(seen \cup {m}) \in Nat
      <4>1. IsFiniteSet(NodesOf(g) \ (seen \cup {m}))
        BY FS_Subset
      <4> QED
        BY <4>1, FS_CardinalityType
    <3>3. k - 1 \in T
      BY <1>1, <3>1, <3>2
    <3>4. Parent(g, m) \notin S
      <4>1. PICK e \in ScopeParents(g, m) : Parent(g, m) = g.edges[e].target
        <5>1. ScopeParents(g, m) # {}
          BY <2>2, FS_EmptySet DEF Single
        <5> QED
          BY <5>1 DEF Parent
      <4> QED
        BY <4>1 DEF ScopeClosed, ScopeParents
    <3>5. WalkFrom(g, Parent(g, m), seen \cup {m}) # "reached"
      <4>1. seen \cup {m} \in SUBSET Int
        OBVIOUS
      <4> HIDE DEF Left
      <4> QED
        BY <2>2, <3>1, <3>3, <3>4, <4>1
    <3> QED
      BY <2>1, <2>2, <3>5
  <2> QED
    BY <2>1, <2>2
<1> HIDE DEF T
<1>2. Nat \subseteq T
  <2>1. 0 \in T
    BY <1>1
  <2>2. \A k \in Nat : k \in T => k + 1 \in T
    <3> SUFFICES ASSUME NEW k \in Nat, k \in T PROVE k + 1 \in T
      OBVIOUS
    <3>1. k + 1 \in Nat /\ (k + 1) - 1 = k
      OBVIOUS
    <3> QED
      BY <1>1, <3>1
  <2> QED
    BY <2>1, <2>2, Induction
<1>3. WalkFrom(g, n, {}) # "reached"
  <2>1. Left({}) \in Nat
    BY FS_CardinalityType
  <2> QED
    BY <1>2, <2>1 DEF T
<1> QED
  BY <1>3, LineageIs

\* If each node but the purpose has one parent, there are as many scope edges as such nodes.
LEMMA EdgesAreCounted ==
    ASSUME NEW g, IsFiniteSet(NodesOf(g)), IsFiniteSet(EdgesOf(g)), g.purpose \in NodesOf(g),
           \A e \in ScopeEdges(g) : g.edges[e].source \in NodesOf(g) \ {g.purpose}
    PROVE  /\ (\A n \in NodesOf(g) \ {g.purpose} : Single(g, n)) => Cardinality(ScopeEdges(g)) = Cardinality(NodesOf(g)) - 1
           /\ (\A n \in NodesOf(g) \ {g.purpose} : ScopeParents(g, n) # {}) /\ Cardinality(ScopeEdges(g)) = Cardinality(NodesOf(g)) - 1
                 => \A n \in NodesOf(g) \ {g.purpose} : Single(g, n)
<1> DEFINE E == ScopeEdges(g)
           N == NodesOf(g) \ {g.purpose}
           from == [e \in E |-> g.edges[e].source]
<1>1. IsFiniteSet(E) /\ IsFiniteSet(N) /\ Cardinality(N) = Cardinality(NodesOf(g)) - 1
  <2>1. E \in SUBSET EdgesOf(g)
    BY DEF ScopeEdges
  <2>2. IsFiniteSet(E)
    BY <2>1, FS_Subset
  <2> QED
    BY <2>2, FS_RemoveElement
<1>2. from \in [E -> N] /\ \A n \in N : ScopeParents(g, n) = {e \in E : from[e] = n}
  BY DEF ScopeParents
<1>3. ASSUME \A n \in N : ScopeParents(g, n) # {}
      PROVE  from \in Surjection(E, N)
  <2>1. \A n \in N : \E e \in E : from[e] = n
    BY <1>2, <1>3
  <2> HIDE DEF E, N, from
  <2> QED
    BY <1>2, <2>1 DEF Surjection
<1>4. (\A n \in N : Single(g, n)) <=> (\A n \in N : ScopeParents(g, n) # {}) /\ from \in Injection(E, N)
  <2>1. \A n \in N : IsFiniteSet(ScopeParents(g, n))
    <3> SUFFICES ASSUME NEW n \in N PROVE IsFiniteSet(ScopeParents(g, n))
      OBVIOUS
    <3>1. ScopeParents(g, n) \in SUBSET E
      BY <1>2
    <3> HIDE DEF E, N, from
    <3> QED
      BY <1>1, <3>1, FS_Subset
  <2>2. \A n \in N : Single(g, n) <=> \E e : ScopeParents(g, n) = {e}
    BY <2>1, FS_Singleton DEF Single
  <2> HIDE DEF E, N, from
  <2>3. from \in Injection(E, N) <=> \A d, e \in E : from[d] = from[e] => d = e
    BY <1>2 DEF Injection, IsInjective
  <2>4. ASSUME \A n \in N : \E e : ScopeParents(g, n) = {e}, NEW d \in E, NEW e \in E, from[d] = from[e]
        PROVE  d = e
    <3>1. from[e] \in N /\ d \in ScopeParents(g, from[e]) /\ e \in ScopeParents(g, from[e])
      BY <1>2, <2>4
    <3>2. PICK one : ScopeParents(g, from[e]) = {one}
      BY <2>4, <3>1
    <3> QED
      BY <3>1, <3>2
  <2>5. ASSUME NEW n \in N, ScopeParents(g, n) # {}, \A d, e \in E : from[d] = from[e] => d = e
        PROVE  \E e : ScopeParents(g, n) = {e}
    <3>1. PICK e : e \in ScopeParents(g, n)
      BY <2>5
    <3>2. \A d \in ScopeParents(g, n) : d = e
      BY <1>2, <2>5, <3>1
    <3> QED
      BY <3>1, <3>2
  <2>6. ASSUME NEW n \in N, NEW e, ScopeParents(g, n) = {e} PROVE ScopeParents(g, n) # {}
    BY <2>6
  <2> QED
    BY <2>2, <2>3, <2>4, <2>5, <2>6
<1> HIDE DEF E, N, from
<1>5. (\A n \in N : ScopeParents(g, n) # {}) => (Cardinality(N) = Cardinality(E) <=> from \in Injection(E, N))
  BY <1>1, <1>3, FS_Surjection
<1> QED
  BY <1>1, <1>4, <1>5 DEF E, N

LEMMA ValidIsTree ==
    ASSUME NEW g, NodesOf(g) \subseteq Int, IsFiniteSet(NodesOf(g)), IsFiniteSet(EdgesOf(g)), IsValid(g)
    PROVE  ScopeTree(g)
<1>1. /\ NodesOf(g) \cap EdgesOf(g) = {}
      /\ \A e \in EdgesOf(g) : g.edges[e].source \in NodesOf(g) /\ g.edges[e].target \in NodesOf(g)
      /\ g.purpose \in NodesOf(g)
      /\ \A e \in ScopeEdges(g) : ~(Cardinality(ScopeParents(g, g.edges[e].source)) > 1)
      /\ \A e \in ScopeEdges(g) : g.edges[e].direction = "none"
      /\ ScopeParents(g, g.purpose) = {}
      /\ \A n \in NodesOf(g) \ {g.purpose} : Cardinality(ScopeParents(g, n)) # 0
      /\ \A n \in NodesOf(g) : Lineage(g, n) = "reached"
  BY ValidIs
<1>2. \A e \in ScopeEdges(g) : e \in EdgesOf(g) /\ e \in ScopeParents(g, g.edges[e].source)
  BY DEF ScopeEdges, ScopeParents
<1>3. \A n \in NodesOf(g) \ {g.purpose} : Single(g, n)
  <2> SUFFICES ASSUME NEW n \in NodesOf(g) \ {g.purpose} PROVE Single(g, n)
    OBVIOUS
  <2>1. ScopeParents(g, n) \in SUBSET EdgesOf(g)
    BY DEF ScopeParents, ScopeEdges
  <2>2. IsFiniteSet(ScopeParents(g, n)) /\ Cardinality(ScopeParents(g, n)) \in Nat
    BY <2>1, FS_Subset, FS_CardinalityType
  <2>3. Cardinality(ScopeParents(g, n)) # 0
    BY <1>1
  <2>4. PICK e : e \in ScopeParents(g, n)
    BY <2>2, <2>3, FS_EmptySet
  <2>5. ~(Cardinality(ScopeParents(g, n)) > 1)
    BY <1>1, <2>4 DEF ScopeParents
  <2> QED
    BY <2>2, <2>3, <2>5 DEF Single
<1>4. \A e \in ScopeEdges(g) : g.edges[e].source \in NodesOf(g) \ {g.purpose}
  BY <1>1, <1>2
<1>5. Cardinality(ScopeEdges(g)) = Cardinality(NodesOf(g)) - 1
  BY <1>1, <1>3, <1>4, EdgesAreCounted
<1>6. ASSUME NEW S \in SUBSET NodesOf(g), g.purpose \in S, ScopeClosed(g, S) PROVE S = NodesOf(g)
  BY <1>1, <1>6, OutsideIsLost
<1> QED
  BY <1>1, <1>5, <1>6 DEF ScopeTree

LEMMA TreeIsValid ==
    ASSUME NEW g, NodesOf(g) \subseteq Int, IsFiniteSet(NodesOf(g)), IsFiniteSet(EdgesOf(g)), ScopeTree(g)
    PROVE  IsValid(g)
<1>1. /\ NodesOf(g) \cap EdgesOf(g) = {}
      /\ \A e \in EdgesOf(g) : g.edges[e].source \in NodesOf(g) /\ g.edges[e].target \in NodesOf(g)
      /\ g.purpose \in NodesOf(g)
      /\ \A e \in ScopeEdges(g) : g.edges[e].direction = "none"
      /\ Cardinality(ScopeEdges(g)) = Cardinality(NodesOf(g)) - 1
  BY DEF ScopeTree
<1>2. ScopeEdges(g) \subseteq EdgesOf(g)
  BY DEF ScopeEdges
<1>3. \A n \in NodesOf(g) \ {g.purpose} : ScopeParents(g, n) # {}
  <2> DEFINE S == {n \in NodesOf(g) : n = g.purpose \/ ScopeParents(g, n) # {}}
  <2>1. g.purpose \in S /\ ScopeClosed(g, S)
    <3> SUFFICES ASSUME NEW e \in ScopeEdges(g) PROVE g.edges[e].source \in S
      BY <1>1 DEF ScopeClosed
    <3>1. e \in ScopeParents(g, g.edges[e].source)
      BY DEF ScopeParents
    <3> QED
      BY <1>1, <1>2, <3>1
  <2>2. S = NodesOf(g)
    <3>1. S \in SUBSET NodesOf(g)
      OBVIOUS
    <3> HIDE DEF S
    <3> QED
      BY <2>1, <3>1 DEF ScopeTree
  <2> QED
    BY <2>2
<1>4. /\ \A e \in ScopeEdges(g) : g.edges[e].source \in NodesOf(g) \ {g.purpose}
      /\ \A n \in NodesOf(g) \ {g.purpose} : Single(g, n)
  <2> DEFINE E == ScopeEdges(g)
             N == NodesOf(g) \ {g.purpose}
             up == [n \in N |-> CHOOSE e \in ScopeParents(g, n) : TRUE]
  <2>1. IsFiniteSet(E) /\ IsFiniteSet(N) /\ Cardinality(N) = Cardinality(E)
    <3>1. IsFiniteSet(E)
      <4>1. E \in SUBSET EdgesOf(g)
        BY <1>2
      <4> QED
        BY <4>1, FS_Subset
    <3> QED
      BY <1>1, <3>1, FS_RemoveElement
  <2>2. \A n \in N : up[n] \in E /\ g.edges[up[n]].source = n
    <3> SUFFICES ASSUME NEW n \in N PROVE up[n] \in E /\ g.edges[up[n]].source = n
      OBVIOUS
    <3>1. up[n] \in ScopeParents(g, n)
      BY <1>3
    <3> QED
      BY <3>1 DEF ScopeParents
  <2>3. up \in [N -> E]
    BY <2>2
  <2> HIDE DEF E, N, up
  <2>4. up \in Injection(N, E)
    BY <2>2, <2>3 DEF Injection, IsInjective
  <2>5. up \in Surjection(N, E)
    BY <2>1, <2>4, FS_Injection
  <2>6. \A e \in E : g.edges[e].source \in N
    <3> SUFFICES ASSUME NEW e \in E PROVE g.edges[e].source \in N
      OBVIOUS
    <3>1. PICK n \in N : up[n] = e
      BY <2>5 DEF Surjection
    <3> QED
      BY <2>2, <3>1
  <2> QED
    BY <1>1, <1>3, <2>6, EdgesAreCounted DEF E, N
<1>5. ScopeParents(g, g.purpose) = {}
  BY <1>4 DEF ScopeParents
<1>6. \A n \in NodesOf(g) : Lineage(g, n) = "reached"
  <2> DEFINE Good(n, A) == \A seen \in SUBSET Int : seen \cap A = {} => WalkFrom(g, n, seen) = "reached"
             Rooted(F) == \A n \in F : \E A \in SUBSET F : Good(n, A)
             S == {n \in NodesOf(g) : \E F \in SUBSET NodesOf(g) : n \in F /\ Rooted(F)}
  <2>1. \A n \in NodesOf(g) : \A seen \in SUBSET Int :
          WalkFrom(g, n, seen) = IF n = g.purpose THEN "reached"
                                 ELSE IF n \in seen THEN "scope-cycle"
                                 ELSE IF Single(g, n) /\ Parent(g, n) \in NodesOf(g) THEN WalkFrom(g, Parent(g, n), seen \cup {n})
                                 ELSE "scope-does-not-reach-purpose"
    BY WalkIs
  <2>2. g.purpose \in S
    <3>1. Good(g.purpose, {})
      BY <1>1, <2>1
    <3> HIDE DEF Good
    <3>2. Rooted({g.purpose})
      BY <3>1
    <3>3. {g.purpose} \in SUBSET NodesOf(g) /\ g.purpose \in {g.purpose}
      BY <1>1
    <3> HIDE DEF Rooted
    <3> QED
      BY <1>1, <3>2, <3>3
  <2>3. ASSUME NEW e \in ScopeEdges(g), g.edges[e].target \in S
        PROVE  g.edges[e].source \in S
    <3> DEFINE n == g.edges[e].source
               t == g.edges[e].target
    <3>1. n \in NodesOf(g) \ {g.purpose} /\ Single(g, n) /\ t \in NodesOf(g)
      BY <1>1, <1>2, <1>4
    <3>2. Parent(g, n) = t
      <4>1. e \in ScopeParents(g, n)
        BY DEF ScopeParents
      <4>2. IsFiniteSet(ScopeParents(g, n))
        <5>1. ScopeParents(g, n) \in SUBSET EdgesOf(g)
          BY DEF ScopeParents, ScopeEdges
        <5> QED
          BY <5>1, FS_Subset
      <4>3. PICK d : ScopeParents(g, n) = {d}
        BY <3>1, <4>2, FS_Singleton DEF Single
      <4> QED
        BY <4>1, <4>3 DEF Parent
    <3> HIDE DEF n, t
    <3>3. PICK F \in SUBSET NodesOf(g) : t \in F /\ Rooted(F)
      BY <2>3 DEF t
    <3>4. CASE n \in F
      <4> HIDE DEF Rooted
      <4> QED
        BY <3>1, <3>3, <3>4 DEF n
    <3>5. CASE n \notin F
      <4>1. PICK A \in SUBSET F : Good(t, A)
        BY <3>3
      <4>2. Good(n, A \cup {n})
        <5> SUFFICES ASSUME NEW seen \in SUBSET Int, seen \cap (A \cup {n}) = {} PROVE WalkFrom(g, n, seen) = "reached"
          OBVIOUS
        <5>1. WalkFrom(g, n, seen) = WalkFrom(g, t, seen \cup {n})
          BY <2>1, <3>1, <3>2
        <5>2. seen \cup {n} \in SUBSET Int /\ (seen \cup {n}) \cap A = {}
          BY <3>1, <3>5
        <5> QED
          BY <4>1, <5>1, <5>2
      <4> HIDE DEF Good
      <4>3. Rooted(F \cup {n})
        <5> SUFFICES ASSUME NEW m \in F \cup {n} PROVE \E B \in SUBSET (F \cup {n}) : Good(m, B)
          OBVIOUS
        <5>1. CASE m = n
          <6>1. A \cup {n} \in SUBSET (F \cup {n})
            OBVIOUS
          <6> QED
            BY <4>2, <5>1, <6>1
        <5>2. CASE m \in F
          <6>1. PICK B \in SUBSET F : Good(m, B)
            BY <3>3, <5>2
          <6> QED
            BY <6>1
        <5> QED
          BY <5>1, <5>2
      <4>4. F \cup {n} \in SUBSET NodesOf(g) /\ n \in F \cup {n}
        BY <3>1
      <4> HIDE DEF Rooted
      <4> QED
        BY <3>1, <4>3, <4>4 DEF n
    <3> QED
      BY <3>4, <3>5
  <2>4. S = NodesOf(g)
    <3>1. S \in SUBSET NodesOf(g) /\ ScopeClosed(g, S)
      <4> HIDE DEF Rooted
      <4>1. S \in SUBSET NodesOf(g)
        OBVIOUS
      <4> HIDE DEF S
      <4> QED
        BY <2>3, <4>1 DEF ScopeClosed
    <3> HIDE DEF S
    <3> QED
      BY <2>2, <3>1 DEF ScopeTree
  <2>5. ASSUME NEW n \in NodesOf(g) PROVE WalkFrom(g, n, {}) = "reached"
    <3>1. PICK F \in SUBSET NodesOf(g) : n \in F /\ Rooted(F)
      <4> HIDE DEF Rooted
      <4> QED
        BY <2>4
    <3>2. PICK A \in SUBSET F : Good(n, A)
      <4> HIDE DEF Good
      <4> QED
        BY <3>1
    <3>3. {} \in SUBSET Int /\ {} \cap A = {}
      OBVIOUS
    <3> QED
      BY <3>2, <3>3
  <2> QED
    BY <2>5, LineageIs
<1>7. /\ \A e \in ScopeEdges(g) : ~(Cardinality(ScopeParents(g, g.edges[e].source)) > 1)
      /\ \A n \in NodesOf(g) \ {g.purpose} : Cardinality(ScopeParents(g, n)) # 0
  BY <1>4 DEF Single
<1> QED
  BY <1>1, <1>5, <1>6, <1>7, ValidIs

\* A graph is valid exactly when its scope edges are a tree below the purpose.
THEOREM ValidityIsATree ==
    ASSUME NEW g, NodesOf(g) \subseteq Int, IsFiniteSet(NodesOf(g)), IsFiniteSet(EdgesOf(g))
    PROVE  IsValid(g) <=> ScopeTree(g)
BY ValidIsTree, TreeIsValid

-----------------------------------------------------------------------------
(* Sequences and their elements. *)

LEMMA SetOf ==
    ASSUME NEW S
    PROVE  /\ ToSet(<<>>) = {} /\ \A x : ToSet(<<x>>) = {x}
           /\ \A q \in Seq(S) : ToSet(q) \subseteq S
           /\ \A q \in Seq(S) : q # <<>> => /\ Head(q) \in S /\ Tail(q) \in Seq(S) /\ Len(q) # 0
                                            /\ Len(Tail(q)) = Len(q) - 1 /\ ToSet(q) = {Head(q)} \cup ToSet(Tail(q))
           /\ \A q, r \in Seq(S) : q \o r \in Seq(S) /\ ToSet(q \o r) = ToSet(q) \cup ToSet(r)
           /\ \A q \in Seq(S), x \in S : Append(q, x) \in Seq(S) /\ ToSet(Append(q, x)) = ToSet(q) \cup {x}
<1>1. ToSet(<<>>) = {} /\ \A x : ToSet(<<x>>) = {x}
  <2>1. DOMAIN <<>> = {}
    OBVIOUS
  <2>2. \A x : DOMAIN <<x>> = {1} /\ <<x>>[1] = x
    OBVIOUS
  <2> QED
    BY <2>1, <2>2 DEF ToSet
<1>2. \A q \in Seq(S) : q \in [1 .. Len(q) -> S] /\ DOMAIN q = 1 .. Len(q) /\ Len(q) \in Nat
  BY LenProperties
<1>3. \A q \in Seq(S) : ToSet(q) = {q[i] : i \in 1 .. Len(q)} /\ ToSet(q) \subseteq S
  BY <1>2 DEF ToSet
<1>4. ASSUME NEW q \in Seq(S), q # <<>>
      PROVE  /\ Head(q) \in S /\ Tail(q) \in Seq(S) /\ Len(q) # 0
             /\ Len(Tail(q)) = Len(q) - 1 /\ ToSet(q) = {Head(q)} \cup ToSet(Tail(q))
  <2>1. /\ Head(q) \in S /\ Tail(q) \in Seq(S) /\ Len(Tail(q)) = Len(q) - 1
        /\ \A i \in 1 .. Len(Tail(q)) : Tail(q)[i] = q[i + 1]
    BY <1>4, HeadTailProperties
  <2>2. Head(q) = q[1] /\ Len(q) \in Nat \ {0}
    BY <1>4, EmptySeq
  <2>3. ASSUME NEW x \in ToSet(q) PROVE x = Head(q) \/ x \in ToSet(Tail(q))
    <3>1. PICK i \in 1 .. Len(q) : x = q[i]
      BY <1>3, <2>3
    <3>2. CASE i = 1
      BY <2>2, <3>1, <3>2
    <3>3. CASE i # 1
      <4>1. i - 1 \in 1 .. Len(Tail(q)) /\ Tail(q)[i - 1] = q[i]
        BY <2>1, <2>2, <3>1, <3>3
      <4> QED
        BY <1>3, <2>1, <3>1, <4>1
    <3> QED
      BY <3>2, <3>3
  <2>4. ASSUME NEW x \in ToSet(Tail(q)) PROVE x \in ToSet(q)
    <3>1. PICK i \in 1 .. Len(Tail(q)) : x = Tail(q)[i]
      BY <1>3, <2>1, <2>4
    <3>2. i + 1 \in 1 .. Len(q) /\ x = q[i + 1]
      BY <2>1, <2>2, <3>1
    <3> QED
      BY <1>3, <3>2
  <2>5. Head(q) \in ToSet(q)
    BY <1>3, <2>2
  <2> QED
    BY <2>1, <2>2, <2>3, <2>4, <2>5
<1>5. ASSUME NEW q \in Seq(S), NEW r \in Seq(S)
      PROVE  q \o r \in Seq(S) /\ ToSet(q \o r) = ToSet(q) \cup ToSet(r)
  <2>1. /\ q \o r \in Seq(S) /\ Len(q \o r) = Len(q) + Len(r)
        /\ \A i \in 1 .. Len(q) + Len(r) : (q \o r)[i] = IF i <= Len(q) THEN q[i] ELSE r[i - Len(q)]
    BY ConcatProperties
  <2>2. ASSUME NEW x \in ToSet(q \o r) PROVE x \in ToSet(q) \cup ToSet(r)
    <3>1. PICK i \in 1 .. Len(q) + Len(r) : x = (q \o r)[i]
      BY <1>3, <2>1, <2>2
    <3>2. CASE i <= Len(q)
      BY <1>2, <1>3, <2>1, <3>1, <3>2
    <3>3. CASE ~(i <= Len(q))
      <4>1. i - Len(q) \in 1 .. Len(r) /\ x = r[i - Len(q)]
        BY <1>2, <2>1, <3>1, <3>3
      <4> QED
        BY <1>3, <4>1
    <3> QED
      BY <3>2, <3>3
  <2>3. ASSUME NEW x \in ToSet(q) PROVE x \in ToSet(q \o r)
    <3>1. PICK i \in 1 .. Len(q) : x = q[i]
      BY <1>3, <2>3
    <3>2. i \in 1 .. Len(q) + Len(r) /\ x = (q \o r)[i]
      BY <1>2, <2>1, <3>1
    <3> QED
      BY <1>3, <2>1, <3>2
  <2>4. ASSUME NEW x \in ToSet(r) PROVE x \in ToSet(q \o r)
    <3>1. PICK i \in 1 .. Len(r) : x = r[i]
      BY <1>3, <2>4
    <3>2. i + Len(q) \in 1 .. Len(q) + Len(r) /\ x = (q \o r)[i + Len(q)]
      BY <1>2, <2>1, <3>1
    <3> QED
      BY <1>3, <2>1, <3>2
  <2> QED
    BY <2>1, <2>2, <2>3, <2>4
<1>6. ASSUME NEW q \in Seq(S), NEW x \in S
      PROVE  Append(q, x) \in Seq(S) /\ ToSet(Append(q, x)) = ToSet(q) \cup {x}
  <2>1. <<x>> \in Seq(S) /\ Append(q, x) = q \o <<x>>
    BY AppendIsConcat
  <2> QED
    BY <1>1, <1>5, <2>1
<1> QED
  BY <1>1, <1>3, <1>4, <1>5, <1>6

LEMMA SeqOfSet ==
    ASSUME NEW S, NEW U, NEW q \in Seq(S), ToSet(q) \subseteq U
    PROVE  q \in Seq(U)
<1>1. q \in [1 .. Len(q) -> S] /\ Len(q) \in Nat /\ DOMAIN q = 1 .. Len(q)
  BY LenProperties
<1>2. \A i \in 1 .. Len(q) : q[i] \in U
  BY <1>1 DEF ToSet
<1>3. q \in [1 .. Len(q) -> U]
  BY <1>1, <1>2
<1>4. [1 .. Len(q) -> U] \in {[1 .. n -> U] : n \in Nat}
  BY <1>1
<1>5. Seq(U) = UNION {[1 .. n -> U] : n \in Nat}
  BY SeqDef, Zenon
<1>6. q \in UNION {[1 .. n -> U] : n \in Nat}
  BY <1>3, <1>4, Zenon
<1> QED
  BY <1>5, <1>6, Zenon

-----------------------------------------------------------------------------
(* The traversals of the scope. *)

Queued == [queue : Seq(Int), seen : Seq(Int)]
Visit(step) ==
    CHOOSE visit : visit = [at \in Queued |->
            IF at.queue = <<>> THEN at.seen
            ELSE IF Head(at.queue) \in ToSet(at.seen) THEN visit[[queue |-> Tail(at.queue), seen |-> at.seen]]
            ELSE visit[[queue |-> Tail(at.queue) \o step[Head(at.queue)], seen |-> Append(at.seen, Head(at.queue))]]]
VisitFrom(step, queue, seen) == Visit(step)[[queue |-> queue, seen |-> seen]]

LEMMA VisitedIs == ASSUME NEW start, NEW step PROVE Visited(start, step) = VisitFrom(step, start, <<>>)
BY DEF Visited, Visit, VisitFrom, Queued

LEMMA VisitIs ==
    ASSUME NEW step \in [Int -> Seq(Int)], NEW queue \in Seq(Int), NEW seen \in Seq(Int)
    PROVE  VisitFrom(step, queue, seen) =
                IF queue = <<>> THEN seen
                ELSE IF Head(queue) \in ToSet(seen) THEN VisitFrom(step, Tail(queue), seen)
                ELSE VisitFrom(step, Tail(queue) \o step[Head(queue)], Append(seen, Head(queue)))
<1> DEFINE done == {at \in Queued : at.queue = <<>>}
           out  == [at \in Queued |-> at.seen]
           Goes(at) == IF Head(at.queue) \in ToSet(at.seen) THEN [queue |-> Tail(at.queue), seen |-> at.seen]
                       ELSE [queue |-> Tail(at.queue) \o step[Head(at.queue)], seen |-> Append(at.seen, Head(at.queue))]
           next == [at \in Queued |-> IF at \in done THEN at ELSE Goes(at)]
           Body(visit, at) ==
               IF at.queue = <<>> THEN at.seen
               ELSE IF Head(at.queue) \in ToSet(at.seen) THEN visit[[queue |-> Tail(at.queue), seen |-> at.seen]]
               ELSE visit[[queue |-> Tail(at.queue) \o step[Head(at.queue)], seen |-> Append(at.seen, Head(at.queue))]]
           Def(visit) == [at \in Queued |-> Body(visit, at)]
<1>1. next \in [Queued -> Queued]
  <2> SUFFICES ASSUME NEW at \in Queued, at \notin done PROVE Goes(at) \in Queued
    OBVIOUS
  <2>1. at.queue \in Seq(Int) /\ at.seen \in Seq(Int) /\ at.queue # <<>>
    BY DEF Queued
  <2>2. Head(at.queue) \in Int /\ Tail(at.queue) \in Seq(Int)
    BY <2>1, SetOf
  <2>3. step[Head(at.queue)] \in Seq(Int)
    BY <2>2
  <2>4. Tail(at.queue) \o step[Head(at.queue)] \in Seq(Int) /\ Append(at.seen, Head(at.queue)) \in Seq(Int)
    BY <2>1, <2>2, <2>3, SetOf
  <2> QED
    BY <2>2, <2>4 DEF Queued
<1>2. PICK f : f = [at \in Queued |-> IF at \in done THEN out[at] ELSE f[next[at]]]
  <2> HIDE DEF done, out, next, Goes, Body, Def
  <2>1. \E f : Solves(f, Queued, done, out, next)
    BY <1>1, TailRecursion
  <2> QED
    BY <2>1 DEF Solves
<1>3. ASSUME NEW at \in Queued PROVE f[at] = Body(f, at)
  <2>1. f[at] = IF at \in done THEN out[at] ELSE f[next[at]]
    <3> HIDE DEF done, out, next
    <3> QED
      BY <1>2
  <2>2. CASE at.queue = <<>>
    BY <2>1, <2>2
  <2>3. CASE at.queue # <<>>
    <3>1. f[at] = f[Goes(at)]
      BY <2>1, <2>3
    <3> QED
      BY <2>3, <3>1
  <2> QED
    BY <2>2, <2>3
<1>4. f = Def(f)
  <2>1. f = [at \in Queued |-> f[at]]
    <3> HIDE DEF done, out, next
    <3> QED
      BY <1>2
  <2> HIDE DEF Body
  <2> QED
    BY <1>3, <2>1
<1>5. Visit(step) = CHOOSE x : x = Def(x)
  BY DEF Visit
<1>6. Visit(step) = Def(Visit(step))
  <2> HIDE DEF Def
  <2> QED
    BY <1>4, <1>5
<1>7. [queue |-> queue, seen |-> seen] \in Queued
  BY DEF Queued
<1>8. Visit(step)[[queue |-> queue, seen |-> seen]] = Body(Visit(step), [queue |-> queue, seen |-> seen])
  <2> HIDE DEF Body
  <2> QED
    BY <1>6, <1>7
<1>9. [queue |-> queue, seen |-> seen].queue = queue /\ [queue |-> queue, seen |-> seen].seen = seen
  OBVIOUS
<1> QED
  BY <1>8, <1>9 DEF VisitFrom

\* All that is queued, and nothing else, is visited, with what it leads to, on any graph.
LEMMA VisitedAre ==
    ASSUME NEW step \in [Int -> Seq(Int)], NEW U, U \subseteq Int, IsFiniteSet(U),
           \A x \in U : ToSet(step[x]) \subseteq U, NEW start \in Seq(U)
    PROVE  /\ Visited(start, step) \in Seq(U)
           /\ ToSet(start) \subseteq ToSet(Visited(start, step))
           /\ \A x \in ToSet(Visited(start, step)) : ToSet(step[x]) \subseteq ToSet(Visited(start, step))
           /\ \A S : ToSet(start) \subseteq S /\ (\A x \in S \cap U : ToSet(step[x]) \subseteq S)
                        => ToSet(Visited(start, step)) \subseteq S
<1> DEFINE Met(q, s) == \A x \in ToSet(s) : ToSet(step[x]) \subseteq ToSet(s) \cup ToSet(q)
           Whole(q, s, r) ==
               /\ r \in Seq(U) /\ ToSet(q) \cup ToSet(s) \subseteq ToSet(r)
               /\ \A x \in ToSet(r) : ToSet(step[x]) \subseteq ToSet(r)
               /\ \A S : ToSet(q) \cup ToSet(s) \subseteq S /\ (\A x \in S \cap U : ToSet(step[x]) \subseteq S) => ToSet(r) \subseteq S
           Left(s) == Cardinality(U \ ToSet(s))
           Ends(q, s) == Whole(q, s, VisitFrom(step, q, s))
           T == {k \in Nat : \A s, q \in Seq(U) : Met(q, s) /\ Left(s) = k => Ends(q, s)}
           V(k) == {l \in Nat : \A s, q \in Seq(U) : Met(q, s) /\ Left(s) = k /\ Len(q) = l => Ends(q, s)}
<1>1. ASSUME NEW q \in Seq(U), NEW s \in Seq(U)
      PROVE  VisitFrom(step, q, s) =
                IF q = <<>> THEN s
                ELSE IF Head(q) \in ToSet(s) THEN VisitFrom(step, Tail(q), s)
                ELSE VisitFrom(step, Tail(q) \o step[Head(q)], Append(s, Head(q)))
  <2>1. q \in Seq(Int) /\ s \in Seq(Int)
    BY SeqMonotonic
  <2> QED
    BY <2>1, VisitIs
<1>2. ASSUME NEW k \in Nat, k = 0 \/ k - 1 \in T, NEW l \in Nat, l = 0 \/ l - 1 \in V(k) PROVE l \in V(k)
  <2> SUFFICES ASSUME NEW s \in Seq(U), NEW q \in Seq(U), Met(q, s), Left(s) = k, Len(q) = l PROVE Ends(q, s)
    OBVIOUS
  <2>1. CASE q = <<>>
    <3>1. VisitFrom(step, q, s) = s /\ ToSet(q) = {}
      BY <1>1, <2>1, SetOf
    <3>2. Whole(q, s, s)
      BY <3>1
    <3> QED
      BY <3>1, <3>2
  <2>2. CASE q # <<>> /\ Head(q) \in ToSet(s)
    <3>1. VisitFrom(step, q, s) = VisitFrom(step, Tail(q), s)
      BY <1>1, <2>2
    <3>2. /\ Tail(q) \in Seq(U) /\ Len(Tail(q)) = l - 1 /\ l # 0 /\ ToSet(q) = {Head(q)} \cup ToSet(Tail(q))
      BY <2>2, SetOf
    <3>3. ToSet(q) \cup ToSet(s) = ToSet(Tail(q)) \cup ToSet(s)
      BY <2>2, <3>2
    <3>4. Met(Tail(q), s)
      BY <3>3
    <3> HIDE DEF Met, Left, Ends
    <3>5. Ends(Tail(q), s)
      BY <1>2, <3>2, <3>4
    <3> USE DEF Ends
    <3> HIDE DEF Whole
    <3>6. Whole(Tail(q), s, VisitFrom(step, q, s))
      BY <3>1, <3>5
    <3> QED
      BY <3>3, <3>6 DEF Whole
  <2>3. CASE q # <<>> /\ Head(q) \notin ToSet(s)
    <3> DEFINE h  == Head(q)
               q1 == Tail(q) \o step[h]
               s1 == Append(s, h)
    <3>1. VisitFrom(step, q, s) = VisitFrom(step, q1, s1)
      BY <1>1, <2>3
    <3>2. /\ Tail(q) \in Seq(U) /\ h \in U /\ ToSet(q) = {h} \cup ToSet(Tail(q)) /\ h \notin ToSet(s)
      BY <2>3, SetOf
    <3> HIDE DEF h, q1, s1
    <3>3. step[h] \in Seq(U)
      <4>1. step[h] \in Seq(Int) /\ ToSet(step[h]) \subseteq U
        BY <3>2
      <4> QED
        BY <4>1, SeqOfSet
    <3>4. /\ q1 \in Seq(U) /\ s1 \in Seq(U)
          /\ ToSet(q1) = ToSet(Tail(q)) \cup ToSet(step[h]) /\ ToSet(s1) = ToSet(s) \cup {h}
      <4>1. /\ \A a, b \in Seq(U) : a \o b \in Seq(U) /\ ToSet(a \o b) = ToSet(a) \cup ToSet(b)
            /\ \A a \in Seq(U), x \in U : Append(a, x) \in Seq(U) /\ ToSet(Append(a, x)) = ToSet(a) \cup {x}
        BY SetOf
      <4>2. q1 \in Seq(U) /\ ToSet(q1) = ToSet(Tail(q)) \cup ToSet(step[h])
        BY <3>2, <3>3, <4>1 DEF q1
      <4> QED
        BY <3>2, <4>1, <4>2 DEF s1
    <3>5. Left(s1) = Left(s) - 1 /\ Left(s1) \in Nat
      <4>1. U \ ToSet(s1) = (U \ ToSet(s)) \ {h} /\ h \in U \ ToSet(s)
        BY <3>2, <3>4
      <4>2. IsFiniteSet(U \ ToSet(s)) /\ IsFiniteSet(U \ ToSet(s1))
        BY FS_Subset
      <4>3. Cardinality((U \ ToSet(s)) \ {h}) = Cardinality(U \ ToSet(s)) - 1
        BY <4>1, <4>2, FS_RemoveElement
      <4> QED
        BY <4>1, <4>2, <4>3, FS_CardinalityType
    <3>6. Met(q1, s1)
      BY <3>2, <3>4
    <3> HIDE DEF q1, s1, h, Met, Left, Ends
    <3>7. Ends(q1, s1)
      BY <1>2, <3>4, <3>5, <3>6
    <3> USE DEF Ends
    <3> HIDE DEF Whole
    <3>8. Whole(q1, s1, VisitFrom(step, q, s))
      BY <3>1, <3>7
    <3>9. \A S : ToSet(q) \cup ToSet(s) \subseteq S /\ (\A x \in S \cap U : ToSet(step[x]) \subseteq S)
                    => ToSet(q1) \cup ToSet(s1) \subseteq S
      BY <3>2, <3>4
    <3>10. ToSet(q) \cup ToSet(s) \subseteq ToSet(q1) \cup ToSet(s1)
      BY <3>2, <3>4
    <3> QED
      BY <3>8, <3>9, <3>10 DEF Whole
  <2> QED
    BY <2>1, <2>2, <2>3
<1> HIDE DEF Met, Left, Ends
<1>3. ASSUME NEW k \in Nat, k = 0 \/ k - 1 \in T PROVE k \in T
  <2>1. Nat \subseteq V(k)
    <3> HIDE DEF V, T
    <3>1. 0 \in V(k)
      BY <1>2, <1>3
    <3>2. \A l \in Nat : l \in V(k) => l + 1 \in V(k)
      <4> SUFFICES ASSUME NEW l \in Nat, l \in V(k) PROVE l + 1 \in V(k)
        OBVIOUS
      <4>1. l + 1 \in Nat /\ (l + 1) - 1 = l
        OBVIOUS
      <4> QED
        BY <1>2, <1>3, <4>1
    <3> QED
      BY <3>1, <3>2, Induction
  <2>2. \A q \in Seq(U) : Len(q) \in Nat
    BY LenProperties
  <2> QED
    BY <2>1, <2>2
<1>4. Nat \subseteq T
  <2> HIDE DEF T
  <2>1. 0 \in T
    BY <1>3
  <2>2. \A k \in Nat : k \in T => k + 1 \in T
    <3> SUFFICES ASSUME NEW k \in Nat, k \in T PROVE k + 1 \in T
      OBVIOUS
    <3>1. k + 1 \in Nat /\ (k + 1) - 1 = k
      OBVIOUS
    <3> QED
      BY <1>3, <3>1
  <2> QED
    BY <2>1, <2>2, Induction
<1>5. Ends(start, <<>>)
  <2>1. <<>> \in Seq(U) /\ ToSet(<<>>) = {}
    BY SetOf, EmptySeq
  <2>2. Met(start, <<>>)
    BY <2>1 DEF Met
  <2>3. Left(<<>>) \in Nat
    <3>1. IsFiniteSet(U \ ToSet(<<>>))
      BY FS_Subset
    <3> QED
      BY <3>1, FS_CardinalityType DEF Left
  <2> QED
    BY <1>4, <2>1, <2>2, <2>3
<1>6. Visited(start, step) = VisitFrom(step, start, <<>>) /\ ToSet(<<>>) = {}
  BY VisitedIs, SetOf
<1>7. Whole(start, <<>>, Visited(start, step))
  BY <1>5, <1>6 DEF Ends
<1> QED
  BY <1>6, <1>7

-----------------------------------------------------------------------------
(* The traversals of the scope, down and up. *)

\* A graph as models.py makes it, whether or not its edges have ends.
Wired(g) ==
    /\ NodesOf(g) \subseteq Int /\ IsFiniteSet(NodesOf(g)) /\ IsFiniteSet(EdgesOf(g))
    /\ \A e \in EdgesOf(g) : g.edges[e].source \in Int /\ g.edges[e].target \in Int

LEMMA SortedIs ==
    ASSUME NEW S, S \subseteq Int, IsFiniteSet(S)
    PROVE  Sorted(S) \in Seq(S) /\ ToSet(Sorted(S)) = S
<1>1. /\ Cardinality(S) \in Nat /\ Sorted(S) \in [1 .. Cardinality(S) -> S]
      /\ \A k \in S : \E i \in 1 .. Cardinality(S) : Sorted(S)[i] = k
  BY SortedEnumerates
<1>2. Sorted(S) \in Seq(S)
  <2>1. [1 .. Cardinality(S) -> S] \in {[1 .. n -> S] : n \in Nat}
    BY <1>1
  <2>2. Seq(S) = UNION {[1 .. n -> S] : n \in Nat}
    BY SeqDef, Zenon
  <2>3. Sorted(S) \in UNION {[1 .. n -> S] : n \in Nat}
    BY <1>1, <2>1, Zenon
  <2> QED
    BY <2>2, <2>3, Zenon
<1> QED
  BY <1>1, <1>2 DEF ToSet

LEMMA FirstIs ==
    ASSUME NEW S, S \subseteq Int, IsFiniteSet(S), S # {}
    PROVE  Sorted(S)[1] \in S
<1>1. Sorted(S) \in Seq(S) /\ ToSet(Sorted(S)) = S
  BY SortedIs
<1>2. Sorted(S) # <<>>
  BY <1>1, SetOf
<1>3. Len(Sorted(S)) \in Nat \ {0}
  BY <1>1, <1>2, EmptySeq
<1> QED
  BY <1>1, <1>3, ElementOfSeq

LEMMA ChildrenAre ==
    ASSUME NEW g, Wired(g)
    PROVE  \E U : /\ U \subseteq Int /\ IsFiniteSet(U)
                  /\ \A n : ScopeChildren(g, n) \subseteq U /\ IsFiniteSet(ScopeChildren(g, n))
<1> DEFINE E == ScopeEdges(g)
           from == [e \in E |-> g.edges[e].source]
           U == {from[e] : e \in E}
<1>1. IsFiniteSet(E) /\ E \subseteq EdgesOf(g)
  <2>1. E \in SUBSET EdgesOf(g)
    BY DEF ScopeEdges
  <2> QED
    BY <2>1, FS_Subset DEF Wired
<1>2. U \subseteq Int
  BY <1>1 DEF Wired
<1>3. \A n : ScopeChildren(g, n) \subseteq U
  BY DEF ScopeChildren
<1>4. from \in Surjection(E, U)
  BY DEF Surjection
<1> HIDE DEF E, U, from
<1>5. IsFiniteSet(U)
  BY <1>1, <1>4, FS_Surjection
<1>6. \A n : IsFiniteSet(ScopeChildren(g, n))
  BY <1>3, <1>5, FS_Subset
<1> QED
  BY <1>2, <1>3, <1>5, <1>6

\* Below a node is what scope leads to from its children, on any graph.
LEMMA DescendantsAre ==
    ASSUME NEW g, Wired(g), NEW n \in Int
    PROVE  /\ ToSet(Descendants(g, n)) \subseteq Int
           /\ ScopeChildren(g, n) \subseteq ToSet(Descendants(g, n))
           /\ ScopeClosed(g, ToSet(Descendants(g, n)))
           /\ \A S : ScopeChildren(g, n) \subseteq S /\ ScopeClosed(g, S) => ToSet(Descendants(g, n)) \subseteq S
<1> DEFINE children == [m \in Int |-> Sorted(ScopeChildren(g, m))]
<1>1. PICK U : /\ U \subseteq Int /\ IsFiniteSet(U)
               /\ \A m : ScopeChildren(g, m) \subseteq U /\ IsFiniteSet(ScopeChildren(g, m))
  BY ChildrenAre
<1>2. \A m : Sorted(ScopeChildren(g, m)) \in Seq(ScopeChildren(g, m)) /\ ToSet(Sorted(ScopeChildren(g, m))) = ScopeChildren(g, m)
  <2> SUFFICES ASSUME NEW m
               PROVE  Sorted(ScopeChildren(g, m)) \in Seq(ScopeChildren(g, m)) /\ ToSet(Sorted(ScopeChildren(g, m))) = ScopeChildren(g, m)
    OBVIOUS
  <2>1. ScopeChildren(g, m) \subseteq Int /\ IsFiniteSet(ScopeChildren(g, m))
    BY <1>1
  <2> QED
    BY <2>1, SortedIs
<1>3. \A m : Sorted(ScopeChildren(g, m)) \in Seq(Int) /\ Sorted(ScopeChildren(g, m)) \in Seq(U)
  BY <1>1, <1>2, SeqMonotonic
<1>4. children \in [Int -> Seq(Int)] /\ \A m \in Int : ToSet(children[m]) = ScopeChildren(g, m) /\ children[m] \in Seq(U)
  BY <1>2, <1>3
<1>5. Descendants(g, n) = Visited(children[n], children)
  BY DEF Descendants
<1> HIDE DEF children
<1> DEFINE D == Visited(children[n], children)
<1>6. /\ D \in Seq(U) /\ ToSet(children[n]) \subseteq ToSet(D)
      /\ \A x \in ToSet(D) : ToSet(children[x]) \subseteq ToSet(D)
      /\ \A S : ToSet(children[n]) \subseteq S /\ (\A x \in S \cap U : ToSet(children[x]) \subseteq S) => ToSet(D) \subseteq S
  <2>1. \A x \in U : ToSet(children[x]) \subseteq U
    BY <1>1, <1>4
  <2> QED
    BY <1>1, <1>4, <2>1, VisitedAre
<1> HIDE DEF D
<1>7. ToSet(D) \subseteq U
  BY <1>6, SetOf
<1>8. ASSUME NEW S, ScopeChildren(g, n) \subseteq S, ScopeClosed(g, S) PROVE ToSet(D) \subseteq S
  <2>1. ToSet(children[n]) \subseteq S
    BY <1>4, <1>8
  <2>2. ASSUME NEW x \in S \cap U PROVE ToSet(children[x]) \subseteq S
    <3>1. ScopeChildren(g, x) \subseteq S
      BY <1>8 DEF ScopeClosed, ScopeChildren
    <3>2. ToSet(children[x]) = ScopeChildren(g, x)
      BY <1>1, <1>4
    <3> QED
      BY <3>1, <3>2
  <2> QED
    BY <1>6, <2>1, <2>2
<1>9. ScopeChildren(g, n) \subseteq ToSet(D)
  BY <1>4, <1>6
<1>10. ScopeClosed(g, ToSet(D))
  <2>1. ASSUME NEW e \in ScopeEdges(g), g.edges[e].target \in ToSet(D) PROVE g.edges[e].source \in ToSet(D)
    <3>1. g.edges[e].target \in Int
      BY <1>1, <1>7, <2>1
    <3>2. ToSet(children[g.edges[e].target]) \subseteq ToSet(D)
      BY <1>6, <2>1
    <3>3. g.edges[e].source \in ScopeChildren(g, g.edges[e].target)
      BY DEF ScopeChildren
    <3> QED
      BY <1>4, <3>1, <3>2, <3>3
  <2> QED
    BY <2>1 DEF ScopeClosed
<1>11. Descendants(g, n) = D /\ ToSet(D) \subseteq Int
  BY <1>1, <1>5, <1>7 DEF D
<1> QED
  BY <1>8, <1>9, <1>10, <1>11

-----------------------------------------------------------------------------
(* Lineages in a valid graph. *)

UpStep(g) == [m \in Int |-> IF Cardinality(ScopeParents(g, m)) = 1
                            THEN <<g.edges[CHOOSE e \in ScopeParents(g, m) : TRUE].target>> ELSE <<>>]

LEMMA UpStepIs ==
    ASSUME NEW g, Wired(g)
    PROVE  /\ UpStep(g) \in [Int -> Seq(Int)]
           /\ \A m \in Int : UpStep(g)[m] = IF Single(g, m) THEN <<Parent(g, m)>> ELSE <<>>
           /\ \A m : Single(g, m) => /\ Parent(g, m) \in Int
                                     /\ \E e \in ScopeEdges(g) : g.edges[e].source = m /\ g.edges[e].target = Parent(g, m)
           /\ \A n : Upstream(g, n) = Visited(<<n>>, UpStep(g))
<1>1. ASSUME NEW m, Single(g, m)
      PROVE  \E e \in ScopeEdges(g) : g.edges[e].source = m /\ g.edges[e].target = Parent(g, m) /\ Parent(g, m) \in Int
  <2>1. ScopeParents(g, m) # {}
    BY <1>1, FS_EmptySet DEF Single
  <2>2. PICK e \in ScopeParents(g, m) : Parent(g, m) = g.edges[e].target
    BY <2>1 DEF Parent
  <2> QED
    BY <2>2 DEF ScopeParents, ScopeEdges, Wired
<1>2. \A m \in Int : UpStep(g)[m] = IF Single(g, m) THEN <<Parent(g, m)>> ELSE <<>>
  BY DEF UpStep, Single, Parent
<1>3. \A n : Upstream(g, n) = Visited(<<n>>, UpStep(g))
  BY DEF Upstream, UpStep
<1>4. UpStep(g) \in [Int -> Seq(Int)]
  <2>1. UpStep(g) = [m \in Int |-> UpStep(g)[m]]
    BY DEF UpStep
  <2>2. ASSUME NEW m \in Int PROVE UpStep(g)[m] \in Seq(Int)
    <3>1. <<>> \in Seq(Int) /\ \A k \in Int : <<k>> \in Seq(Int)
      OBVIOUS
    <3>2. UpStep(g)[m] = IF Single(g, m) THEN <<Parent(g, m)>> ELSE <<>>
      BY <1>2
    <3>3. Single(g, m) => Parent(g, m) \in Int
      BY <1>1
    <3> QED
      BY <3>1, <3>2, <3>3
  <2> QED
    BY <2>1, <2>2
<1> QED
  BY <1>1, <1>2, <1>3, <1>4

\* The parts of a valid graph that lineages are made of.
LEMMA ValidScope ==
    ASSUME NEW g, Wired(g), IsValid(g)
    PROVE  /\ g.purpose \in NodesOf(g)
           /\ \A e \in ScopeEdges(g) : /\ g.edges[e].source \in NodesOf(g) \ {g.purpose} /\ g.edges[e].target \in NodesOf(g)
                                       /\ g.edges[e].target = Parent(g, g.edges[e].source)
           /\ \A n : Single(g, n) <=> n \in NodesOf(g) \ {g.purpose}
           /\ \A n \in NodesOf(g) \ {g.purpose} : Parent(g, n) \in NodesOf(g)
           /\ \A S : g.purpose \in S /\ (\A n \in NodesOf(g) \ {g.purpose} : Parent(g, n) \in S => n \in S) => NodesOf(g) \subseteq S
<1>1. ScopeTree(g)
  BY ValidIsTree DEF Wired
<1>2. /\ g.purpose \in NodesOf(g)
      /\ \A e \in EdgesOf(g) : g.edges[e].source \in NodesOf(g) /\ g.edges[e].target \in NodesOf(g)
      /\ \A e \in ScopeEdges(g) : ~(Cardinality(ScopeParents(g, g.edges[e].source)) > 1)
      /\ ScopeParents(g, g.purpose) = {}
      /\ \A n \in NodesOf(g) \ {g.purpose} : Cardinality(ScopeParents(g, n)) # 0
  BY ValidIs
<1>3. \A n : IsFiniteSet(ScopeParents(g, n)) /\ Cardinality(ScopeParents(g, n)) \in Nat
  <2> SUFFICES ASSUME NEW n PROVE IsFiniteSet(ScopeParents(g, n)) /\ Cardinality(ScopeParents(g, n)) \in Nat
    OBVIOUS
  <2>1. ScopeParents(g, n) \in SUBSET EdgesOf(g)
    BY DEF ScopeParents, ScopeEdges
  <2> QED
    BY <2>1, FS_Subset, FS_CardinalityType DEF Wired
<1>4. \A e \in ScopeEdges(g) : e \in EdgesOf(g) /\ e \in ScopeParents(g, g.edges[e].source)
  BY DEF ScopeEdges, ScopeParents
<1>5. ASSUME NEW n \in NodesOf(g) \ {g.purpose} PROVE Single(g, n)
  <2>1. Cardinality(ScopeParents(g, n)) # 0
    BY <1>2
  <2>2. PICK e : e \in ScopeParents(g, n)
    BY <1>3, <2>1, FS_EmptySet
  <2>3. ~(Cardinality(ScopeParents(g, n)) > 1)
    BY <1>2, <2>2 DEF ScopeParents
  <2> QED
    BY <1>3, <2>1, <2>3 DEF Single
<1>6. ASSUME NEW n, Single(g, n)
      PROVE  /\ n \in NodesOf(g) \ {g.purpose}
             /\ \E e : ScopeParents(g, n) = {e} /\ e \in ScopeEdges(g) /\ g.edges[e].source = n /\ Parent(g, n) = g.edges[e].target
  <2>1. PICK e : ScopeParents(g, n) = {e}
    BY <1>3, <1>6, FS_Singleton DEF Single
  <2>2. e \in ScopeEdges(g) /\ g.edges[e].source = n
    BY <2>1 DEF ScopeParents
  <2>3. n # g.purpose
    BY <1>2, <2>1
  <2>4. Parent(g, n) = g.edges[e].target
    BY <2>1 DEF Parent
  <2> QED
    BY <1>2, <1>4, <2>1, <2>2, <2>3, <2>4
<1>7. ASSUME NEW e \in ScopeEdges(g)
      PROVE  /\ g.edges[e].source \in NodesOf(g) \ {g.purpose} /\ g.edges[e].target \in NodesOf(g)
             /\ g.edges[e].target = Parent(g, g.edges[e].source)
  <2> DEFINE n == g.edges[e].source
  <2>1. n \in NodesOf(g) /\ g.edges[e].target \in NodesOf(g) /\ n # g.purpose /\ e \in ScopeParents(g, n)
    BY <1>2, <1>4
  <2>2. Single(g, n)
    BY <1>5, <2>1
  <2>3. PICK d : ScopeParents(g, n) = {d} /\ Parent(g, n) = g.edges[d].target
    BY <1>6, <2>2
  <2> QED
    BY <2>1, <2>3
<1>8. ASSUME NEW S, g.purpose \in S, \A n \in NodesOf(g) \ {g.purpose} : Parent(g, n) \in S => n \in S
      PROVE  NodesOf(g) \subseteq S
  <2>1. ScopeClosed(g, S \cap NodesOf(g))
    BY <1>7, <1>8 DEF ScopeClosed
  <2>2. g.purpose \in S \cap NodesOf(g) /\ S \cap NodesOf(g) \in SUBSET NodesOf(g)
    BY <1>2, <1>8
  <2>3. S \cap NodesOf(g) = NodesOf(g)
    BY <1>1, <2>1, <2>2 DEF ScopeTree
  <2> QED
    BY <2>3
<1> QED
  BY <1>2, <1>5, <1>6, <1>7, <1>8

\* In a valid graph a lineage is the node and the lineage of its parent.
LEMMA UpstreamIs ==
    ASSUME NEW g, Wired(g), IsValid(g)
    PROVE  /\ \A n \in NodesOf(g) : Upstream(g, n) \in Seq(Int)
           /\ \A n \in Int \ (NodesOf(g) \ {g.purpose}) : Upstream(g, n) = <<n>>
           /\ \A n \in NodesOf(g) \ {g.purpose} : Upstream(g, n) = <<n>> \o Upstream(g, Parent(g, n))
<1> DEFINE step == UpStep(g)
           From(n, seen) == VisitFrom(step, <<n>>, seen)
           V(n) == From(n, <<>>)
           Off(A, seen) == ToSet(seen) \cap A = {}
           Good(n, A) == /\ V(n) \in Seq(Int)
                         /\ \A seen \in Seq(Int) : Off(A, seen) => From(n, seen) = seen \o V(n)
           Is(n) == n # g.purpose => V(n) = <<n>> \o V(Parent(g, n))
           Rooted(F) == \A n \in F : Is(n) /\ \E A \in SUBSET F : Good(n, A)
           S == {n \in NodesOf(g) : \E F \in SUBSET NodesOf(g) : n \in F /\ Rooted(F)}
<1>1. /\ g.purpose \in NodesOf(g)
      /\ \A n : Single(g, n) <=> n \in NodesOf(g) \ {g.purpose}
      /\ \A n \in NodesOf(g) \ {g.purpose} : Parent(g, n) \in NodesOf(g)
  BY ValidScope
<1>2. /\ step \in [Int -> Seq(Int)]
      /\ \A m \in Int : step[m] = IF Single(g, m) THEN <<Parent(g, m)>> ELSE <<>>
      /\ \A n : Upstream(g, n) = V(n)
  BY UpStepIs, VisitedIs
<1>3. NodesOf(g) \subseteq Int
  BY DEF Wired
<1> HIDE DEF step
<1>4. ASSUME NEW n \in Int, NEW seen \in Seq(Int), n \notin ToSet(seen)
      PROVE  From(n, seen) = IF Single(g, n) THEN From(Parent(g, n), Append(seen, n)) ELSE Append(seen, n)
  <2>1. <<n>> \in Seq(Int) /\ <<n>> # <<>> /\ Head(<<n>>) = n /\ Tail(<<n>>) = <<>>
    OBVIOUS
  <2>2. From(n, seen) = VisitFrom(step, <<>> \o step[n], Append(seen, n))
    <3>1. VisitFrom(step, <<n>>, seen) =
                IF <<n>> = <<>> THEN seen
                ELSE IF Head(<<n>>) \in ToSet(seen) THEN VisitFrom(step, Tail(<<n>>), seen)
                ELSE VisitFrom(step, Tail(<<n>>) \o step[Head(<<n>>)], Append(seen, Head(<<n>>)))
      BY <1>2, <2>1, VisitIs
    <3> QED
      BY <1>4, <2>1, <3>1, Zenon
  <2>3. step[n] \in Seq(Int) /\ Append(seen, n) \in Seq(Int)
    BY <1>2, SetOf
  <2>4. <<>> \o step[n] = step[n]
    BY <2>3, ConcatEmptySeq
  <2>5. VisitFrom(step, <<>>, Append(seen, n)) = Append(seen, n)
    <3>1. <<>> \in Seq(Int)
      OBVIOUS
    <3> QED
      BY <1>2, <2>3, <3>1, VisitIs
  <2> QED
    BY <1>2, <2>2, <2>4, <2>5
<1> HIDE DEF From
<1>5. <<>> \in Seq(Int) /\ ToSet(<<>>) = {}
  BY SetOf
<1>6. \A s \in Seq(Int), n \in Int : /\ Append(s, n) = s \o <<n>> /\ Append(s, n) \in Seq(Int) /\ <<n>> \in Seq(Int)
                                     /\ ToSet(Append(s, n)) = ToSet(s) \cup {n} /\ <<>> \o <<n>> = <<n>>
  <2> SUFFICES ASSUME NEW s \in Seq(Int), NEW n \in Int
               PROVE  /\ Append(s, n) = s \o <<n>> /\ Append(s, n) \in Seq(Int) /\ <<n>> \in Seq(Int)
                      /\ ToSet(Append(s, n)) = ToSet(s) \cup {n} /\ <<>> \o <<n>> = <<n>>
    OBVIOUS
  <2>1. <<n>> \in Seq(Int)
    OBVIOUS
  <2> QED
    BY <2>1, SetOf, AppendIsConcat, ConcatEmptySeq
<1>7. \A n \in Int : ~Single(g, n) => V(n) = <<n>>
  <2> SUFFICES ASSUME NEW n \in Int, ~Single(g, n) PROVE V(n) = <<n>>
    OBVIOUS
  <2>1. V(n) = Append(<<>>, n)
    BY <1>4, <1>5
  <2> QED
    BY <1>5, <1>6, <2>1
<1>8. g.purpose \in S
  <2>1. Good(g.purpose, {g.purpose})
    <3>1. V(g.purpose) = <<g.purpose>> /\ g.purpose \in Int /\ ~Single(g, g.purpose)
      BY <1>1, <1>3, <1>7
    <3>2. ASSUME NEW seen \in Seq(Int), Off({g.purpose}, seen) PROVE From(g.purpose, seen) = seen \o V(g.purpose)
      <4>1. g.purpose \notin ToSet(seen)
        BY <3>2
      <4>2. From(g.purpose, seen) = Append(seen, g.purpose)
        BY <1>4, <3>1, <4>1
      <4>3. Append(seen, g.purpose) = seen \o <<g.purpose>>
        BY <1>6, <3>1
      <4> QED
        BY <3>1, <4>2, <4>3
    <3>3. V(g.purpose) \in Seq(Int)
      BY <1>6, <1>5, <3>1
    <3> HIDE DEF V
    <3> QED
      BY <3>2, <3>3
  <2>2. Is(g.purpose)
    OBVIOUS
  <2> HIDE DEF Good, Is
  <2>3. Rooted({g.purpose})
    BY <2>1, <2>2
  <2>4. {g.purpose} \in SUBSET NodesOf(g) /\ g.purpose \in {g.purpose}
    BY <1>1
  <2> HIDE DEF Rooted
  <2> QED
    BY <1>1, <2>3, <2>4
<1>9. ASSUME NEW n \in NodesOf(g) \ {g.purpose}, Parent(g, n) \in S PROVE n \in S
  <2> DEFINE t == Parent(g, n)
  <2>1. Single(g, n) /\ n \in Int /\ t \in NodesOf(g) /\ t \in Int
    BY <1>1, <1>3
  <2>2. PICK F \in SUBSET NodesOf(g) : t \in F /\ Rooted(F)
    <3> HIDE DEF Rooted
    <3> QED
      BY <1>9
  <2>3. CASE n \in F
    <3> HIDE DEF Rooted
    <3> QED
      BY <2>2, <2>3
  <2>4. CASE n \notin F
    <3>1. PICK A \in SUBSET F : Good(t, A)
      <4> HIDE DEF Good, Is
      <4> QED
        BY <2>2
    <3> HIDE DEF t, V, Off
    <3>2. ASSUME NEW seen \in Seq(Int), n \notin ToSet(seen), Off(A, seen)
          PROVE  From(n, seen) = (seen \o <<n>>) \o V(t)
      <4>1. From(n, seen) = From(t, Append(seen, n))
        BY <1>4, <2>1, <3>2 DEF t
      <4>2. Append(seen, n) \in Seq(Int) /\ Append(seen, n) = seen \o <<n>> /\ ToSet(Append(seen, n)) = ToSet(seen) \cup {n}
        BY <1>6, <2>1
      <4>3. Off(A, Append(seen, n))
        BY <2>4, <3>2, <4>2 DEF Off
      <4> QED
        BY <3>1, <4>1, <4>2, <4>3
    <3>3. V(n) = <<n>> \o V(t)
      <4>1. V(n) = From(n, <<>>)
        BY DEF V
      <4>2. n \notin ToSet(<<>>) /\ Off(A, <<>>)
        BY <1>5 DEF Off
      <4> QED
        BY <1>5, <1>6, <2>1, <3>2, <4>1, <4>2
    <3>4. Good(n, A \cup {n})
      <4>1. V(t) \in Seq(Int) /\ <<n>> \in Seq(Int)
        BY <1>5, <1>6, <2>1, <3>1
      <4>2. V(n) \in Seq(Int)
        BY <3>3, <4>1, SetOf
      <4>3. ASSUME NEW seen \in Seq(Int), Off(A \cup {n}, seen) PROVE From(n, seen) = seen \o V(n)
        <5>1. n \notin ToSet(seen) /\ Off(A, seen)
          BY <4>3 DEF Off
        <5>2. (seen \o <<n>>) \o V(t) = seen \o (<<n>> \o V(t))
          BY <4>1, ConcatAssociative
        <5> QED
          BY <3>2, <3>3, <5>1, <5>2
      <4> QED
        BY <4>2, <4>3
    <3>5. Is(n)
      BY <3>3 DEF t
    <3> HIDE DEF Good, Is
    <3>6. Rooted(F \cup {n})
      <4> SUFFICES ASSUME NEW m \in F \cup {n} PROVE Is(m) /\ \E B \in SUBSET (F \cup {n}) : Good(m, B)
        OBVIOUS
      <4>1. CASE m = n
        <5>1. A \cup {n} \in SUBSET (F \cup {n})
          OBVIOUS
        <5> QED
          BY <3>4, <3>5, <4>1, <5>1
      <4>2. CASE m \in F
        <5>1. PICK B \in SUBSET F : Good(m, B)
          BY <2>2, <4>2
        <5>2. Is(m)
          BY <2>2, <4>2
        <5> QED
          BY <5>1, <5>2
      <4> QED
        BY <4>1, <4>2
    <3>7. F \cup {n} \in SUBSET NodesOf(g) /\ n \in F \cup {n}
      OBVIOUS
    <3> HIDE DEF Rooted
    <3> QED
      BY <3>6, <3>7
  <2> QED
    BY <2>3, <2>4
<1>10. NodesOf(g) \subseteq S
  <2> HIDE DEF S
  <2> QED
    BY <1>8, <1>9, ValidScope
<1>11. ASSUME NEW n \in NodesOf(g) PROVE Is(n) /\ V(n) \in Seq(Int)
  <2>1. PICK F \in SUBSET NodesOf(g) : n \in F /\ Rooted(F)
    <3> HIDE DEF Rooted
    <3> QED
      BY <1>10
  <2>2. Is(n)
    <3> HIDE DEF Is, Good
    <3> QED
      BY <2>1
  <2>3. PICK A : Good(n, A)
    <3> HIDE DEF Is, Good
    <3> QED
      BY <2>1
  <2>4. V(n) \in Seq(Int)
    <3> HIDE DEF V
    <3> QED
      BY <2>3
  <2> HIDE DEF Is, V
  <2> QED
    BY <2>2, <2>4
<1> HIDE DEF V
<1>12. \A n \in Int \ (NodesOf(g) \ {g.purpose}) : Upstream(g, n) = <<n>>
  BY <1>1, <1>2, <1>7
<1>13. \A n \in NodesOf(g) \ {g.purpose} : Upstream(g, n) = <<n>> \o Upstream(g, Parent(g, n))
  BY <1>2, <1>11
<1> QED
  BY <1>2, <1>11, <1>12, <1>13
=============================================================================
