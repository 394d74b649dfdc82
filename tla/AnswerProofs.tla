----------------------------- MODULE AnswerProofs -----------------------------
(***************************************************************************)
(* Theorems about what the read commands, the plans of a bulk import and   *)
(* the graph conditions of rules answer: the loops of Reads, ThreeWay and  *)
(* Conditions end, and what they end with.                                 *)
(***************************************************************************)
EXTENDS GraphChangesProofs

-----------------------------------------------------------------------------
(* Loops. *)

\* A loop that keeps to P, with something getting smaller, ends in P.
LEMMA LoopEnds ==
    ASSUME NEW X, NEW done, NEW out, NEW next, NEW f, Solves(f, X, done, out, next),
           NEW P \in SUBSET X, NEW major \in [P -> Nat], NEW minor \in [P -> Nat],
           \A x \in P \ done : /\ next[x] \in P
                               /\ \/ major[next[x]] < major[x]
                                  \/ major[next[x]] = major[x] /\ minor[next[x]] < minor[x]
    PROVE  \A x \in P : \E y \in P \cap done : f[x] = out[y]
<1> DEFINE Closes(x) == \E y \in P \cap done : f[x] = out[y]
           Lost == {x \in P : ~Closes(x)}
<1>1. \A x \in P : f[x] = IF x \in done THEN out[x] ELSE f[next[x]]
  BY DEF Solves
<1>2. ASSUME NEW x \in Lost PROVE x \in P \ done /\ next[x] \in Lost
  <2>1. x \in P /\ x \notin done
    BY <1>1
  <2>2. f[x] = f[next[x]] /\ next[x] \in P
    BY <1>1, <2>1
  <2> QED
    BY <2>1, <2>2
<1>3. Lost \subseteq P /\ (Lost = {} => \A x \in P : Closes(x))
  OBVIOUS
<1> HIDE DEF Closes, Lost
<1> SUFFICES ASSUME Lost # {} PROVE FALSE
  BY <1>3 DEF Closes
<1>4. PICK x \in Lost : \A y \in Lost : major[x] <= major[y]
  <2> DEFINE K == {major[y] : y \in Lost}
  <2>1. K \subseteq Nat /\ K # {}
    BY <1>3
  <2> HIDE DEF K
  <2>2. PICK k \in K : \A l \in K : k <= l
    BY <2>1, Least
  <2> QED
    BY <2>2 DEF K
<1>5. PICK z \in Lost : major[z] = major[x] /\ \A y \in Lost : major[y] = major[x] => minor[z] <= minor[y]
  <2> DEFINE K == {minor[y] : y \in {u \in Lost : major[u] = major[x]}}
  <2>1. K \subseteq Nat /\ K # {}
    BY <1>3
  <2> HIDE DEF K
  <2>2. PICK k \in K : \A l \in K : k <= l
    BY <2>1, Least
  <2> QED
    BY <2>2 DEF K
<1>6. z \in P \ done /\ next[z] \in Lost
  BY <1>2
<1>7. /\ \A y \in P : major[y] \in Nat /\ minor[y] \in Nat
      /\ major[x] <= major[next[z]] /\ (major[next[z]] = major[x] => minor[z] <= minor[next[z]])
  BY <1>4, <1>5, <1>6
<1>8. next[z] \in P /\ (major[next[z]] < major[z] \/ (major[next[z]] = major[z] /\ minor[next[z]] < minor[z]))
  BY <1>6
<1> QED
  BY <1>3, <1>5, <1>6, <1>7, <1>8

\* A sequence over S whose elements are given by their number.
LEMMA ListIs ==
    ASSUME NEW S, NEW k \in Nat, NEW q, q = [i \in 1 .. k |-> q[i]], \A i \in 1 .. k : q[i] \in S
    PROVE  q \in Seq(S) /\ Len(q) = k /\ DOMAIN q = 1 .. k /\ ToSet(q) = {q[i] : i \in 1 .. k}
<1>1. q \in [1 .. k -> S] /\ DOMAIN q = 1 .. k
  OBVIOUS
<1>2. [1 .. k -> S] \in {[1 .. n -> S] : n \in Nat}
  OBVIOUS
<1>3. Seq(S) = UNION {[1 .. n -> S] : n \in Nat}
  BY SeqDef, Zenon
<1>4. q \in UNION {[1 .. n -> S] : n \in Nat}
  BY <1>1, <1>2, Zenon
<1>5. q \in Seq(S)
  BY <1>3, <1>4, Zenon
<1>6. Len(q) = k
  BY <1>1, <1>5, LenProperties
<1> QED
  BY <1>1, <1>5, <1>6 DEF ToSet

LEMMA AppendedIs ==
    ASSUME NEW S, NEW q \in Seq(S), NEW x \in S
    PROVE  /\ Append(q, x) \in Seq(S) /\ Append(q, x) # <<>> /\ ToSet(Append(q, x)) = ToSet(q) \cup {x}
           /\ Len(Append(q, x)) = Len(q) + 1 /\ Append(q, x)[Len(q) + 1] = x
           /\ \A i \in 1 .. Len(q) : Append(q, x)[i] = q[i]
           /\ q # <<>> => Head(Append(q, x)) = Head(q) /\ Tail(Append(q, x)) = Append(Tail(q), x) /\ Tail(q) \in Seq(S)
BY SetOf, AppendProperties, HeadTailAppend

-----------------------------------------------------------------------------
(* The traversal of scope downwards. *)

Entry == [node : Int, depth : Nat]
Spots == [queue : Seq(Entry), seen : Seq(Int), cut : BOOLEAN]
Descend(g, limit) ==
    CHOOSE descend : descend = [at \in Spots |-> IF at.queue = <<>> THEN at ELSE descend[Descended(g, limit, at)]]

LEMMA ScopeIs ==
    ASSUME NEW g, NEW n, NEW limit
    PROVE  Scope(g, n, limit) =
             LET below == Descend(g, limit)[[queue |-> Entries(g, n, 1), seen |-> <<n>>, cut |-> FALSE]]
                 above == Ancestry(g, n, limit)
             IN  [upstream |-> Tail(above.nodes), descendants |-> Tail(below.seen), omitted |-> above.cut \/ below.cut]
BY DEF Scope, Descend, Spots, Entry

\* The children of a node, in the queue.
LEMMA EntriesAre ==
    ASSUME NEW g, Wired(g), NEW n, NEW d \in Nat
    PROVE  /\ Entries(g, n, d) \in Seq(Entry)
           /\ ToSet(Entries(g, n, d)) = {[node |-> c, depth |-> d] : c \in ScopeChildren(g, n)}
<1> DEFINE C == ScopeChildren(g, n)
           q == Entries(g, n, d)
           k == Cardinality(C)
<1>1. C \subseteq Int /\ IsFiniteSet(C)
  BY ChildrenAre
<1>2. q = [i \in 1 .. k |-> [node |-> Sorted(C)[i], depth |-> d]]
  BY DEF Entries
<1> HIDE DEF C, q
<1>3. k \in Nat /\ Sorted(C) \in [1 .. k -> C] /\ \A c \in C : \E i \in 1 .. k : Sorted(C)[i] = c
  BY <1>1, SortedEnumerates
<1> HIDE DEF k
<1>4. \A i \in 1 .. k : q[i] = [node |-> Sorted(C)[i], depth |-> d] /\ q[i] \in Entry
  BY <1>1, <1>2, <1>3 DEF Entry
<1>5. q \in Seq(Entry) /\ ToSet(q) = {q[i] : i \in 1 .. k}
  <2>1. q = [i \in 1 .. k |-> q[i]]
    BY <1>2
  <2>2. k \in Nat /\ \A i \in 1 .. k : q[i] \in Entry
    BY <1>3, <1>4
  <2> QED
    BY <2>1, <2>2, ListIs, SMTT(60)
<1>6. ToSet(q) = {[node |-> c, depth |-> d] : c \in C}
  <2>1. ASSUME NEW x \in ToSet(q) PROVE \E c \in C : x = [node |-> c, depth |-> d]
    <3>1. PICK i \in 1 .. k : x = q[i]
      BY <1>5
    <3> QED
      BY <1>3, <1>4, <3>1
  <2>2. ASSUME NEW c \in C PROVE [node |-> c, depth |-> d] \in ToSet(q)
    <3>1. PICK i \in 1 .. k : Sorted(C)[i] = c
      BY <1>3
    <3> QED
      BY <1>4, <1>5, <3>1
  <2> QED
    BY <2>1, <2>2
<1> QED
  BY <1>5, <1>6 DEF C, q

Stepped(g, limit) == [at \in Spots |-> IF at.queue = <<>> THEN at ELSE Descended(g, limit, at)]

LEMMA DescendedIs ==
    ASSUME NEW g, Wired(g), NEW limit, NEW at \in Spots, at.queue # <<>>
    PROVE  Descended(g, limit, at) \in Spots
<1> DEFINE first == Head(at.queue)
           rest == Tail(at.queue)
<1>1. /\ at.queue \in Seq(Entry) /\ at.seen \in Seq(Int) /\ at.cut \in BOOLEAN
      /\ first \in Entry /\ rest \in Seq(Entry)
  BY SetOf DEF Spots
<1>2. Descended(g, limit, at) =
          IF Beyond(first.depth, limit) THEN [queue |-> rest, seen |-> at.seen, cut |-> TRUE]
          ELSE IF first.node \in ToSet(at.seen) THEN [queue |-> rest, seen |-> at.seen, cut |-> at.cut]
          ELSE [queue |-> rest \o Entries(g, first.node, first.depth + 1), seen |-> Append(at.seen, first.node), cut |-> at.cut]
  BY DEF Descended
<1> HIDE DEF first, rest
<1>3. first.node \in Int /\ first.depth + 1 \in Nat
  BY <1>1 DEF Entry
<1>4. rest \o Entries(g, first.node, first.depth + 1) \in Seq(Entry)
  BY <1>1, <1>3, EntriesAre, SetOf
<1>5. Append(at.seen, first.node) \in Seq(Int)
  BY <1>1, <1>3, SetOf
<1> QED
  BY <1>1, <1>2, <1>4, <1>5 DEF Spots

LEMMA DescendIs ==
    ASSUME NEW g, Wired(g), NEW limit
    PROVE  Solves(Descend(g, limit), Spots, {at \in Spots : at.queue = <<>>}, [at \in Spots |-> at], Stepped(g, limit))
<1> DEFINE done == {at \in Spots : at.queue = <<>>}
           out  == [at \in Spots |-> at]
           next == Stepped(g, limit)
           Def(f) == [at \in Spots |-> IF at.queue = <<>> THEN at ELSE f[Descended(g, limit, at)]]
<1>1. next \in [Spots -> Spots]
  BY DescendedIs DEF Stepped
<1>2. ASSUME NEW f PROVE Def(f) = [at \in Spots |-> IF at \in done THEN out[at] ELSE f[next[at]]]
  BY DEF Stepped
<1>3. Descend(g, limit) = CHOOSE f : f = Def(f)
  BY DEF Descend
<1> HIDE DEF done, out, next
<1>4. PICK f : Solves(f, Spots, done, out, next)
  BY <1>1, TailRecursion
<1>5. f = Def(f)
  BY <1>2, <1>4 DEF Solves
<1>6. Descend(g, limit) = Def(Descend(g, limit))
  <2> HIDE DEF Def
  <2> QED
    BY <1>3, <1>5
<1> QED
  BY <1>2, <1>6 DEF Solves, done, out, next

-----------------------------------------------------------------------------
(* Lineages with a depth limit. *)

Height(g, m) == Len(Upstream(g, m))

\* A lineage leads from its node to the purpose, and a child's is longer by one.
LEMMA HeightIs ==
    ASSUME NEW g, Wired(g), IsValid(g)
    PROVE  /\ g.purpose \in NodesOf(g) /\ Upstream(g, g.purpose) = <<g.purpose>> /\ ScopeParents(g, g.purpose) = {}
           /\ \A m \in NodesOf(g) : /\ m \in Int /\ Upstream(g, m) \in Seq(Int) /\ Upstream(g, m) # <<>>
                                    /\ Height(g, m) \in Nat \ {0} /\ Upstream(g, m)[1] = m
                                    /\ Upstream(g, m)[Height(g, m)] = g.purpose
           /\ \A m \in NodesOf(g) : \A c \in ScopeChildren(g, m) :
                 c \in NodesOf(g) /\ Height(g, c) = Height(g, m) + 1
<1> DEFINE Up(m) == Upstream(g, m)
           Is(m) == /\ Up(m) \in Seq(Int) /\ Up(m) # <<>> /\ Len(Up(m)) \in Nat \ {0} /\ Up(m)[1] = m
                    /\ Up(m)[Len(Up(m))] = g.purpose
           S == {m \in NodesOf(g) : Is(m)}
<1>1. /\ g.purpose \in NodesOf(g) /\ NodesOf(g) \subseteq Int
      /\ \A e \in ScopeEdges(g) : /\ g.edges[e].source \in NodesOf(g) \ {g.purpose}
                                  /\ g.edges[e].target = Parent(g, g.edges[e].source)
      /\ \A n \in NodesOf(g) \ {g.purpose} : Parent(g, n) \in NodesOf(g)
  BY ValidScope DEF Wired
<1>2. Up(g.purpose) = <<g.purpose>>
  BY <1>1, UpstreamIs
<1>3. \A m \in NodesOf(g) : Up(m) \in Seq(Int)
  BY UpstreamIs
<1>4. \A m \in NodesOf(g) \ {g.purpose} : Up(m) = <<m>> \o Up(Parent(g, m))
  BY UpstreamIs
<1> HIDE DEF Up
<1>5. ASSUME NEW m \in NodesOf(g) \ {g.purpose}
      PROVE  /\ Len(Up(m)) = Len(Up(Parent(g, m))) + 1 /\ Up(m)[1] = m
             /\ \A i \in 1 .. Len(Up(Parent(g, m))) : Up(m)[i + 1] = Up(Parent(g, m))[i]
  <2> DEFINE q == Up(Parent(g, m))
  <2>1. q \in Seq(Int) /\ Len(q) \in Nat /\ <<m>> \in Seq(Int) /\ Len(<<m>>) = 1 /\ <<m>>[1] = m
    BY <1>1, <1>3, LenProperties
  <2>2. Up(m) = <<m>> \o q
    BY <1>4
  <2> HIDE DEF q
  <2>3. /\ Len(Up(m)) = 1 + Len(q)
        /\ \A i \in 1 .. 1 + Len(q) : Up(m)[i] = IF i <= 1 THEN <<m>>[i] ELSE q[i - 1]
    BY <2>1, <2>2, ConcatProperties
  <2>4. \A i \in 1 .. Len(q) : Up(m)[i + 1] = q[i]
    <3> SUFFICES ASSUME NEW i \in 1 .. Len(q) PROVE Up(m)[i + 1] = q[i]
      OBVIOUS
    <3>1. i + 1 \in 1 .. 1 + Len(q) /\ ~(i + 1 <= 1) /\ (i + 1) - 1 = i
      BY <2>1
    <3> QED
      BY <2>3, <3>1
  <2> QED
    BY <2>1, <2>3, <2>4 DEF q
<1>6. g.purpose \in S
  <2>1. <<g.purpose>> # <<>> /\ Len(<<g.purpose>>) = 1 /\ <<g.purpose>>[1] = g.purpose
    OBVIOUS
  <2>2. Up(g.purpose) \in Seq(Int)
    BY <1>1, <1>3
  <2>3. Is(g.purpose)
    BY <1>2, <2>1, <2>2
  <2> HIDE DEF Is
  <2> QED
    BY <1>1, <2>3
<1>7. ASSUME NEW m \in NodesOf(g) \ {g.purpose}, Parent(g, m) \in S PROVE m \in S
  <2> DEFINE k == Len(Up(Parent(g, m)))
  <2>1. k \in Nat \ {0} /\ Up(Parent(g, m))[k] = g.purpose
    BY <1>7
  <2>2. Len(Up(m)) = k + 1 /\ Up(m)[1] = m /\ (k \in 1 .. k => Up(m)[k + 1] = Up(Parent(g, m))[k])
    BY <1>5
  <2>3. Up(m) \in Seq(Int) /\ (Up(m) = <<>> => Len(Up(m)) = 0)
    BY <1>3
  <2> HIDE DEF k
  <2> QED
    BY <2>1, <2>2, <2>3
<1>8. NodesOf(g) \subseteq S
  <2> HIDE DEF S
  <2> QED
    BY <1>6, <1>7, ValidScope
<1>9. ASSUME NEW m \in NodesOf(g), NEW c \in ScopeChildren(g, m)
      PROVE  c \in NodesOf(g) /\ Len(Up(c)) = Len(Up(m)) + 1
  <2>1. PICK e \in ScopeEdges(g) : g.edges[e].target = m /\ g.edges[e].source = c
    BY DEF ScopeChildren
  <2> QED
    BY <1>1, <1>5, <2>1
<1>10. ScopeParents(g, g.purpose) = {}
  BY <1>1 DEF ScopeParents
<1> QED
  BY <1>1, <1>2, <1>8, <1>9, <1>10 DEF Up, Height

\* What is below a node in a valid graph is deeper than it.
LEMMA BelowIs ==
    ASSUME NEW g, Wired(g), IsValid(g), NEW n \in NodesOf(g)
    PROVE  LET D == ToSet(Descendants(g, n))
           IN  /\ D \subseteq NodesOf(g) /\ D \subseteq Int /\ IsFiniteSet(D) /\ n \notin D
               /\ \A m \in D : Height(g, m) > Height(g, n)
               /\ \A m \in D \cup {n} : \A c \in ScopeChildren(g, m) : c \in D /\ Height(g, c) = Height(g, m) + 1
               /\ \A S : ScopeChildren(g, n) \subseteq S /\ (\A m \in S : ScopeChildren(g, m) \subseteq S) => D \subseteq S
<1> DEFINE D == ToSet(Descendants(g, n))
           T == {m \in NodesOf(g) : Height(g, m) > Height(g, n)}
<1>1. /\ ScopeChildren(g, n) \subseteq D /\ ScopeClosed(g, D)
      /\ \A S : ScopeChildren(g, n) \subseteq S /\ ScopeClosed(g, S) => D \subseteq S
  BY HeightIs, DescendantsAre
<1> HIDE DEF D
<1>2. /\ \A m \in NodesOf(g) : m \in Int /\ Height(g, m) \in Nat
      /\ \A m \in NodesOf(g) : \A c \in ScopeChildren(g, m) : c \in NodesOf(g) /\ Height(g, c) = Height(g, m) + 1
  BY HeightIs
<1>3. ASSUME NEW S, \A m \in S : ScopeChildren(g, m) \subseteq S PROVE ScopeClosed(g, S)
  BY <1>3 DEF ScopeClosed, ScopeChildren
<1>4. D \subseteq T
  <2>1. ScopeChildren(g, n) \subseteq T
    BY <1>2
  <2>2. \A m \in T : ScopeChildren(g, m) \subseteq T
    BY <1>2
  <2> HIDE DEF T
  <2> QED
    BY <1>1, <1>3, <2>1, <2>2
<1>5. \A m \in D \cup {n} : ScopeChildren(g, m) \subseteq D
  BY <1>1 DEF ScopeClosed, ScopeChildren
<1>6. IsFiniteSet(D)
  <2>1. D \in SUBSET NodesOf(g)
    BY <1>4
  <2> QED
    BY <2>1, FS_Subset DEF Wired
<1>7. /\ D \subseteq NodesOf(g) /\ D \subseteq Int /\ IsFiniteSet(D) /\ n \notin D
      /\ \A m \in D : Height(g, m) > Height(g, n)
  BY <1>2, <1>4, <1>6
<1>8. \A m \in D \cup {n} : \A c \in ScopeChildren(g, m) : c \in D /\ Height(g, c) = Height(g, m) + 1
  BY <1>2, <1>5, <1>7
<1>9. \A S : ScopeChildren(g, n) \subseteq S /\ (\A m \in S : ScopeChildren(g, m) \subseteq S) => D \subseteq S
  BY <1>1, <1>3
<1> QED
  BY <1>7, <1>8, <1>9 DEF D

\* A limit is optional.
IsLimit(limit) == limit \subseteq Nat /\ \A k, l \in limit : k = l

LEMMA LimitIs ==
    ASSUME NEW limit, IsLimit(limit)
    PROVE  limit = {} \/ \E k \in Nat : limit = {k}
BY DEF IsLimit

\* The nodes of a lineage that are shown, and that the limit cut it exactly when there are others.
LEMMA AncestryIs ==
    ASSUME NEW g, Wired(g), IsValid(g), NEW n \in NodesOf(g), NEW limit, IsLimit(limit)
    PROVE  \E c \in 1 .. Height(g, n) : /\ Ancestry(g, n, limit).nodes = SubSeq(Upstream(g, n), 1, c)
                                        /\ Ancestry(g, n, limit).cut <=> c # Height(g, n)
<1> DEFINE path == Upstream(g, n)
           h == Len(path)
           shown == {i \in DOMAIN path : ~Beyond(i - 1, limit)}
<1>1. /\ path \in Seq(Int) /\ h \in Nat \ {0} /\ DOMAIN path = 1 .. h
      /\ Last(path) = g.purpose /\ ScopeParents(g, g.purpose) = {}
  BY HeightIs, LenProperties DEF Height, Last
<1>2. Cardinality(ScopeParents(g, Last(path))) # 1
  BY <1>1, FS_EmptySet
<1>3. Ancestry(g, n, limit) = [nodes |-> SubSeq(path, 1, Cardinality(shown)), cut |-> Beyond(h - 1, limit)]
  BY <1>2 DEF Ancestry
<1>4. \E c \in 1 .. h : shown = 1 .. c /\ (Beyond(h - 1, limit) <=> c # h)
  <2>1. CASE limit = {}
    <3>1. shown = 1 .. h /\ ~Beyond(h - 1, limit)
      BY <1>1, <2>1 DEF Beyond
    <3>2. h \in 1 .. h
      BY <1>1
    <3> HIDE DEF shown, h
    <3> QED
      BY <3>1, <3>2
  <2>2. ASSUME NEW k \in Nat, limit = {k} PROVE \E c \in 1 .. h : shown = 1 .. c /\ (Beyond(h - 1, limit) <=> c # h)
    <3> DEFINE c == IF k + 1 < h THEN k + 1 ELSE h
    <3>1. shown = {i \in 1 .. h : ~(i - 1 > k)} /\ (Beyond(h - 1, limit) <=> h - 1 > k)
      BY <1>1, <2>2 DEF Beyond
    <3> HIDE DEF shown, h
    <3>2. c \in 1 .. h /\ shown = 1 .. c /\ (h - 1 > k <=> c # h)
      BY <1>1, <3>1
    <3> QED
      BY <3>1, <3>2
  <2> QED
    BY <2>1, <2>2, LimitIs
<1>5. PICK c \in 1 .. h : shown = 1 .. c /\ (Beyond(h - 1, limit) <=> c # h)
  BY <1>4
<1>6. Cardinality(shown) = c
  <2> HIDE DEF shown, h
  <2>1. c \in Nat /\ c = c - 1 + 1
    BY <1>1
  <2> QED
    BY <1>5, <2>1, FS_Interval
<1>7. Ancestry(g, n, limit).nodes = SubSeq(path, 1, c)
  <2> HIDE DEF path, shown, h
  <2> QED
    BY <1>3, <1>6
<1>8. Ancestry(g, n, limit).cut <=> c # h
  <2>1. Ancestry(g, n, limit).cut = Beyond(h - 1, limit)
    <3> HIDE DEF path, shown, h
    <3> QED
      BY <1>3
  <2> HIDE DEF path, shown, h
  <2> QED
    BY <1>5, <2>1, Zenon
<1> QED
  BY <1>5, <1>7, <1>8 DEF Height

-----------------------------------------------------------------------------
(* Queries.scope. *)

\* What holds of the traversal below n at each turn: who is met is below n, at the depth it was
\* queued with, and its children are met, queued, or left out because of the limit.
Depth(g, n, m) == Height(g, m) - Height(g, n)
Descending(g, n, limit, at) ==
    LET D == ToSet(Descendants(g, n))
    IN  /\ \A e \in ToSet(at.queue) : e.node \in D /\ e.depth = Depth(g, n, e.node)
        /\ at.seen # <<>> /\ Head(at.seen) = n
        /\ \A m \in ToSet(Tail(at.seen)) : m \in D /\ ~Beyond(Depth(g, n, m), limit)
        /\ \A m \in ToSet(at.seen) : \A c \in ScopeChildren(g, m) :
              \/ c \in ToSet(at.seen) \/ \E e \in ToSet(at.queue) : e.node = c
              \/ at.cut = TRUE /\ Beyond(Depth(g, n, c), limit)
        /\ at.cut = TRUE => \E c \in D : Beyond(Depth(g, n, c), limit)

Unmet(g, n, at) == Cardinality((ToSet(Descendants(g, n)) \cup {n}) \ ToSet(at.seen))

LEMMA DescendingStep ==
    ASSUME NEW g, Wired(g), IsValid(g), NEW n \in NodesOf(g), NEW limit,
           NEW at \in Spots, Descending(g, n, limit, at), at.queue # <<>>
    PROVE  LET to == Descended(g, limit, at)
           IN  /\ Descending(g, n, limit, to)
               /\ Unmet(g, n, to) \in Nat /\ Unmet(g, n, at) \in Nat /\ Len(to.queue) \in Nat /\ Len(at.queue) \in Nat
               /\ \/ Unmet(g, n, to) < Unmet(g, n, at)
                  \/ Unmet(g, n, to) = Unmet(g, n, at) /\ Len(to.queue) < Len(at.queue)
<1> DEFINE D == ToSet(Descendants(g, n))
           first == Head(at.queue)
           rest == Tail(at.queue)
           to == Descended(g, limit, at)
           Below(m) == Depth(g, n, m)
<1>1. /\ D \subseteq NodesOf(g) /\ D \subseteq Int /\ IsFiniteSet(D) /\ n \notin D /\ n \in Int
      /\ \A m \in D : Height(g, m) > Height(g, n)
      /\ \A m \in D \cup {n} : \A c \in ScopeChildren(g, m) : c \in D /\ Height(g, c) = Height(g, m) + 1
  BY BelowIs DEF Wired
<1>2. \A m \in D \cup {n} : Height(g, m) \in Nat
  BY <1>1, HeightIs
<1>3. /\ at.queue \in Seq(Entry) /\ at.seen \in Seq(Int) /\ at.cut \in BOOLEAN
      /\ first \in Entry /\ rest \in Seq(Entry) /\ Len(rest) = Len(at.queue) - 1 /\ Len(at.queue) # 0
      /\ ToSet(at.queue) = {first} \cup ToSet(rest)
      /\ at.seen # <<>> => Head(at.seen) \in Int /\ Tail(at.seen) \in Seq(Int) /\ ToSet(at.seen) = {Head(at.seen)} \cup ToSet(Tail(at.seen))
  BY SetOf DEF Spots
<1>4. to \in Spots /\ to.queue \in Seq(Entry) /\ Len(to.queue) \in Nat /\ Len(at.queue) \in Nat
  BY <1>3, DescendedIs, LenProperties DEF Spots
<1>5. to = IF Beyond(first.depth, limit) THEN [queue |-> rest, seen |-> at.seen, cut |-> TRUE]
           ELSE IF first.node \in ToSet(at.seen) THEN [queue |-> rest, seen |-> at.seen, cut |-> at.cut]
           ELSE [queue |-> rest \o Entries(g, first.node, first.depth + 1), seen |-> Append(at.seen, first.node), cut |-> at.cut]
  BY DEF Descended
<1>6. /\ \A e \in ToSet(at.queue) : e.node \in D /\ e.depth = Below(e.node)
      /\ at.seen # <<>> /\ Head(at.seen) = n
      /\ \A m \in ToSet(Tail(at.seen)) : m \in D /\ ~Beyond(Below(m), limit)
      /\ \A m \in ToSet(at.seen) : \A c \in ScopeChildren(g, m) :
            \/ c \in ToSet(at.seen) \/ \E e \in ToSet(at.queue) : e.node = c
            \/ at.cut = TRUE /\ Beyond(Below(c), limit)
      /\ at.cut = TRUE => \E c \in D : Beyond(Below(c), limit)
  BY DEF Descending
<1>7. ASSUME NEW x,
             \A e \in ToSet(x.queue) : e.node \in D /\ e.depth = Below(e.node),
             x.seen # <<>> /\ Head(x.seen) = n,
             \A m \in ToSet(Tail(x.seen)) : m \in D /\ ~Beyond(Below(m), limit),
             \A m \in ToSet(x.seen) : \A c \in ScopeChildren(g, m) :
                \/ c \in ToSet(x.seen) \/ \E e \in ToSet(x.queue) : e.node = c
                \/ x.cut = TRUE /\ Beyond(Below(c), limit),
             x.cut = TRUE => \E c \in D : Beyond(Below(c), limit)
      PROVE  Descending(g, n, limit, x)
  BY <1>7 DEF Descending
<1>8. \A x : Unmet(g, n, x) \in Nat /\ Unmet(g, n, x) = Cardinality((D \cup {n}) \ ToSet(x.seen)) /\ IsFiniteSet((D \cup {n}) \ ToSet(x.seen))
  <2> SUFFICES ASSUME NEW x
               PROVE  /\ Cardinality((D \cup {n}) \ ToSet(x.seen)) \in Nat
                      /\ IsFiniteSet((D \cup {n}) \ ToSet(x.seen))
    BY DEF Unmet
  <2>1. (D \cup {n}) \ ToSet(x.seen) \in SUBSET (D \cup {n})
    OBVIOUS
  <2> HIDE DEF D
  <2>2. IsFiniteSet(D \cup {n})
    BY <1>1, FS_AddElement
  <2> QED
    BY <2>1, <2>2, FS_Subset, FS_CardinalityType
<1> HIDE DEF D, first, rest, to, Below
<1>9. CASE Beyond(first.depth, limit)
  <2>1. to.queue = rest /\ to.seen = at.seen /\ to.cut = TRUE
    BY <1>5, <1>9
  <2>2. first.node \in D /\ Beyond(Below(first.node), limit)
    BY <1>3, <1>6, <1>9
  <2>3. \A m \in ToSet(to.seen) : \A c \in ScopeChildren(g, m) :
            \/ c \in ToSet(to.seen) \/ \E e \in ToSet(to.queue) : e.node = c
            \/ to.cut = TRUE /\ Beyond(Below(c), limit)
    BY <1>3, <1>6, <2>1, <2>2
  <2>4. Descending(g, n, limit, to)
    BY <1>3, <1>6, <1>7, <2>1, <2>2, <2>3
  <2>5. Unmet(g, n, to) = Unmet(g, n, at)
    BY <1>8, <2>1
  <2>6. Len(to.queue) < Len(at.queue)
    BY <1>3, <1>4, <2>1
  <2> QED
    BY <1>4, <1>8, <2>4, <2>5, <2>6 DEF to
<1>10. CASE ~Beyond(first.depth, limit) /\ first.node \in ToSet(at.seen)
  <2>1. to.queue = rest /\ to.seen = at.seen /\ to.cut = at.cut
    BY <1>5, <1>10
  <2>2. \A m \in ToSet(to.seen) : \A c \in ScopeChildren(g, m) :
            \/ c \in ToSet(to.seen) \/ \E e \in ToSet(to.queue) : e.node = c
            \/ to.cut = TRUE /\ Beyond(Below(c), limit)
    BY <1>3, <1>6, <1>10, <2>1
  <2>3. Descending(g, n, limit, to)
    BY <1>3, <1>6, <1>7, <2>1, <2>2
  <2>4. Unmet(g, n, to) = Unmet(g, n, at)
    BY <1>8, <2>1
  <2>5. Len(to.queue) < Len(at.queue)
    BY <1>3, <1>4, <2>1
  <2> QED
    BY <1>4, <1>8, <2>3, <2>4, <2>5 DEF to
<1>11. CASE ~Beyond(first.depth, limit) /\ first.node \notin ToSet(at.seen)
  <2> DEFINE b == first.node
             new == Entries(g, b, first.depth + 1)
  <2>1. to.queue = rest \o new /\ to.seen = Append(at.seen, b) /\ to.cut = at.cut
    BY <1>5, <1>11
  <2>2. b \in D /\ b \in Int /\ first.depth = Below(b) /\ first.depth + 1 \in Nat /\ ~Beyond(Below(b), limit)
    BY <1>1, <1>3, <1>6, <1>11 DEF Entry
  <2>3. new \in Seq(Entry) /\ ToSet(new) = {[node |-> c, depth |-> first.depth + 1] : c \in ScopeChildren(g, b)}
    BY <2>2, EntriesAre
  <2> HIDE DEF b, new
  <2>4. ToSet(to.queue) = ToSet(rest) \cup ToSet(new) /\ ToSet(to.seen) = ToSet(at.seen) \cup {b}
    <3>1. ToSet(rest \o new) = ToSet(rest) \cup ToSet(new)
      BY <1>3, <2>3, SetOf
    <3>2. at.seen \in Seq(Int) /\ b \in Int
      BY <1>3, <2>2
    <3>3. ToSet(Append(at.seen, b)) = ToSet(at.seen) \cup {b}
      BY <3>2, AppendedIs
    <3> QED
      BY <2>1, <3>1, <3>3
  <2>5. to.seen # <<>> /\ Head(to.seen) = n /\ Tail(to.seen) = Append(Tail(at.seen), b)
    <3>1. at.seen \in Seq(Int) /\ b \in Int /\ at.seen # <<>>
      BY <1>3, <1>6, <2>2
    <3>2. /\ Append(at.seen, b) # <<>>
          /\ Head(Append(at.seen, b)) = Head(at.seen) /\ Tail(Append(at.seen, b)) = Append(Tail(at.seen), b)
      BY <3>1, AppendedIs
    <3> QED
      BY <1>6, <2>1, <3>2
  <2>6. ToSet(Tail(to.seen)) = ToSet(Tail(at.seen)) \cup {b}
    <3> DEFINE q == Tail(at.seen)
    <3>1. q \in Seq(Int) /\ b \in Int
      BY <1>3, <1>6, <2>2
    <3> HIDE DEF q
    <3>2. ToSet(Append(q, b)) = ToSet(q) \cup {b}
      BY <3>1, AppendedIs
    <3> USE DEF q
    <3> QED
      BY <2>5, <3>2
  <2>7. \A c \in ScopeChildren(g, b) : c \in D /\ Below(c) = first.depth + 1
    BY <1>1, <1>2, <2>2 DEF Below, Depth
  <2>8. \A e \in ToSet(to.queue) : e.node \in D /\ e.depth = Below(e.node)
    <3> SUFFICES ASSUME NEW e \in ToSet(to.queue) PROVE e.node \in D /\ e.depth = Below(e.node)
      OBVIOUS
    <3>1. CASE e \in ToSet(rest)
      BY <1>3, <1>6, <3>1
    <3>2. CASE e \in ToSet(new)
      BY <2>3, <2>7, <3>2
    <3> QED
      BY <2>4, <3>1, <3>2
  <2>9. \A m \in ToSet(to.seen) : \A c \in ScopeChildren(g, m) :
            \/ c \in ToSet(to.seen) \/ \E e \in ToSet(to.queue) : e.node = c
            \/ to.cut = TRUE /\ Beyond(Below(c), limit)
    <3> SUFFICES ASSUME NEW m \in ToSet(to.seen), NEW c \in ScopeChildren(g, m), c \notin ToSet(to.seen),
                        ~(to.cut = TRUE /\ Beyond(Below(c), limit))
                 PROVE  \E e \in ToSet(to.queue) : e.node = c
      OBVIOUS
    <3>1. CASE m = b
      <4>1. [node |-> c, depth |-> first.depth + 1] \in ToSet(new)
        BY <2>3, <3>1
      <4> QED
        BY <2>4, <4>1
    <3>2. CASE m \in ToSet(at.seen)
      <4>1. PICK e \in ToSet(at.queue) : e.node = c
        BY <1>6, <2>1, <2>4, <3>2
      <4>2. e # first
        BY <2>4, <4>1 DEF b
      <4> QED
        BY <1>3, <2>4, <4>1, <4>2
    <3> QED
      BY <2>4, <3>1, <3>2
  <2>10. Descending(g, n, limit, to)
    <3>1. \A m \in ToSet(Tail(to.seen)) : m \in D /\ ~Beyond(Below(m), limit)
      BY <1>6, <2>2, <2>6
    <3>2. to.cut = TRUE => \E c \in D : Beyond(Below(c), limit)
      BY <1>6, <2>1
    <3> QED
      BY <1>7, <2>5, <2>8, <2>9, <3>1, <3>2
  <2>11. Unmet(g, n, to) < Unmet(g, n, at)
    <3> DEFINE A == (D \cup {n}) \ ToSet(at.seen)
               B == (D \cup {n}) \ ToSet(to.seen)
    <3>1. B = A \ {b} /\ b \in A
      BY <1>11, <2>2, <2>4 DEF b
    <3>2. IsFiniteSet(A) /\ Cardinality(A) = Unmet(g, n, at) /\ Cardinality(B) = Unmet(g, n, to)
      BY <1>8
    <3> HIDE DEF A, B
    <3>3. Cardinality(B) = Cardinality(A) - 1
      BY <3>1, <3>2, FS_RemoveElement
    <3>4. Unmet(g, n, at) \in Nat /\ Unmet(g, n, to) \in Nat
      BY <1>8
    <3> QED
      BY <3>2, <3>3, <3>4
  <2> QED
    BY <1>4, <1>8, <2>10, <2>11 DEF to
<1> QED
  BY <1>9, <1>10, <1>11

\* Below a node the traversal gives what the scope leads to, except what is too deep.
LEMMA DescendantsRead ==
    ASSUME NEW g, Wired(g), IsValid(g), NEW n \in NodesOf(g), NEW limit
    PROVE  LET start == [queue |-> Entries(g, n, 1), seen |-> <<n>>, cut |-> FALSE]
               below == Descend(g, limit)[start]
               D == ToSet(Descendants(g, n))
           IN  /\ below \in Spots /\ Tail(below.seen) \in Seq(Int) /\ ToSet(Tail(below.seen)) \subseteq D
               /\ below.cut = TRUE <=> ToSet(Tail(below.seen)) # D
<1> DEFINE start == [queue |-> Entries(g, n, 1), seen |-> <<n>>, cut |-> FALSE]
           D == ToSet(Descendants(g, n))
           P == {at \in Spots : Descending(g, n, limit, at)}
           done == {at \in Spots : at.queue = <<>>}
           out == [at \in Spots |-> at]
           next == Stepped(g, limit)
           major == [at \in P |-> Unmet(g, n, at)]
           minor == [at \in P |-> Len(at.queue)]
<1>1. /\ D \subseteq NodesOf(g) /\ D \subseteq Int /\ IsFiniteSet(D) /\ n \notin D /\ n \in Int
      /\ \A m \in D \cup {n} : \A c \in ScopeChildren(g, m) : c \in D /\ Height(g, c) = Height(g, m) + 1
      /\ \A S : ScopeChildren(g, n) \subseteq S /\ (\A m \in S : ScopeChildren(g, m) \subseteq S) => D \subseteq S
  BY BelowIs DEF Wired
<1> HIDE DEF D
<1>2. /\ Entries(g, n, 1) \in Seq(Entry)
      /\ ToSet(Entries(g, n, 1)) = {[node |-> c, depth |-> 1] : c \in ScopeChildren(g, n)}
  BY EntriesAre
<1>3. start \in P
  <2>1. <<n>> \in Seq(Int) /\ <<n>> # <<>> /\ Head(<<n>>) = n /\ Tail(<<n>>) = <<>> /\ ToSet(<<n>>) = {n} /\ ToSet(<<>>) = {}
    BY <1>1, SetOf
  <2>2. start \in Spots /\ start.queue = Entries(g, n, 1) /\ start.seen = <<n>> /\ start.cut = FALSE
    BY <1>2, <2>1 DEF Spots
  <2> HIDE DEF start
  <2>3. \A c \in ScopeChildren(g, n) : c \in D /\ Depth(g, n, c) = 1
    <3> SUFFICES ASSUME NEW c \in ScopeChildren(g, n) PROVE c \in D /\ Depth(g, n, c) = 1
      OBVIOUS
    <3>1. c \in D /\ Height(g, c) = Height(g, n) + 1 /\ Height(g, n) \in Nat
      BY <1>1, HeightIs
    <3> QED
      BY <3>1 DEF Depth
  <2>4. \A e \in ToSet(start.queue) : e.node \in D /\ e.depth = Depth(g, n, e.node)
    BY <1>2, <2>2, <2>3
  <2>5. \A c \in ScopeChildren(g, n) : \E e \in ToSet(start.queue) : e.node = c
    <3> SUFFICES ASSUME NEW c \in ScopeChildren(g, n) PROVE \E e \in ToSet(start.queue) : e.node = c
      OBVIOUS
    <3>1. [node |-> c, depth |-> 1] \in ToSet(start.queue)
      BY <1>2, <2>2
    <3> QED
      BY <3>1
  <2> QED
    BY <2>1, <2>2, <2>4, <2>5 DEF Descending, D
<1> HIDE DEF start
<1>4. ASSUME NEW at \in P, at \notin done
      PROVE  /\ next[at] \in P
             /\ major[next[at]] < major[at] \/ (major[next[at]] = major[at] /\ minor[next[at]] < minor[at])
  <2>1. at \in Spots /\ Descending(g, n, limit, at) /\ at.queue # <<>>
    BY <1>4
  <2>2. next[at] = Descended(g, limit, at) /\ next[at] \in Spots
    BY <2>1, DescendedIs DEF Stepped
  <2>3. /\ Descending(g, n, limit, next[at])
        /\ \/ Unmet(g, n, next[at]) < Unmet(g, n, at)
           \/ Unmet(g, n, next[at]) = Unmet(g, n, at) /\ Len(next[at].queue) < Len(at.queue)
    BY <2>1, <2>2, DescendingStep
  <2> HIDE DEF next
  <2> QED
    BY <2>1, <2>2, <2>3
<1>5. \A at \in P : Unmet(g, n, at) \in Nat /\ Len(at.queue) \in Nat
  <2> SUFFICES ASSUME NEW at \in P PROVE Unmet(g, n, at) \in Nat /\ Len(at.queue) \in Nat
    OBVIOUS
  <2>1. at.queue \in Seq(Entry)
    BY DEF Spots
  <2>2. (D \cup {n}) \ ToSet(at.seen) \in SUBSET (D \cup {n})
    OBVIOUS
  <2>3. IsFiniteSet(D \cup {n})
    BY <1>1, FS_AddElement
  <2>4. Cardinality((D \cup {n}) \ ToSet(at.seen)) \in Nat
    BY <2>2, <2>3, FS_Subset, FS_CardinalityType
  <2> QED
    BY <2>1, <2>4, LenProperties DEF Unmet, D
<1>6. major \in [P -> Nat] /\ minor \in [P -> Nat] /\ P \in SUBSET Spots
  BY <1>5
<1>7. Solves(Descend(g, limit), Spots, done, out, next)
  BY DescendIs
<1> HIDE DEF P, done, out, next, major, minor
<1>8. PICK at \in P \cap done : Descend(g, limit)[start] = out[at]
  BY <1>3, <1>4, <1>6, <1>7, LoopEnds
<1>9. at \in Spots /\ at.queue = <<>> /\ Descending(g, n, limit, at) /\ out[at] = at
  BY <1>8 DEF P, done, out
<1> DEFINE s == Tail(at.seen)
<1>10. /\ at.seen # <<>> /\ Head(at.seen) = n /\ ToSet(at.queue) = {}
       /\ \A m \in ToSet(s) : m \in D /\ ~Beyond(Depth(g, n, m), limit)
       /\ \A m \in ToSet(at.seen) : \A c \in ScopeChildren(g, m) :
             c \in ToSet(at.seen) \/ (at.cut = TRUE /\ Beyond(Depth(g, n, c), limit))
       /\ at.cut = TRUE => \E c \in D : Beyond(Depth(g, n, c), limit)
  <2>1. ToSet(at.queue) = {}
    BY <1>9, SetOf
  <2> QED
    BY <1>9, <2>1 DEF Descending, D
<1>11. s \in Seq(Int) /\ ToSet(at.seen) = {n} \cup ToSet(s)
  BY <1>9, <1>10, SetOf DEF Spots
<1> HIDE DEF s
<1>12. at.cut = TRUE => ToSet(s) # D
  BY <1>10
<1>13. ASSUME at.cut # TRUE PROVE ToSet(s) = D
  <2>1. \A m \in ToSet(at.seen) : ScopeChildren(g, m) \subseteq ToSet(at.seen)
    BY <1>10, <1>13
  <2>2. D \subseteq ToSet(at.seen)
    BY <1>1, <1>11, <2>1
  <2> QED
    BY <1>1, <1>10, <1>11, <2>2
<1>14. ToSet(s) \subseteq D
  BY <1>10
<1>15. Descend(g, limit)[start] = at
  BY <1>8, <1>9
<1> QED
  BY <1>9, <1>11, <1>12, <1>13, <1>14, <1>15 DEF s, start, D

-----------------------------------------------------------------------------
(* _page. *)

Cursor == [signature : {"scope"}, offset : Nat]
Pointing(o) == {[signature |-> "scope", offset |-> o]}
UpToEnd(items, size, o) == IF o + size < Len(items) THEN o + size ELSE Len(items)
RestFrom(items, size, o) == {c \in Pointing(UpToEnd(items, size, o)) : UpToEnd(items, size, o) < Len(items)}

\* A page begins where its cursor points, ends a page later or with the items, and has a cursor
\* for the rest.
LEMMA PageIs ==
    ASSUME NEW items \in Seq(Int), NEW size \in Nat \ {0}, NEW cursor \in SUBSET Cursor, Page(items, "scope", size, cursor) # {}
    PROVE  \E o \in 0 .. Len(items) :
              /\ Page(items, "scope", size, cursor) =
                    {[items |-> SubSeq(items, o + 1, UpToEnd(items, size, o)), next |-> RestFrom(items, size, o)]}
              /\ cursor = {} => o = 0
              /\ \A k : cursor = Pointing(k) => o = k
<1> DEFINE o == IF cursor = {} THEN 0 ELSE (CHOOSE c \in cursor : TRUE).offset
<1>1. Len(items) \in Nat
  BY LenProperties
<1>2. /\ \A c \in cursor : ~(c.offset > Len(items))
      /\ Page(items, "scope", size, cursor) =
            {[items |-> SubSeq(items, o + 1, UpToEnd(items, size, o)), next |-> RestFrom(items, size, o)]}
  BY DEF Page, UpToEnd, RestFrom, Pointing
<1>3. o \in 0 .. Len(items)
  BY <1>1, <1>2 DEF Cursor
<1>4. \A k : cursor = Pointing(k) => o = k
  BY DEF Pointing
<1>5. cursor = {} => o = 0
  OBVIOUS
<1> HIDE DEF o
<1> QED
  BY <1>2, <1>3, <1>4, <1>5

LEMMA PageOf ==
    ASSUME NEW items \in Seq(Int), NEW size \in Nat \ {0}, NEW o \in Nat, o <= Len(items)
    PROVE  Page(items, "scope", size, Pointing(o)) # {}
<1>1. ~\E c \in Pointing(o) : c.signature # "scope" \/ c.offset > Len(items)
  BY LenProperties DEF Pointing
<1> QED
  BY <1>1 DEF Page

Readings == [given : Seq(Int), next : SUBSET Cursor]
PageAt(items, size, cursor) == Page(items, "scope", size, cursor)
FirstAt(items, size, cursor) == CHOOSE p \in PageAt(items, size, cursor) : TRUE

LEMMA FieldsAre ==
    ASSUME NEW a, NEW b
    PROVE  [items |-> a, next |-> b].items = a /\ [items |-> a, next |-> b].next = b
OBVIOUS

LEMMA GivenAre ==
    ASSUME NEW a, NEW b
    PROVE  [given |-> a, next |-> b].given = a /\ [given |-> a, next |-> b].next = b
OBVIOUS

FirstShown(items, size, cursor, o) ==
    /\ FirstAt(items, size, cursor).items = SubSeq(items, o + 1, UpToEnd(items, size, o))
    /\ FirstAt(items, size, cursor).next = RestFrom(items, size, o)
    /\ cursor = {} => o = 0
    /\ \A k : cursor = Pointing(k) => o = k

LEMMA FirstIsIt ==
    ASSUME NEW items \in Seq(Int), NEW size \in Nat \ {0}, NEW cursor \in SUBSET Cursor, PageAt(items, size, cursor) # {}
    PROVE  \E o \in 0 .. Len(items) : FirstShown(items, size, cursor, o)
<1>1. PICK o \in 0 .. Len(items) :
        /\ PageAt(items, size, cursor) = {[items |-> SubSeq(items, o + 1, UpToEnd(items, size, o)), next |-> RestFrom(items, size, o)]}
        /\ cursor = {} => o = 0
        /\ \A k : cursor = Pointing(k) => o = k
  BY PageIs DEF PageAt
<1>2. FirstAt(items, size, cursor) = [items |-> SubSeq(items, o + 1, UpToEnd(items, size, o)), next |-> RestFrom(items, size, o)]
  BY <1>1 DEF FirstAt
<1> DEFINE a == SubSeq(items, o + 1, UpToEnd(items, size, o))
           b == RestFrom(items, size, o)
<1> HIDE DEF a, b
<1>4. FirstAt(items, size, cursor) = [items |-> a, next |-> b]
  BY <1>2 DEF a, b
<1>5. FirstAt(items, size, cursor).items = a /\ FirstAt(items, size, cursor).next = b
  BY ONLY <1>4, FieldsAre, Zenon
<1>3. /\ FirstAt(items, size, cursor).items = SubSeq(items, o + 1, UpToEnd(items, size, o))
      /\ FirstAt(items, size, cursor).next = RestFrom(items, size, o)
  BY <1>5 DEF a, b
<1> QED
  BY <1>1, <1>3 DEF FirstShown

Turn(items, size) ==
    CHOOSE turn : turn = [at \in Readings |->
        IF at.next = {} \/ PageAt(items, size, at.next) = {} THEN at.given
        ELSE turn[[given |-> at.given \o FirstAt(items, size, at.next).items, next |-> FirstAt(items, size, at.next).next]]]

LEMMA TurnedIs ==
    ASSUME NEW items, NEW size
    PROVE  Turned(items, size) =
              Turn(items, size)[[given |-> FirstAt(items, size, {}).items, next |-> FirstAt(items, size, {}).next]]
BY DEF Turned, Turn, Readings, PageAt, FirstAt, Cursor

\* Following the cursors gives the items, each once and in their order, whatever the size of a page.
LEMMA PagesJoin ==
    ASSUME NEW items \in Seq(Int), NEW size \in Nat \ {0}
    PROVE  Turned(items, size) = items
<1> DEFINE n == Len(items)
           done == {at \in Readings : at.next = {} \/ PageAt(items, size, at.next) = {}}
           out == [at \in Readings |-> at.given]
           Goes(at) == [given |-> at.given \o FirstAt(items, size, at.next).items, next |-> FirstAt(items, size, at.next).next]
           next == [at \in Readings |-> IF at \in done THEN at ELSE Goes(at)]
           Def(f) == [at \in Readings |-> IF at.next = {} \/ PageAt(items, size, at.next) = {} THEN at.given ELSE f[Goes(at)]]
<1>1. n \in Nat /\ \A i \in 1 .. n : items[i] \in Int
  BY LenProperties, ElementOfSeq
<1>2. ASSUME NEW cursor \in SUBSET Cursor, PageAt(items, size, cursor) # {}
      PROVE  \E o \in 0 .. n : /\ FirstAt(items, size, cursor).items = SubSeq(items, o + 1, UpToEnd(items, size, o))
                               /\ FirstAt(items, size, cursor).next = RestFrom(items, size, o)
                               /\ cursor = {} => o = 0
                               /\ \A k : cursor = Pointing(k) => o = k
  <2>1. n = Len(items)
    OBVIOUS
  <2> HIDE DEF n, done, out, Goes, next, Def
  <2>2. PICK o \in 0 .. Len(items) : FirstShown(items, size, cursor, o)
    BY <1>2, FirstIsIt
  <2>3. o \in 0 .. n
    BY <2>1
  <2> QED
    BY <2>2, <2>3 DEF FirstShown
<1>3. ASSUME NEW o \in 0 .. n
      PROVE  /\ UpToEnd(items, size, o) \in 0 .. n /\ o <= UpToEnd(items, size, o) /\ SubSeq(items, o + 1, UpToEnd(items, size, o)) \in Seq(Int)
             /\ RestFrom(items, size, o) = (IF UpToEnd(items, size, o) < n THEN Pointing(UpToEnd(items, size, o)) ELSE {}) /\ RestFrom(items, size, o) \in SUBSET Cursor
             /\ UpToEnd(items, size, o) < n => UpToEnd(items, size, o) > o
  <2>1. UpToEnd(items, size, o) \in 0 .. n /\ o <= UpToEnd(items, size, o) /\ (UpToEnd(items, size, o) < n => UpToEnd(items, size, o) > o)
    BY <1>1 DEF UpToEnd
  <2> HIDE DEF n
  <2>2. \A i \in o + 1 .. UpToEnd(items, size, o) : items[i] \in Int
    BY <1>1, <2>1
  <2>3. SubSeq(items, o + 1, UpToEnd(items, size, o)) \in Seq(Int)
    BY <1>1, <2>1, <2>2, SubSeqProperties
  <2>4. RestFrom(items, size, o) = IF UpToEnd(items, size, o) < n THEN Pointing(UpToEnd(items, size, o)) ELSE {}
    BY DEF RestFrom, n
  <2>5. Pointing(UpToEnd(items, size, o)) \in SUBSET Cursor
    BY <1>1, <2>1 DEF Cursor, Pointing
  <2> QED
    BY <2>1, <2>3, <2>4, <2>5
<1>4. next \in [Readings -> Readings]
  <2> SUFFICES ASSUME NEW at \in Readings, at \notin done PROVE Goes(at) \in Readings
    OBVIOUS
  <2>1. at.given \in Seq(Int) /\ at.next \in SUBSET Cursor /\ PageAt(items, size, at.next) # {}
    BY DEF Readings
  <2> HIDE DEF n
  <2>2. PICK o \in 0 .. n : /\ FirstAt(items, size, at.next).items = SubSeq(items, o + 1, UpToEnd(items, size, o))
                            /\ FirstAt(items, size, at.next).next = RestFrom(items, size, o)
    BY <1>2, <2>1
  <2>3. at.given \o SubSeq(items, o + 1, UpToEnd(items, size, o)) \in Seq(Int) /\ RestFrom(items, size, o) \in SUBSET Cursor
    BY <1>3, <2>1, SetOf
  <2> QED
    BY <2>2, <2>3 DEF Readings
<1>5. Turn(items, size) = CHOOSE f : f = Def(f)
  BY DEF Turn
<1>6. ASSUME NEW f PROVE Def(f) = [at \in Readings |-> IF at \in done THEN out[at] ELSE f[next[at]]]
  <2>1. ASSUME NEW at \in Readings, ~(at.next = {} \/ PageAt(items, size, at.next) = {}) PROVE next[at] = Goes(at)
    BY <2>1
  <2> HIDE DEF Goes, next
  <2> QED
    BY <2>1
<1> HIDE DEF done, out, next
<1>7. PICK f : Solves(f, Readings, done, out, next)
  BY <1>4, TailRecursion
<1>8. f = Def(f)
  BY <1>6, <1>7 DEF Solves
<1>9. Turn(items, size) = Def(Turn(items, size))
  <2> HIDE DEF Def
  <2> QED
    BY <1>5, <1>8
<1>10. Solves(Turn(items, size), Readings, done, out, next)
  BY <1>6, <1>9 DEF Solves
<1> DEFINE Whole(at) == at.next = {} /\ at.given = items
           Part(at, o) == at.next = Pointing(o) /\ at.given = SubSeq(items, 1, o)
           P == {at \in Readings : Whole(at) \/ \E o \in 0 .. n : o < n /\ Part(at, o)}
           major == [at \in P |-> IF at.next = {} THEN 0 ELSE n + 1 - Len(at.given)]
           minor == [at \in P |-> 0]
           start == [given |-> FirstAt(items, size, {}).items, next |-> FirstAt(items, size, {}).next]
<1>11. SubSeq(items, 1, n) = items /\ SubSeq(items, 1, 0) = <<>>
  BY SubSeqFull, SubSeqEmpty
<1> HIDE DEF Def
<1>12. ASSUME NEW o \in 0 .. n, NEW at, at = [given |-> SubSeq(items, 1, UpToEnd(items, size, o)), next |-> RestFrom(items, size, o)] PROVE at \in P
  <2>1. at.given = SubSeq(items, 1, UpToEnd(items, size, o)) /\ at.next = RestFrom(items, size, o)
    BY <1>12
  <2>2. at \in Readings
    <3> HIDE DEF n
    <3>1. \A i \in 1 .. UpToEnd(items, size, o) : items[i] \in Int
      BY <1>1, <1>3
    <3>2. SubSeq(items, 1, UpToEnd(items, size, o)) \in Seq(Int)
      BY <1>1, <1>3, <3>1, SubSeqProperties
    <3> QED
      BY <1>3, <1>12, <3>2 DEF Readings
  <2> HIDE DEF n
  <2>3. CASE UpToEnd(items, size, o) < n
    BY <1>3, <2>1, <2>2, <2>3
  <2>4. CASE ~(UpToEnd(items, size, o) < n)
    <3>1. UpToEnd(items, size, o) = n /\ RestFrom(items, size, o) = {}
      BY <1>1, <1>3, <2>4
    <3> QED
      BY <1>11, <2>1, <2>2, <3>1
  <2> QED
    BY <2>3, <2>4
<1>13. start \in P
  <2>1. {} \in SUBSET Cursor /\ PageAt(items, size, {}) # {}
    BY DEF PageAt, Page
  <2>2. start = [given |-> SubSeq(items, 1, UpToEnd(items, size, 0)), next |-> RestFrom(items, size, 0)] /\ 0 \in 0 .. n
    <3> HIDE DEF n
    <3>1. PICK o \in 0 .. n : FirstAt(items, size, {}).items = SubSeq(items, o + 1, UpToEnd(items, size, o)) /\ FirstAt(items, size, {}).next = RestFrom(items, size, o) /\ o = 0
      BY <1>2, <2>1
    <3>2. o + 1 = 1 /\ 0 \in 0 .. n
      BY <1>1, <3>1
    <3> QED
      BY <3>1, <3>2
  <2> HIDE DEF start, n, P
  <2> QED
    BY <1>12, <2>2
<1>14. ASSUME NEW at \in P, at \notin done
       PROVE  /\ next[at] \in P /\ major[next[at]] < major[at]
  <2>1. at \in Readings /\ at.next # {} /\ PageAt(items, size, at.next) # {}
    BY <1>14 DEF done
  <2>2. PICK o \in 0 .. n : o < n /\ Part(at, o)
    BY <2>1
  <2>3. FirstAt(items, size, at.next).items = SubSeq(items, o + 1, UpToEnd(items, size, o)) /\ FirstAt(items, size, at.next).next = RestFrom(items, size, o)
    BY <1>2, <2>1, <2>2 DEF Readings
  <2>4. next[at] = [given |-> SubSeq(items, 1, o) \o SubSeq(items, o + 1, UpToEnd(items, size, o)), next |-> RestFrom(items, size, o)]
    BY <1>14, <2>1, <2>2, <2>3 DEF next
  <2>5. SubSeq(items, 1, o) \o SubSeq(items, o + 1, UpToEnd(items, size, o)) = SubSeq(items, 1, UpToEnd(items, size, o))
    <3>1. 1 \in 1 .. Len(items) + 1 /\ o \in 1 - 1 .. Len(items) /\ UpToEnd(items, size, o) \in o .. Len(items)
      BY <1>1, <1>3
    <3> QED
      BY <3>1, ConcatAdjacentSubSeq
  <2>6. next[at] \in P
    <3> HIDE DEF P, n
    <3> QED
      BY <1>12, <2>4, <2>5
  <2>7. ASSUME NEW k \in 0 .. n PROVE Len(SubSeq(items, 1, k)) = k
    <3> HIDE DEF n
    <3>1. \A i \in 1 .. k : items[i] \in Int
      BY <1>1
    <3>2. k \in Int /\ 1 \in Int
      BY <1>1
    <3>3. Len(SubSeq(items, 1, k)) = IF 1 <= k THEN k - 1 + 1 ELSE 0
      BY <3>1, <3>2, SubSeqProperties
    <3> QED
      BY <1>1, <3>3
  <2>8. next[at].given = SubSeq(items, 1, UpToEnd(items, size, o)) /\ next[at].next = RestFrom(items, size, o)
    <3> DEFINE a == SubSeq(items, 1, UpToEnd(items, size, o))
               b == RestFrom(items, size, o)
    <3>1. next[at] = [given |-> a, next |-> b]
      BY <2>4, <2>5
    <3> HIDE DEF a, b, n, P, major, minor, Part, Whole, Goes
    <3>2. next[at].given = a /\ next[at].next = b
      BY <3>1
    <3> QED
      BY <3>2 DEF a, b
  <2>9. major[at] = n + 1 - o
    BY <2>1, <2>2, <2>7
  <2>10. major[next[at]] = IF RestFrom(items, size, o) = {} THEN 0 ELSE n + 1 - UpToEnd(items, size, o)
    BY <1>3, <2>6, <2>7, <2>8
  <2>11. RestFrom(items, size, o) # {} => UpToEnd(items, size, o) < n
    BY <1>3
  <2> HIDE DEF major, P, n
  <2> QED
    BY <1>1, <1>3, <2>2, <2>6, <2>9, <2>10, <2>11
<1>15. major \in [P -> Nat] /\ minor \in [P -> Nat] /\ P \in SUBSET Readings
  <2>1. ASSUME NEW at \in P PROVE (IF at.next = {} THEN 0 ELSE n + 1 - Len(at.given)) \in Nat
    <3>1. CASE at.next = {}
      BY <3>1
    <3>2. CASE at.next # {}
      <4>1. PICK o \in 0 .. n : o < n /\ Part(at, o)
        BY <3>2
      <4> HIDE DEF n
      <4>2. \A i \in 1 .. o : items[i] \in Int
        BY <1>1
      <4>3. Len(SubSeq(items, 1, o)) = IF 1 <= o THEN o - 1 + 1 ELSE 0
        BY <4>2, SubSeqProperties
      <4> QED
        BY <1>1, <3>2, <4>1, <4>3
    <3> QED
      BY <3>1, <3>2
  <2> QED
    BY <2>1
<1>16. ASSUME NEW at \in P, at \in done PROVE out[at] = items
  <2>1. at \in Readings /\ (at.next = {} \/ PageAt(items, size, at.next) = {})
    BY <1>16 DEF done
  <2>2. ASSUME NEW o \in 0 .. n, o < n, Part(at, o) PROVE FALSE
    <3>1. PageAt(items, size, Pointing(o)) # {}
      BY <1>1, <2>2, PageOf DEF PageAt
    <3>2. Pointing(o) # {}
      BY DEF Pointing
    <3>3. at.next = Pointing(o)
      BY <2>2
    <3> HIDE DEF Part
    <3> QED
      BY <2>1, <3>1, <3>2, <3>3
  <2>3. Whole(at)
    BY <2>2
  <2> QED
    BY <2>1, <2>3 DEF out
<1> HIDE DEF P, major, minor, start
<1>17. PICK at \in P \cap done : Turn(items, size)[start] = out[at]
  BY <1>10, <1>13, <1>14, <1>15, LoopEnds
<1> QED
  BY <1>16, <1>17, TurnedIs DEF start
\* What is shown of a lineage begins it, and is shorter when it is not all of it.
LEMMA LineageRead ==
    ASSUME NEW q \in Seq(Int), q # <<>>, NEW c \in 1 .. Len(q)
    PROVE  LET s == SubSeq(q, 1, c)
           IN  /\ Tail(s) \in Seq(Int) /\ ToSet(s) = {q[1]} \cup ToSet(Tail(s))
               /\ IsPrefix(Tail(s), Tail(q)) /\ (c # Len(q) <=> Tail(s) # Tail(q))
<1> DEFINE s == SubSeq(q, 1, c)
           l == Len(q)
<1>1. l \in Nat \ {0} /\ c \in Nat \ {0} /\ c <= l /\ \A i \in 1 .. l : q[i] \in Int
  BY LenProperties, EmptySeq, ElementOfSeq
<1>2. \A i \in 1 .. c : q[i] \in Int
  BY <1>1
<1>3. s \in Seq(Int) /\ Len(s) = c
  <2> HIDE DEF l
  <2>1. Len(s) = IF 1 <= c THEN c - 1 + 1 ELSE 0
    BY <1>1, <1>2, SubSeqProperties
  <2>2. s \in Seq(Int)
    BY <1>1, <1>2, SubSeqProperties
  <2> QED
    BY <1>1, <2>1, <2>2
<1>4. Head(s) = q[1] /\ Tail(s) = SubSeq(q, 2, c)
  <2>1. 1 \in 1 .. Len(q) /\ c \in 1 .. Len(q)
    BY <1>1
  <2>2. Head(s) = q[1] /\ Tail(s) = SubSeq(q, 1 + 1, c)
    BY <2>1, HeadTailOfSubSeq
  <2> QED
    BY <2>2
<1>5. Tail(q) = SubSeq(q, 2, l) /\ Tail(q) \in Seq(Int) /\ Len(Tail(q)) = l - 1
  BY TailIsSubSeq, HeadTailProperties
<1> HIDE DEF s
<1>6. s # <<>>
  BY <1>1, <1>3
<1>7. Tail(s) \in Seq(Int) /\ Len(Tail(s)) = c - 1 /\ ToSet(s) = {q[1]} \cup ToSet(Tail(s))
  BY <1>3, <1>4, <1>6, SetOf
<1>8. SubSeq(Tail(s), 1, c - 1) = Tail(s)
  BY <1>7, SubSeqFull
<1>9. SubSeq(Tail(q), 1, c - 1) = SubSeq(q, 2, c)
  <2>1. SubSeq(SubSeq(q, 2, l), 1, c - 1) = SubSeq(q, 2, c)
    <3>1. CASE c = 1
      <4>1. 0 < 1 /\ c - 1 = 0 /\ c < 2
        BY <3>1
      <4>2. SubSeq(SubSeq(q, 2, l), 1, 0) = <<>> /\ SubSeq(q, 2, c) = <<>>
        BY <1>1, <4>1, SubSeqEmpty
      <4> QED
        BY <4>1, <4>2
    <3>2. CASE c # 1
      <4>1. 2 \in 1 .. Len(q) /\ l \in 1 .. Len(q) /\ 1 \in 1 .. l - 2 + 1 /\ c - 1 \in 1 .. l - 2 + 1
        BY <1>1, <3>2
      <4>2. 2 + 1 - 1 = 2 /\ 2 + (c - 1) - 1 = c
        BY <1>1
      <4>3. \A i \in 1 .. Len(q), j \in 1 .. Len(q) : \A m \in 1 .. j - i + 1, n \in 1 .. j - i + 1 :
              SubSeq(SubSeq(q, i, j), m, n) = SubSeq(q, i + m - 1, i + n - 1)
        BY SubSeqOfSubSeq
      <4>4. SubSeq(SubSeq(q, 2, l), 1, c - 1) = SubSeq(q, 2 + 1 - 1, 2 + (c - 1) - 1)
        <5> DEFINE k == c - 1
        <5>1. 2 \in 1 .. Len(q) /\ l \in 1 .. Len(q) /\ 1 \in 1 .. l - 2 + 1 /\ k \in 1 .. l - 2 + 1
          BY <4>1
        <5> HIDE DEF l, k
        <5>2. SubSeq(SubSeq(q, 2, l), 1, k) = SubSeq(q, 2 + 1 - 1, 2 + k - 1)
          BY <4>3, <5>1
        <5> QED
          BY <5>2 DEF k
      <4> QED
        BY <4>2, <4>4
    <3> QED
      BY <3>1, <3>2
  <2> QED
    BY <1>5, <2>1
<1>10. IsPrefix(Tail(s), Tail(q))
  <2>1. Len(Tail(s)) <= Len(Tail(q))
    BY <1>1, <1>5, <1>7
  <2> QED
    BY <1>4, <1>7, <1>8, <1>9, <2>1 DEF IsPrefix
<1>11. c # l <=> Tail(s) # Tail(q)
  <2> DEFINE x == Len(Tail(s))
             y == Len(Tail(q))
  <2>1. x = c - 1 /\ y = l - 1
    BY <1>5, <1>7
  <2>2. c # l => x # y
    <3> HIDE DEF x, y, l
    <3> QED
      BY <1>1, <2>1
  <2> QED
    BY <1>4, <1>5, <2>2
<1> QED
  BY <1>7, <1>10, <1>11 DEF s

ReadsInFull(g, n, limit) ==
    LET read == Scope(g, n, limit)
        lineage == Context(g, {n, g.purpose}, limit)
        above == Tail(Upstream(g, n))
        below == Descendants(g, n)
    IN  /\ IsPrefix(read.upstream, above) /\ ToSet(read.descendants) \subseteq ToSet(below)
        /\ read.omitted <=> (read.upstream # above \/ ToSet(read.descendants) # ToSet(below))
        /\ lineage.context = {g.purpose, n} \cup ToSet(read.upstream)
        /\ lineage.omitted <=> read.upstream # above
        /\ \A size \in 1 .. 2 : Turned(read.descendants, size) = read.descendants

LEMMA ScopeIsRead ==
    ASSUME NEW g, Wired(g), IsValid(g), NEW n \in NodesOf(g), NEW limit, IsLimit(limit)
    PROVE  ReadsInFull(g, n, limit)
<1> DEFINE read == Scope(g, n, limit)
           above == Ancestry(g, n, limit)
           top == Ancestry(g, g.purpose, limit)
           below == Descend(g, limit)[[queue |-> Entries(g, n, 1), seen |-> <<n>>, cut |-> FALSE]]
           q == Upstream(g, n)
           D == ToSet(Descendants(g, n))
<1>1. /\ q \in Seq(Int) /\ q # <<>> /\ q[1] = n /\ Height(g, n) = Len(q)
      /\ g.purpose \in NodesOf(g) /\ Upstream(g, g.purpose) = <<g.purpose>> /\ Height(g, g.purpose) = 1
  <2>1. Len(<<g.purpose>>) = 1
    OBVIOUS
  <2> QED
    BY <2>1, HeightIs DEF Height
<1>2. PICK c \in 1 .. Len(q) : above.nodes = SubSeq(q, 1, c) /\ (above.cut <=> c # Len(q))
  <2> HIDE DEF above
  <2>1. \E c \in 1 .. Height(g, n) : above.nodes = SubSeq(q, 1, c) /\ (above.cut <=> c # Height(g, n))
    BY AncestryIs DEF above
  <2> QED
    BY <1>1, <2>1
<1>3. /\ Tail(above.nodes) \in Seq(Int) /\ ToSet(above.nodes) = {n} \cup ToSet(Tail(above.nodes))
      /\ IsPrefix(Tail(above.nodes), Tail(q)) /\ (above.cut <=> Tail(above.nodes) # Tail(q))
  <2> HIDE DEF above, q
  <2>1. LET s == SubSeq(q, 1, c)
        IN  /\ Tail(s) \in Seq(Int) /\ ToSet(s) = {q[1]} \cup ToSet(Tail(s))
            /\ IsPrefix(Tail(s), Tail(q)) /\ (c # Len(q) <=> Tail(s) # Tail(q))
    BY <1>1, LineageRead
  <2> DEFINE s == SubSeq(q, 1, c)
  <2>2. /\ Tail(s) \in Seq(Int) /\ ToSet(s) = {q[1]} \cup ToSet(Tail(s))
        /\ IsPrefix(Tail(s), Tail(q)) /\ (c # Len(q) <=> Tail(s) # Tail(q))
    BY <2>1
  <2>3. above.nodes = s
    BY <1>2
  <2> HIDE DEF s
  <2> QED
    BY <1>1, <1>2, <2>2, <2>3
<1>4. ToSet(top.nodes) = {g.purpose} /\ ~top.cut
  <2> HIDE DEF top
  <2>1. PICK k \in 1 .. Height(g, g.purpose) : top.nodes = SubSeq(Upstream(g, g.purpose), 1, k) /\ (top.cut <=> k # Height(g, g.purpose))
    BY <1>1, AncestryIs DEF top
  <2>2. k = 1 /\ ~top.cut
    BY <1>1, <2>1
  <2>3. <<g.purpose>> \in Seq({g.purpose}) /\ Len(<<g.purpose>>) = 1
    OBVIOUS
  <2>4. SubSeq(<<g.purpose>>, 1, 1) = <<g.purpose>>
    BY <2>3, SubSeqFull
  <2>5. top.nodes = <<g.purpose>>
    BY <1>1, <2>1, <2>2, <2>4
  <2> QED
    BY <2>2, <2>5, SetOf
<1>5. below \in Spots /\ Tail(below.seen) \in Seq(Int) /\ ToSet(Tail(below.seen)) \subseteq D /\ (below.cut = TRUE <=> ToSet(Tail(below.seen)) # D)
  BY DescendantsRead
<1>6. read = [upstream |-> Tail(above.nodes), descendants |-> Tail(below.seen), omitted |-> above.cut \/ below.cut]
  BY ScopeIs
<1> HIDE DEF read, above, below, top, D, q
<1>7. read.upstream = Tail(above.nodes) /\ read.descendants = Tail(below.seen)
  BY <1>6
<1>8. read.omitted <=> (above.cut \/ below.cut = TRUE)
  <2>1. below.cut \in BOOLEAN
    BY <1>5 DEF Spots
  <2> DEFINE out == above.cut \/ below.cut
  <2>2. read = [upstream |-> Tail(above.nodes), descendants |-> Tail(below.seen), omitted |-> out]
    BY <1>6
  <2> HIDE DEF out
  <2>3. read.omitted = out
    BY <2>2
  <2> QED
    BY <2>1, <2>3, Zenon DEF out
<1>9. Context(g, {n, g.purpose}, limit) = [context |-> ToSet(above.nodes) \cup ToSet(top.nodes), omitted |-> above.cut \/ top.cut]
  <2>1. UNION {ToSet(Ancestry(g, m, limit).nodes) : m \in {n, g.purpose}} = ToSet(above.nodes) \cup ToSet(top.nodes)
    BY DEF above, top
  <2>2. (\E m \in {n, g.purpose} : Ancestry(g, m, limit).cut) <=> (above.cut \/ top.cut)
    BY Zenon DEF above, top
  <2> QED
    BY <2>1, <2>2 DEF Context
<1>10. Context(g, {n, g.purpose}, limit).context = {n} \cup ToSet(Tail(above.nodes)) \cup {g.purpose}
  BY <1>3, <1>4, <1>9
<1>11. Context(g, {n, g.purpose}, limit).omitted <=> above.cut
  <2> DEFINE out == above.cut \/ top.cut
             all == ToSet(above.nodes) \cup ToSet(top.nodes)
  <2>1. Context(g, {n, g.purpose}, limit) = [context |-> all, omitted |-> out]
    BY <1>9
  <2> HIDE DEF out, all
  <2>2. Context(g, {n, g.purpose}, limit).omitted = out
    BY <2>1
  <2> QED
    BY <1>4, <2>2, Zenon DEF out
<1>12. \A size \in 1 .. 2 : Turned(read.descendants, size) = read.descendants
  <2>1. \A size \in 1 .. 2 : size \in Nat \ {0}
    OBVIOUS
  <2> QED
    BY <1>5, <1>7, <2>1, PagesJoin
<1>13. read.omitted <=> (read.upstream # Tail(q) \/ ToSet(read.descendants) # D)
  BY <1>3, <1>5, <1>7, <1>8, Zenon
<1>14. Context(g, {n, g.purpose}, limit).context = {g.purpose, n} \cup ToSet(read.upstream)
  BY <1>7, <1>10
<1>15. Context(g, {n, g.purpose}, limit).omitted <=> read.upstream # Tail(q)
  BY <1>3, <1>7, <1>11, Zenon
<1>16. IsPrefix(read.upstream, Tail(q)) /\ ToSet(read.descendants) \subseteq D
  BY <1>3, <1>5, <1>7
<1> QED
  BY <1>12, <1>13, <1>14, <1>15, <1>16 DEF ReadsInFull, read, q, D

\* Queries.scope, context and _page, for any base, any patches and any of the limits: what a read
\* leaves out it says it leaves out, and its pages give all that it shows.
THEOREM ScopeReadsAreAlwaysComplete == Spec => []ScopeReadsAreComplete
<1>1. CInv => ScopeReadsAreComplete
  <2> SUFFICES ASSUME CInv, IsValid(proposed), NEW n \in NodesOf(proposed), NEW limit \in {{}, {0}, {1}, {2}}
               PROVE  ReadsInFull(proposed, n, limit)
    BY DEF ScopeReadsAreComplete, ReadsInFull
  <2>1. Wired(proposed)
    <3>1. IsProject(proposed) /\ Ended(proposed)
      BY DEF CInv, GInv, LedTo
    <3> QED
      BY <3>1, WiredIs
  <2>2. IsLimit(limit)
    BY DEF IsLimit
  <2> QED
    BY <2>1, <2>2, ScopeIsRead
<1> QED
  BY <1>1, Edited, PTL
-----------------------------------------------------------------------------
(* Queries.path: the loop. *)

Trail == [nodes : Seq(Int), edges : Seq(Int)]
Searches == [found : Seq(Trail), next : Nat \ {0}, cut : BOOLEAN]
Prolonged(t, a) == [nodes |-> Append(t.nodes, a[3]), edges |-> Append(t.edges, a[1])]

Leaving(g, t) == {a \in ReviewArcs(g) : a[2] = Last(t.nodes)}
Met(found) == {Last(found[i].nodes) : i \in DOMAIN found}
Fresh(g, found, t) == {a[3] : a \in Leaving(g, t)} \ Met(found)
Over(g, t, n) == {a[1] : a \in {x \in Leaving(g, t) : x[3] = n}}
Onto(g, t, n) == [nodes |-> Append(t.nodes, n), edges |-> Append(t.edges, Sorted(Over(g, t, n))[1])]
News(g, found, t) == [i \in 1 .. Cardinality(Fresh(g, found, t)) |-> Onto(g, t, Sorted(Fresh(g, found, t))[i])]
Past(g, limit, t) == Leaving(g, t) # {} /\ Beyond(Len(t.edges) + 1, limit)

LEMMA SearchedAre ==
    ASSUME NEW g, NEW limit, NEW at
    PROVE  LET t == at.found[at.next]
           IN  Searched(g, limit, at) =
                 [found |-> IF Past(g, limit, t) THEN at.found ELSE at.found \o News(g, at.found, t),
                  next |-> at.next + 1, cut |-> at.cut \/ Past(g, limit, t)]
BY DEF Searched, Past, News, Onto, Over, Fresh, Met, Leaving

\* What the arcs lead from and on to is there.
Joined(g) == Wired(g) /\ EdgesOf(g) \subseteq Int /\ \A a \in ReviewArcs(g) : a[2] \in NodesOf(g) /\ a[3] \in NodesOf(g)

LEMMA JoinedAre ==
    ASSUME NEW g, Wired(g), IsValid(g), EdgesOf(g) \subseteq Int
    PROVE  Joined(g)
<1>1. ASSUME NEW a \in ReviewArcs(g) PROVE a[2] \in NodesOf(g) /\ a[3] \in NodesOf(g)
  <2>1. a[1] \in EdgesOf(g) /\ {a[2], a[3]} \subseteq {g.edges[a[1]].source, g.edges[a[1]].target}
    BY ReviewArcsAre
  <2>2. g.edges[a[1]].source \in NodesOf(g) /\ g.edges[a[1]].target \in NodesOf(g)
    BY <2>1, ValidIs
  <2> QED
    BY <2>1, <2>2
<1> QED
  BY <1>1 DEF Joined

\* The nodes the arcs lead on to from the end of a trail, each once, none of them met before.
LEMMA NewsAre ==
    ASSUME NEW g, Joined(g), NEW found, NEW t \in Trail
    PROVE  LET s == News(g, found, t)
           IN  /\ s \in Seq(Trail)
               /\ \A i \in 1 .. Len(s) : \E a \in Leaving(g, t) :
                     /\ a[3] \notin Met(found) /\ s[i] = Prolonged(t, a) /\ Last(s[i].nodes) = a[3] /\ a[1] \in Int /\ a[3] \in Int
               /\ \A i, j \in 1 .. Len(s) : i # j => Last(s[i].nodes) # Last(s[j].nodes)
               /\ \A a \in Leaving(g, t) : a[3] \in Met(found) \/ \E i \in 1 .. Len(s) : Last(s[i].nodes) = a[3]
<1> DEFINE fresh == Fresh(g, found, t)
           news == Sorted(fresh)
           k == Cardinality(fresh)
           s == News(g, found, t)
<1>1. fresh \subseteq Int /\ IsFiniteSet(fresh)
  <2>1. fresh \in SUBSET NodesOf(g)
    BY DEF Fresh, Leaving, Joined
  <2>2. NodesOf(g) \subseteq Int /\ IsFiniteSet(NodesOf(g))
    BY DEF Joined, Wired
  <2> HIDE DEF fresh
  <2> QED
    BY <2>1, <2>2, FS_Subset
<1>2. ASSUME NEW n \in fresh
      PROVE  \E a \in Leaving(g, t) : /\ a[3] = n /\ n \notin Met(found) /\ a[1] \in Int /\ n \in Int
                                      /\ Onto(g, t, n) = Prolonged(t, a) /\ Onto(g, t, n) \in Trail /\ Last(Onto(g, t, n).nodes) = n
  <2>1. Over(g, t, n) \in SUBSET EdgesOf(g) /\ Over(g, t, n) # {} /\ n \notin Met(found)
    BY ReviewArcsAre DEF Over, Fresh, Leaving
  <2>2. IsFiniteSet(EdgesOf(g)) /\ EdgesOf(g) \subseteq Int
    BY DEF Joined, Wired
  <2>3. Over(g, t, n) \subseteq Int /\ IsFiniteSet(Over(g, t, n))
    BY <2>1, <2>2, FS_Subset
  <2>4. Sorted(Over(g, t, n))[1] \in Over(g, t, n)
    BY <2>1, <2>3, FirstIs
  <2>5. PICK a \in Leaving(g, t) : a[3] = n /\ a[1] = Sorted(Over(g, t, n))[1]
    BY <2>4 DEF Over
  <2>6. a[1] \in Int /\ n \in Int
    BY <1>1, <2>3, <2>4, <2>5
  <2>7. Onto(g, t, n) = Prolonged(t, a)
    BY <2>5 DEF Onto, Prolonged
  <2>8. t.nodes \in Seq(Int) /\ t.edges \in Seq(Int)
    BY DEF Trail
  <2>9. Append(t.nodes, n) \in Seq(Int) /\ Append(t.edges, a[1]) \in Seq(Int) /\ Last(Append(t.nodes, n)) = n
    BY <2>6, <2>8, LastIs
  <2>10. Onto(g, t, n) = [nodes |-> Append(t.nodes, n), edges |-> Append(t.edges, a[1])]
    BY <2>5 DEF Onto
  <2>11. Onto(g, t, n) \in Trail /\ Last(Onto(g, t, n).nodes) = n
    BY <2>9, <2>10 DEF Trail
  <2> QED
    BY <2>1, <2>5, <2>6, <2>7, <2>11
<1>3. /\ k \in Nat
      /\ news \in [1 .. k -> fresh]
      /\ \A i, j \in 1 .. k : i < j => news[i] < news[j]
      /\ \A n \in fresh : \E i \in 1 .. k : news[i] = n
  <2> HIDE DEF fresh
  <2> QED
    BY <1>1, SortedEnumerates
<1>4. s = [i \in 1 .. k |-> Onto(g, t, news[i])]
  BY DEF News
<1> HIDE DEF fresh, news, k, s
<1>5. \A i \in 1 .. k : news[i] \in fresh /\ s[i] = Onto(g, t, news[i])
  BY <1>3, <1>4
<1>6. s = [i \in 1 .. k |-> s[i]] /\ \A i \in 1 .. k : s[i] \in Trail
  BY <1>2, <1>4, <1>5
<1>7. s \in Seq(Trail) /\ Len(s) = k
  BY <1>3, <1>6, ListIs
<1>8. ASSUME NEW i \in 1 .. k
      PROVE  \E a \in Leaving(g, t) :
                /\ a[3] \notin Met(found) /\ s[i] = Prolonged(t, a) /\ Last(s[i].nodes) = a[3] /\ a[1] \in Int /\ a[3] \in Int
  <2>1. news[i] \in fresh /\ s[i] = Onto(g, t, news[i])
    BY <1>5
  <2> QED
    BY <1>2, <2>1
<1>9. \A i \in 1 .. k : Last(s[i].nodes) = news[i] /\ news[i] \in Int
  BY <1>1, <1>2, <1>5
<1>10. ASSUME NEW i \in 1 .. k, NEW j \in 1 .. k, i # j PROVE Last(s[i].nodes) # Last(s[j].nodes)
  <2>1. i < j \/ j < i
    BY <1>3, <1>10
  <2>2. news[i] # news[j]
    BY <1>3, <1>9, <2>1
  <2> QED
    BY <1>9, <2>2
<1>11. ASSUME NEW a \in Leaving(g, t), a[3] \notin Met(found) PROVE \E i \in 1 .. k : Last(s[i].nodes) = a[3]
  <2>1. a[3] \in fresh
    BY <1>11 DEF fresh, Fresh
  <2>2. PICK i \in 1 .. k : news[i] = a[3]
    BY <1>3, <2>1
  <2> QED
    BY <1>9, <2>2
<1> QED
  BY <1>7, <1>8, <1>10, <1>11 DEF s

LEMMA SearchedIs ==
    ASSUME NEW g, Joined(g), NEW limit, NEW at \in Searches, at.next <= Len(at.found)
    PROVE  Searched(g, limit, at) \in Searches
<1> DEFINE t == at.found[at.next]
           s == News(g, at.found, t)
<1>1. at.found \in Seq(Trail) /\ at.next \in Nat \ {0} /\ at.cut \in BOOLEAN
  BY DEF Searches
<1>2. at.next \in 1 .. Len(at.found)
  BY <1>1, LenProperties
<1>3. t \in Trail
  BY <1>1, <1>2, ElementOfSeq
<1>4. s \in Seq(Trail)
  BY <1>3, NewsAre
<1>5. Searched(g, limit, at) = [found |-> IF Past(g, limit, t) THEN at.found ELSE at.found \o s,
                                next |-> at.next + 1, cut |-> at.cut \/ Past(g, limit, t)]
  BY SearchedAre
<1>6. at.found \o s \in Seq(Trail)
  BY <1>1, <1>4, SetOf
<1> HIDE DEF s, t
<1>7. at.next + 1 \in Nat \ {0} /\ (at.cut \/ Past(g, limit, t)) \in BOOLEAN
  BY <1>1
<1> QED
  BY <1>1, <1>5, <1>6, <1>7 DEF Searches

Seek(g, target, limit) ==
    CHOOSE search : search = [at \in Searches |->
        IF at.next > Len(at.found) \/ Hits(at.found, target) # {} THEN at ELSE search[Searched(g, limit, at)]]

LEMMA PathIs ==
    ASSUME NEW g, NEW source, NEW target, NEW limit
    PROVE  LET result == Seek(g, target, limit)[[found |-> <<[nodes |-> <<source>>, edges |-> <<>>]>>, next |-> 1, cut |-> FALSE]]
           IN  PathBetween(g, source, target, limit) = [path |-> Hits(result.found, target), omitted |-> result.cut]
BY DEF PathBetween, Seek, Searches, Trail

Stopped(target) == {at \in Searches : at.next > Len(at.found) \/ Hits(at.found, target) # {}}
Going(g, target, limit) == [at \in Searches |-> IF at \in Stopped(target) THEN at ELSE Searched(g, limit, at)]

LEMMA SeekIs ==
    ASSUME NEW g, Joined(g), NEW target, NEW limit
    PROVE  Solves(Seek(g, target, limit), Searches, Stopped(target), [at \in Searches |-> at], Going(g, target, limit))
<1> DEFINE done == Stopped(target)
           out  == [at \in Searches |-> at]
           next == Going(g, target, limit)
           Def(f) == [at \in Searches |-> IF at.next > Len(at.found) \/ Hits(at.found, target) # {} THEN at ELSE f[Searched(g, limit, at)]]
<1>1. next \in [Searches -> Searches]
  <2>1. ASSUME NEW at \in Searches, at \notin done PROVE Searched(g, limit, at) \in Searches
    <3>1. ~(at.next > Len(at.found)) /\ at.next \in Nat /\ at.found \in Seq(Trail)
      BY <2>1 DEF Stopped, Searches
    <3>2. at.next <= Len(at.found)
      BY <3>1, LenProperties
    <3> QED
      BY <3>2, SearchedIs
  <2> QED
    BY <2>1 DEF Going
<1>2. ASSUME NEW f PROVE Def(f) = [at \in Searches |-> IF at \in done THEN out[at] ELSE f[next[at]]]
  BY DEF Going, Stopped
<1>3. Seek(g, target, limit) = CHOOSE f : f = Def(f)
  BY DEF Seek
<1> HIDE DEF done, out, next
<1>4. PICK f : Solves(f, Searches, done, out, next)
  BY <1>1, TailRecursion
<1>5. f = Def(f)
  BY <1>2, <1>4 DEF Solves
<1>6. Seek(g, target, limit) = Def(Seek(g, target, limit))
  <2> HIDE DEF Def
  <2> QED
    BY <1>3, <1>5
<1> QED
  BY <1>2, <1>6 DEF Solves, done, out, next
-----------------------------------------------------------------------------
(* Queries.path: one turn of the loop. *)

End(found, i) == Last(found[i].nodes)
Deep(found, i) == Len(found[i].edges)
IsTrail(g, source, t) ==
    /\ Len(t.nodes) = Len(t.edges) + 1 /\ t.nodes[1] = source
    /\ \A i \in 1 .. Len(t.nodes) : t.nodes[i] \in NodesOf(g)
    /\ \A i \in 1 .. Len(t.edges) : <<t.edges[i], t.nodes[i], t.nodes[i + 1]>> \in ReviewArcs(g)

LEMMA ProlongedIs ==
    ASSUME NEW g, Joined(g), NEW source, NEW t \in Trail, IsTrail(g, source, t),
           NEW a \in Leaving(g, t), a[1] \in Int, a[3] \in Int
    PROVE  IsTrail(g, source, Prolonged(t, a)) /\ Len(Prolonged(t, a).edges) = Len(t.edges) + 1
<1> DEFINE ns == t.nodes
           es == t.edges
           l == Len(es)
           p == Append(ns, a[3])
           q == Append(es, a[1])
<1>1. ns \in Seq(Int) /\ es \in Seq(Int)
  BY DEF Trail
<1>2. l \in Nat /\ Len(ns) = l + 1 /\ ns[1] = source
  BY <1>1, LenProperties DEF IsTrail
<1>3. Len(p) = l + 2 /\ p[l + 2] = a[3] /\ \A i \in 1 .. l + 1 : p[i] = ns[i]
  <2>1. Len(p) = Len(ns) + 1 /\ p[Len(ns) + 1] = a[3] /\ \A i \in 1 .. Len(ns) : p[i] = ns[i]
    BY <1>1, AppendedIs
  <2> HIDE DEF p, l
  <2>2. Len(ns) + 1 = l + 2
    BY <1>2
  <2> QED
    BY <1>2, <2>1, <2>2
<1>4. Len(q) = l + 1 /\ q[l + 1] = a[1] /\ \A i \in 1 .. l : q[i] = es[i]
  BY <1>1, AppendedIs
<1>5. a = <<a[1], a[2], a[3]>> /\ a \in ReviewArcs(g) /\ a[2] = ns[l + 1]
  BY <1>2, ReviewArcsAre DEF Leaving, Last
<1>6. \A i \in 1 .. l + 1 : ns[i] \in NodesOf(g)
  BY <1>2 DEF IsTrail
<1>7. \A i \in 1 .. l : <<es[i], ns[i], ns[i + 1]>> \in ReviewArcs(g)
  BY DEF IsTrail
<1>8. Prolonged(t, a).nodes = p /\ Prolonged(t, a).edges = q
  BY DEF Prolonged
<1> HIDE DEF ns, es, l, p, q
<1>9. \A i \in 1 .. l + 2 : p[i] \in NodesOf(g)
  <2> SUFFICES ASSUME NEW i \in 1 .. l + 2 PROVE p[i] \in NodesOf(g)
    OBVIOUS
  <2>1. CASE i = l + 2
    BY <1>3, <1>5, <2>1 DEF Joined
  <2>2. CASE i # l + 2
    <3>1. i \in 1 .. l + 1
      BY <1>2, <2>2
    <3> QED
      BY <1>3, <1>6, <3>1
  <2> QED
    BY <2>1, <2>2
<1>10. \A i \in 1 .. l + 1 : <<q[i], p[i], p[i + 1]>> \in ReviewArcs(g)
  <2> SUFFICES ASSUME NEW i \in 1 .. l + 1 PROVE <<q[i], p[i], p[i + 1]>> \in ReviewArcs(g)
    OBVIOUS
  <2>1. CASE i = l + 1
    <3>1. i + 1 = l + 2 /\ i \in 1 .. l + 1
      BY <1>2, <2>1
    <3>2. q[i] = a[1] /\ p[i] = a[2] /\ p[i + 1] = a[3]
      BY <1>3, <1>4, <1>5, <2>1, <3>1
    <3> QED
      BY <1>5, <3>2
  <2>2. CASE i # l + 1
    <3>1. i \in 1 .. l /\ i \in 1 .. l + 1 /\ i + 1 \in 1 .. l + 1
      BY <1>2, <2>2
    <3> QED
      BY <1>3, <1>4, <1>7, <3>1
  <2> QED
    BY <2>1, <2>2
<1>11. 1 \in 1 .. l + 1 /\ l + 2 = l + 1 + 1
  BY <1>2
<1>12. p[1] = source
  BY <1>2, <1>3, <1>11
<1> DEFINE z == Prolonged(t, a)
<1>13. z.nodes = p /\ z.edges = q
  BY <1>8
<1> HIDE DEF z
<1>14. Len(z.nodes) = l + 2 /\ Len(z.edges) = l + 1 /\ l + 2 = l + 1 + 1
  BY <1>3, <1>4, <1>11, <1>13
<1>15. IsTrail(g, source, z)
  BY <1>9, <1>10, <1>12, <1>13, <1>14 DEF IsTrail
<1> QED
  BY <1>14, <1>15 DEF z, l, es

\* What a turn keeps, what it adds, and what it has done with the arcs.
Keeps(at, to) ==
    /\ to \in Searches /\ to.next = at.next + 1 /\ Len(to.found) >= Len(at.found) /\ (at.cut = TRUE => to.cut = TRUE)
    /\ \A i \in 1 .. Len(at.found) : to.found[i] = at.found[i]
Adds(g, source, limit, f, r, d) ==
    \A i \in 1 .. Len(r) : i > Len(f) =>
        /\ IsTrail(g, source, r[i]) /\ Deep(r, i) = d + 1 /\ ~Beyond(d + 1, limit)
        /\ \A j \in 1 .. Len(f) : End(r, i) # End(f, j)
        /\ \A j \in 1 .. Len(r) : j > Len(f) /\ i # j => End(r, i) # End(r, j)
Leads(g, limit, t, to) ==
    \A a \in Leaving(g, t) : \/ \E i \in 1 .. Len(to.found) : End(to.found, i) = a[3]
                             \/ to.cut = TRUE /\ Beyond(Len(t.edges) + 1, limit)

LEMMA SearchedStep ==
    ASSUME NEW g, Joined(g), NEW source, NEW limit, NEW at \in Searches, at.next <= Len(at.found),
           \A i \in 1 .. Len(at.found) : IsTrail(g, source, at.found[i])
    PROVE  LET to == Searched(g, limit, at)
               t == at.found[at.next]
           IN  /\ Keeps(at, to) /\ Adds(g, source, limit, at.found, to.found, Len(t.edges)) /\ Leads(g, limit, t, to)
<1> DEFINE to == Searched(g, limit, at)
           f == at.found
           L == Len(f)
           t == f[at.next]
           d == Len(t.edges)
           s == News(g, f, t)
           k == Len(s)
           past == Past(g, limit, t)
<1>1. f \in Seq(Trail) /\ at.next \in Nat \ {0} /\ at.cut \in BOOLEAN
  BY DEF Searches
<1>2. L \in Nat /\ at.next \in 1 .. L /\ DOMAIN f = 1 .. L
  BY <1>1, LenProperties
<1>3. t \in Trail /\ IsTrail(g, source, t)
  BY <1>1, <1>2, ElementOfSeq
<1>4. to \in Searches
  BY SearchedIs
<1>5. to = [found |-> IF past THEN f ELSE f \o s, next |-> at.next + 1, cut |-> at.cut \/ past]
  BY SearchedAre
<1>6. /\ s \in Seq(Trail)
      /\ \A i \in 1 .. k : \E a \in Leaving(g, t) :
            a[3] \notin Met(f) /\ s[i] = Prolonged(t, a) /\ Last(s[i].nodes) = a[3] /\ a[1] \in Int /\ a[3] \in Int
      /\ \A i, j \in 1 .. k : i # j => Last(s[i].nodes) # Last(s[j].nodes)
      /\ \A a \in Leaving(g, t) : a[3] \in Met(f) \/ \E i \in 1 .. k : Last(s[i].nodes) = a[3]
  BY <1>3, NewsAre
<1>7. Met(f) = {End(f, i) : i \in 1 .. L}
  BY <1>2 DEF Met, End
<1>8. past <=> Leaving(g, t) # {} /\ Beyond(d + 1, limit)
  BY DEF Past
<1> HIDE DEF to, f, L, t, d, s, k, past
<1>9. ASSUME past PROVE Keeps(at, to) /\ Adds(g, source, limit, f, to.found, d) /\ Leads(g, limit, t, to)
  <2>1. to.found = f /\ to.next = at.next + 1
    BY <1>5, <1>9
  <2>2. to.cut = TRUE
    BY <1>5, <1>9
  <2>3. Beyond(d + 1, limit) = TRUE
    BY <1>8, <1>9 DEF Beyond
  <2>4. \A i \in 1 .. L : ~(i > L)
    BY <1>2
  <2>5. L >= L
    BY <1>2
  <2>6. Keeps(at, to)
    BY <1>4, <2>1, <2>2, <2>5 DEF Keeps, f, L
  <2>7. Adds(g, source, limit, f, to.found, d)
    BY <2>1, <2>4 DEF Adds, L
  <2>8. Leads(g, limit, t, to)
    BY <2>2, <2>3 DEF Leads, d
  <2> QED
    BY <2>6, <2>7, <2>8
<1>10. ASSUME ~past PROVE Keeps(at, to) /\ Adds(g, source, limit, f, to.found, d) /\ Leads(g, limit, t, to)
  <2>1. to.found = f \o s /\ to.next = at.next + 1
    BY <1>5, <1>10
  <2>2. at.cut = TRUE => to.cut = TRUE
    <3> SUFFICES ASSUME at.cut = TRUE PROVE to.cut = TRUE
      OBVIOUS
    <3>1. (at.cut \/ past) = TRUE
      OBVIOUS
    <3> QED
      BY <1>5, <3>1
  <2>3. k \in Nat /\ f = [i \in 1 .. L |-> f[i]] /\ s = [i \in 1 .. k |-> s[i]]
    BY <1>1, <1>2, <1>6, LenProperties DEF L, k
  <2> DEFINE r == f \o s
  <2>4. /\ Len(r) = L + k
        /\ \A i \in 1 .. L : r[i] = f[i]
        /\ \A i \in 1 .. k : r[L + i] = s[i]
        /\ \A i \in 1 .. L + k : i \in 1 .. L \/ \E j \in 1 .. k : i = L + j
    BY <1>2, <2>3, JoinedIs
  <2> HIDE DEF r
  <2>5. \A i \in 1 .. k : /\ Last(s[i].nodes) \notin Met(f) /\ IsTrail(g, source, s[i]) /\ Len(s[i].edges) = d + 1
                          /\ ~Beyond(d + 1, limit)
    <3> SUFFICES ASSUME NEW i \in 1 .. k
                 PROVE  /\ Last(s[i].nodes) \notin Met(f) /\ IsTrail(g, source, s[i]) /\ Len(s[i].edges) = d + 1
                        /\ ~Beyond(d + 1, limit)
      OBVIOUS
    <3>1. PICK a \in Leaving(g, t) :
            a[3] \notin Met(f) /\ s[i] = Prolonged(t, a) /\ Last(s[i].nodes) = a[3] /\ a[1] \in Int /\ a[3] \in Int
      BY <1>6
    <3>2. IsTrail(g, source, Prolonged(t, a)) /\ Len(Prolonged(t, a).edges) = d + 1
      BY <1>3, <3>1, ProlongedIs DEF d
    <3>3. ~Beyond(d + 1, limit)
      BY <1>8, <1>10, <3>1
    <3> QED
      BY <3>1, <3>2, <3>3
  <2>6. ASSUME NEW i \in 1 .. L + k, i > L
        PROVE  \E x \in 1 .. k : i = L + x /\ r[i] = s[x]
    <3>1. i \notin 1 .. L
      BY <1>2, <2>6
    <3> QED
      BY <2>4, <3>1
  <2>7. ASSUME NEW i \in 1 .. L + k, i > L
        PROVE  /\ IsTrail(g, source, r[i]) /\ Deep(r, i) = d + 1 /\ ~Beyond(d + 1, limit)
               /\ \A j \in 1 .. L : End(r, i) # End(f, j)
               /\ \A j \in 1 .. L + k : j > L /\ i # j => End(r, i) # End(r, j)
    <3>1. PICK x \in 1 .. k : i = L + x /\ r[i] = s[x]
      BY <2>6, <2>7
    <3>2. IsTrail(g, source, r[i]) /\ Deep(r, i) = d + 1 /\ ~Beyond(d + 1, limit)
      BY <2>5, <3>1 DEF Deep
    <3>3. \A j \in 1 .. L : End(r, i) # End(f, j)
      BY <1>7, <2>5, <3>1 DEF End
    <3>4. ASSUME NEW j \in 1 .. L + k, j > L, i # j PROVE End(r, i) # End(r, j)
      <4>1. PICK y \in 1 .. k : j = L + y /\ r[j] = s[y]
        BY <2>6, <3>4
      <4>2. x # y
        BY <3>1, <3>4, <4>1
      <4> QED
        BY <1>6, <3>1, <4>1, <4>2 DEF End
    <3> QED
      BY <3>2, <3>3, <3>4
  <2>8. ASSUME NEW a \in Leaving(g, t) PROVE \E i \in 1 .. L + k : End(r, i) = a[3]
    <3>1. CASE a[3] \in Met(f)
      <4>1. PICK i \in 1 .. L : End(f, i) = a[3]
        BY <1>7, <3>1
      <4>2. i \in 1 .. L + k /\ End(r, i) = a[3]
        BY <1>2, <2>3, <2>4, <4>1 DEF End
      <4> QED
        BY <4>2
    <3>2. CASE a[3] \notin Met(f)
      <4>1. PICK i \in 1 .. k : Last(s[i].nodes) = a[3]
        BY <1>6, <3>2
      <4>2. L + i \in 1 .. L + k /\ r[L + i] = s[i]
        BY <1>2, <2>3, <2>4
      <4> QED
        BY <4>1, <4>2 DEF End
    <3> QED
      BY <3>1, <3>2
  <2>9. to.found = r /\ L + k >= L
    BY <1>2, <2>1, <2>3 DEF r
  <2>10. Keeps(at, to)
    <3>1. \A i \in 1 .. L : to.found[i] = f[i]
      BY <2>4, <2>9
    <3>2. Len(to.found) >= L
      BY <2>4, <2>9
    <3> QED
      BY <1>4, <2>1, <2>2, <3>1, <3>2 DEF Keeps, f, L
  <2>11. Adds(g, source, limit, f, r, d)
    BY <2>4, <2>7 DEF Adds, L
  <2>12. \A a \in Leaving(g, t) : \E i \in 1 .. Len(to.found) : End(to.found, i) = a[3]
    BY <2>4, <2>8, <2>9
  <2>13. Leads(g, limit, t, to)
    BY <2>12 DEF Leads
  <2> QED
    BY <2>9, <2>10, <2>11, <2>13
<1> QED
  BY <1>9, <1>10 DEF to, f, t, d
-----------------------------------------------------------------------------
(* Queries.path: what holds at each turn. *)

Trails(g, source, limit, f) == \A i \in 1 .. Len(f) : IsTrail(g, source, f[i]) /\ ~Beyond(Deep(f, i), limit)
Separate(f) == \A i, j \in 1 .. Len(f) : i # j => End(f, i) # End(f, j)
Levels(f) == \A i \in 1 .. Len(f) : Deep(f, i) <= i - 1 /\ \A j \in 1 .. Len(f) : i < j => Deep(f, i) <= Deep(f, j)
Nearby(f, next) == next <= Len(f) => \A i \in 1 .. Len(f) : Deep(f, i) <= Deep(f, next) + 1
Spread(g, limit, at) ==
    \A j \in 1 .. Len(at.found) : j < at.next => \A a \in Leaving(g, at.found[j]) :
        \/ \E i \in 1 .. Len(at.found) : End(at.found, i) = a[3] /\ Deep(at.found, i) <= Deep(at.found, j) + 1
        \/ at.cut = TRUE /\ Beyond(Deep(at.found, j) + 1, limit)

\* Trails are found in the order of their lengths, one to a node; the arcs from the end of each
\* that had its turn lead to ends of trails no longer than going on from it.
Seeking(g, source, limit, at) ==
    /\ 1 <= Len(at.found) /\ at.next <= Len(at.found) + 1
    /\ Trails(g, source, limit, at.found) /\ Separate(at.found) /\ Levels(at.found)
    /\ Nearby(at.found, at.next) /\ Spread(g, limit, at)

LEMMA SearchesAre ==
    ASSUME NEW at \in Searches
    PROVE  /\ at.found \in Seq(Trail) /\ Len(at.found) \in Nat /\ at.next \in Nat \ {0} /\ at.cut \in BOOLEAN
           /\ DOMAIN at.found = 1 .. Len(at.found)
           /\ \A i \in 1 .. Len(at.found) : at.found[i] \in Trail /\ Deep(at.found, i) \in Nat
<1>1. at.found \in Seq(Trail) /\ at.next \in Nat \ {0} /\ at.cut \in BOOLEAN
  BY DEF Searches
<1>2. Len(at.found) \in Nat /\ DOMAIN at.found = 1 .. Len(at.found)
  BY <1>1, LenProperties
<1>3. ASSUME NEW i \in 1 .. Len(at.found) PROVE at.found[i] \in Trail /\ Deep(at.found, i) \in Nat
  <2>1. at.found[i] \in Trail
    BY <1>1, <1>3, ElementOfSeq
  <2>2. at.found[i].edges \in Seq(Int)
    BY <2>1 DEF Trail
  <2> QED
    BY <2>1, <2>2, LenProperties DEF Deep
<1> QED
  BY <1>1, <1>2, <1>3

LEMMA SeekingStep ==
    ASSUME NEW g, Joined(g), NEW source, NEW limit,
           NEW at \in Searches, Seeking(g, source, limit, at), at.next <= Len(at.found)
    PROVE  Searched(g, limit, at) \in Searches /\ Seeking(g, source, limit, Searched(g, limit, at))
<1> DEFINE to == Searched(g, limit, at)
           f == at.found
           r == to.found
           L == Len(f)
           M == Len(r)
           x == at.next
           d == Deep(f, x)
<1>1. /\ L \in Nat /\ x \in Nat \ {0} /\ x <= L /\ x \in 1 .. L /\ 1 <= L
      /\ \A i \in 1 .. L : Deep(f, i) \in Nat
  BY SearchesAre DEF Seeking
<1>2. Keeps(at, to) /\ Adds(g, source, limit, f, r, d) /\ Leads(g, limit, f[x], to)
  <2>1. \A i \in 1 .. L : IsTrail(g, source, f[i])
    BY DEF Seeking, Trails
  <2> QED
    BY <2>1, SearchedStep DEF Deep
<1> HIDE DEF to
<1>3. /\ to \in Searches /\ to.next = x + 1 /\ M >= L /\ (at.cut = TRUE => to.cut = TRUE)
      /\ \A i \in 1 .. L : r[i] = f[i]
  BY <1>2 DEF Keeps
<1>4. M \in Nat /\ \A i \in 1 .. M : Deep(r, i) \in Nat
  BY <1>3, SearchesAre
<1>5. \A i \in 1 .. L : i \in 1 .. M /\ Deep(r, i) = Deep(f, i) /\ End(r, i) = End(f, i)
  <2> HIDE DEF f, r, L, M
  <2> QED
    BY <1>1, <1>3, <1>4 DEF Deep, End
<1>6. \A i \in 1 .. M : i > L =>
        /\ IsTrail(g, source, r[i]) /\ Deep(r, i) = d + 1 /\ ~Beyond(d + 1, limit)
        /\ \A j \in 1 .. L : End(r, i) # End(f, j)
        /\ \A j \in 1 .. M : j > L /\ i # j => End(r, i) # End(r, j)
  BY <1>2 DEF Adds
<1>7. /\ \A i \in 1 .. L : IsTrail(g, source, f[i]) /\ ~Beyond(Deep(f, i), limit)
      /\ \A i, j \in 1 .. L : i # j => End(f, i) # End(f, j)
      /\ \A i \in 1 .. L : Deep(f, i) <= i - 1 /\ \A j \in 1 .. L : i < j => Deep(f, i) <= Deep(f, j)
      /\ \A i \in 1 .. L : Deep(f, i) <= d + 1
  BY <1>1 DEF Seeking, Trails, Separate, Levels, Nearby
<1>8. \A j \in 1 .. L : j < x => \A a \in Leaving(g, f[j]) :
        \/ \E i \in 1 .. L : End(f, i) = a[3] /\ Deep(f, i) <= Deep(f, j) + 1
        \/ at.cut = TRUE /\ Beyond(Deep(f, j) + 1, limit)
  BY DEF Seeking, Spread
<1>9. \A a \in Leaving(g, f[x]) : \/ \E i \in 1 .. M : End(r, i) = a[3]
                                  \/ to.cut = TRUE /\ Beyond(d + 1, limit)
  BY <1>2 DEF Leads, Deep
<1> HIDE DEF f, r, L, M, x
<1>10. d \in Nat
  BY <1>1
<1> HIDE DEF d
<1>11. \A i \in 1 .. M : i \in 1 .. L \/ i > L
  BY <1>1, <1>4
<1>12. Trails(g, source, limit, r)
  <2> SUFFICES ASSUME NEW i \in 1 .. M PROVE IsTrail(g, source, r[i]) /\ ~Beyond(Deep(r, i), limit)
    BY DEF Trails, M
  <2>1. CASE i \in 1 .. L
    BY <1>3, <1>5, <1>7, <2>1
  <2>2. CASE i > L
    BY <1>6, <2>2
  <2> QED
    BY <1>11, <2>1, <2>2
<1>13. Separate(r)
  <2> SUFFICES ASSUME NEW i \in 1 .. M, NEW j \in 1 .. M, i # j PROVE End(r, i) # End(r, j)
    BY DEF Separate, M
  <2>1. CASE i > L /\ j > L
    BY <1>6, <2>1
  <2>2. CASE i > L /\ j \in 1 .. L
    BY <1>5, <1>6, <2>2
  <2>3. CASE i \in 1 .. L /\ j > L
    BY <1>5, <1>6, <2>3
  <2>4. CASE i \in 1 .. L /\ j \in 1 .. L
    BY <1>5, <1>7, <2>4
  <2> QED
    BY <1>11, <2>1, <2>2, <2>3, <2>4
<1>14. \A i \in 1 .. M : Deep(r, i) <= d + 1
  <2> SUFFICES ASSUME NEW i \in 1 .. M PROVE Deep(r, i) <= d + 1
    OBVIOUS
  <2>1. CASE i \in 1 .. L
    BY <1>5, <1>7, <2>1
  <2>2. CASE i > L
    BY <1>6, <1>10, <2>2
  <2> QED
    BY <1>11, <2>1, <2>2
<1>15. d <= x - 1
  BY <1>1, <1>7 DEF d
<1>16. Levels(r)
  <2> SUFFICES ASSUME NEW i \in 1 .. M PROVE Deep(r, i) <= i - 1 /\ \A j \in 1 .. M : i < j => Deep(r, i) <= Deep(r, j)
    BY DEF Levels, M
  <2>1. CASE i \in 1 .. L
    <3>1. Deep(r, i) <= i - 1
      BY <1>5, <1>7, <2>1
    <3>2. ASSUME NEW j \in 1 .. M, i < j PROVE Deep(r, i) <= Deep(r, j)
      <4>1. CASE j \in 1 .. L
        BY <1>5, <1>7, <2>1, <3>2, <4>1
      <4>2. CASE j > L
        <5>1. Deep(r, j) = d + 1
          BY <1>6, <4>2
        <5> QED
          BY <1>14, <5>1
      <4> QED
        BY <1>11, <4>1, <4>2
    <3> QED
      BY <3>1, <3>2
  <2>2. CASE i > L
    <3>1. Deep(r, i) = d + 1
      BY <1>6, <2>2
    <3>2. d + 1 <= i - 1
      BY <1>1, <1>10, <1>15, <2>2
    <3>3. ASSUME NEW j \in 1 .. M, i < j PROVE Deep(r, j) = d + 1
      <4>1. j > L
        BY <1>1, <1>4, <2>2, <3>3
      <4> QED
        BY <1>6, <4>1
    <3>4. d + 1 <= d + 1
      BY <1>10
    <3> QED
      BY <3>1, <3>2, <3>3, <3>4
  <2> QED
    BY <1>11, <2>1, <2>2
<1>17. Nearby(r, x + 1)
  <2> SUFFICES ASSUME x + 1 <= M, NEW i \in 1 .. M PROVE Deep(r, i) <= Deep(r, x + 1) + 1
    BY DEF Nearby, M
  <2>1. x + 1 \in 1 .. M /\ Deep(r, x + 1) \in Nat /\ Deep(r, i) \in Nat
    BY <1>1, <1>4
  <2>2. d <= Deep(r, x + 1)
    <3>1. CASE x + 1 \in 1 .. L
      <4>1. x < x + 1
        BY <1>1
      <4> QED
        BY <1>1, <1>5, <1>7, <3>1, <4>1 DEF d
    <3>2. CASE x + 1 > L
      BY <1>6, <1>10, <2>1, <3>2
    <3> QED
      BY <1>11, <2>1, <3>1, <3>2
  <2>3. Deep(r, i) <= d + 1
    BY <1>14
  <2> QED
    BY <1>10, <2>1, <2>2, <2>3
<1>18. Spread(g, limit, to)
  <2> SUFFICES ASSUME NEW j \in 1 .. M, j < x + 1, NEW a \in Leaving(g, r[j])
               PROVE  \/ \E i \in 1 .. M : End(r, i) = a[3] /\ Deep(r, i) <= Deep(r, j) + 1
                      \/ to.cut = TRUE /\ Beyond(Deep(r, j) + 1, limit)
    BY <1>3 DEF Spread, M, r
  <2>1. j \in 1 .. L /\ r[j] = f[j] /\ Deep(r, j) = Deep(f, j)
    <3>1. j \in 1 .. L
      BY <1>1, <1>4
    <3> QED
      BY <1>3, <1>5, <3>1
  <2>2. CASE j < x
    <3>1. CASE \E i \in 1 .. L : End(f, i) = a[3] /\ Deep(f, i) <= Deep(f, j) + 1
      <4>1. PICK i \in 1 .. L : End(f, i) = a[3] /\ Deep(f, i) <= Deep(f, j) + 1
        BY <3>1
      <4>2. i \in 1 .. M /\ End(r, i) = a[3] /\ Deep(r, i) <= Deep(r, j) + 1
        BY <1>5, <2>1, <4>1
      <4> QED
        BY <4>2
    <3>2. CASE at.cut = TRUE /\ Beyond(Deep(f, j) + 1, limit)
      BY <1>3, <2>1, <3>2
    <3> QED
      BY <1>8, <2>1, <2>2, <3>1, <3>2
  <2>3. CASE j = x
    <3>1. Deep(r, j) = d
      BY <2>1, <2>3 DEF d
    <3> QED
      BY <1>9, <1>14, <2>1, <2>3, <3>1
  <2>4. j < x \/ j = x
    BY <1>1, <1>4
  <2> QED
    BY <2>2, <2>3, <2>4
<1>19. 1 <= M /\ x + 1 <= M + 1
  BY <1>1, <1>3, <1>4
<1> QED
  BY <1>3, <1>12, <1>13, <1>16, <1>17, <1>18, <1>19 DEF Seeking, to, r, M
-----------------------------------------------------------------------------
(* Queries.path: what is found. *)

Steps(g, k, p) == \A i \in 1 .. k : \E a \in ReviewArcs(g) : a[2] = p[i] /\ a[3] = p[i + 1]

\* The first trail is the source.
LEMMA SourceIsFirst ==
    ASSUME NEW g, NEW source, NEW limit, NEW at \in Searches, Seeking(g, source, limit, at)
    PROVE  1 \in 1 .. Len(at.found) /\ End(at.found, 1) = source /\ Deep(at.found, 1) = 0
<1>1. 1 \in 1 .. Len(at.found)
  BY SearchesAre DEF Seeking
<1>2. Deep(at.found, 1) \in Nat /\ Deep(at.found, 1) <= 1 - 1 /\ IsTrail(g, source, at.found[1])
  BY <1>1, SearchesAre DEF Seeking, Levels, Trails
<1>3. Deep(at.found, 1) = 0
  BY <1>2
<1>4. Len(at.found[1].nodes) = 0 + 1 /\ at.found[1].nodes[1] = source
  BY <1>2, <1>3 DEF IsTrail, Deep
<1>5. End(at.found, 1) = source
  BY <1>4 DEF End, Last
<1> QED
  BY <1>1, <1>3, <1>5

Allowed(at, k, limit) == ~(at.cut = TRUE /\ Beyond(k, limit))
HadTheirTurn(at, k) == \A i \in 1 .. Len(at.found) : Deep(at.found, i) < k => i < at.next
EndsWithin(at, n, k) == \E i \in 1 .. Len(at.found) : End(at.found, i) = n /\ Deep(at.found, i) <= k

\* Once all shorter trails had their turn, a walk the limit allows ends where a trail does.
LEMMA WalksAreMet ==
    ASSUME NEW g, NEW source, NEW limit, IsLimit(limit), NEW at \in Searches, Seeking(g, source, limit, at),
           NEW k \in Nat, NEW p, p[1] = source, Steps(g, k, p), Allowed(at, k, limit), HadTheirTurn(at, k)
    PROVE  EndsWithin(at, p[k + 1], k)
<1> DEFINE L == Len(at.found)
           E(i) == End(at.found, i)
           D(i) == Deep(at.found, i)
           T == {l \in Nat : l <= k => \E i \in 1 .. L : E(i) = p[l + 1] /\ D(i) <= l}
<1>1. \A i \in 1 .. L : D(i) \in Nat /\ (D(i) < k => i < at.next)
  BY SearchesAre DEF HadTheirTurn
<1>2. ASSUME NEW j \in 1 .. L, j < at.next, NEW a \in ReviewArcs(g), a[2] = E(j)
      PROVE  (\E i \in 1 .. L : E(i) = a[3] /\ D(i) <= D(j) + 1) \/ (at.cut = TRUE /\ Beyond(D(j) + 1, limit))
  BY <1>2 DEF Seeking, Spread, Leaving, End
<1>3. 1 \in 1 .. L /\ E(1) = source /\ D(1) = 0
  BY SourceIsFirst
<1> HIDE DEF E, D, L
<1>4. 0 \in T
  <2>1. p[0 + 1] = source /\ D(1) <= 0
    BY <1>3
  <2> QED
    BY <1>3, <2>1
<1>5. ASSUME NEW l \in Nat, l \in T PROVE l + 1 \in T
  <2> SUFFICES ASSUME l + 1 <= k PROVE \E i \in 1 .. L : E(i) = p[l + 1 + 1] /\ D(i) <= l + 1
    OBVIOUS
  <2>1. l <= k /\ l < k /\ l + 1 \in 1 .. k
    OBVIOUS
  <2>2. PICK j \in 1 .. L : E(j) = p[l + 1] /\ D(j) <= l
    BY <1>5, <2>1
  <2>3. D(j) \in Nat /\ D(j) < k /\ j < at.next /\ D(j) + 1 <= l + 1 /\ D(j) + 1 <= k
    <3>1. D(j) \in Nat
      BY <1>1
    <3>2. D(j) < k /\ D(j) + 1 <= l + 1 /\ D(j) + 1 <= k
      BY <2>1, <2>2, <3>1
    <3> QED
      BY <1>1, <3>1, <3>2
  <2>4. PICK a \in ReviewArcs(g) : a[2] = p[l + 1] /\ a[3] = p[l + 1 + 1]
    BY <2>1 DEF Steps
  <2>5. ~(at.cut = TRUE /\ Beyond(D(j) + 1, limit))
    <3>1. Beyond(D(j) + 1, limit) => Beyond(k, limit)
      BY <2>3 DEF Beyond, IsLimit
    <3> QED
      BY <3>1 DEF Allowed
  <2>6. PICK i \in 1 .. L : E(i) = a[3] /\ D(i) <= D(j) + 1
    BY <1>2, <2>2, <2>3, <2>4, <2>5
  <2>7. D(i) \in Nat
    BY <1>1
  <2>8. D(i) <= l + 1
    BY <2>3, <2>6, <2>7
  <2> QED
    BY <2>4, <2>6, <2>8
<1> HIDE DEF T
<1>6. k \in T
  BY <1>4, <1>5, Induction
<1> QED
  BY <1>6 DEF T, E, D, L, EndsWithin

\* A trail is a walk.
LEMMA TrailIsWalk ==
    ASSUME NEW g, NEW source, NEW t \in Trail, IsTrail(g, source, t)
    PROVE  LET d == Len(t.edges)
               p == [i \in 1 .. d + 1 |-> t.nodes[i]]
           IN  /\ d \in Nat /\ p \in [1 .. d + 1 -> NodesOf(g)] /\ p[1] = source /\ p[d + 1] = Last(t.nodes) /\ Steps(g, d, p)
               /\ t.nodes[1] = source /\ t.nodes[d + 1] = Last(t.nodes) /\ DOMAIN t.edges = 1 .. d
<1> DEFINE d == Len(t.edges)
           p == [i \in 1 .. d + 1 |-> t.nodes[i]]
<1>1. d \in Nat /\ DOMAIN t.edges = 1 .. d
  <2>1. t.edges \in Seq(Int)
    BY DEF Trail
  <2> QED
    BY <2>1, LenProperties
<1>2. Len(t.nodes) = d + 1 /\ t.nodes[1] = source /\ \A i \in 1 .. d + 1 : t.nodes[i] \in NodesOf(g)
  BY DEF IsTrail
<1>3. \A i \in 1 .. d : <<t.edges[i], t.nodes[i], t.nodes[i + 1]>> \in ReviewArcs(g)
  BY DEF IsTrail
<1>4. Last(t.nodes) = t.nodes[d + 1]
  BY <1>2 DEF Last
<1> HIDE DEF d
<1>5. 1 \in 1 .. d + 1 /\ d + 1 \in 1 .. d + 1 /\ \A i \in 1 .. d : i \in 1 .. d + 1 /\ i + 1 \in 1 .. d + 1
  BY <1>1
<1>6. p \in [1 .. d + 1 -> NodesOf(g)] /\ p[1] = source /\ p[d + 1] = Last(t.nodes)
  BY <1>2, <1>4, <1>5
<1>7. Steps(g, d, p)
  <2> SUFFICES ASSUME NEW i \in 1 .. d PROVE \E a \in ReviewArcs(g) : a[2] = p[i] /\ a[3] = p[i + 1]
    BY DEF Steps
  <2>1. p[i] = t.nodes[i] /\ p[i + 1] = t.nodes[i + 1]
    BY <1>5
  <2> DEFINE a == <<t.edges[i], t.nodes[i], t.nodes[i + 1]>>
  <2>2. a \in ReviewArcs(g) /\ a[2] = t.nodes[i] /\ a[3] = t.nodes[i + 1]
    BY <1>3
  <2> QED
    BY <2>1, <2>2
<1> QED
  BY <1>1, <1>2, <1>4, <1>6, <1>7 DEF d

\* There are no more trails than nodes.
LEMMA FoundIsSmall ==
    ASSUME NEW g, Joined(g), NEW source, NEW limit, NEW at \in Searches, Seeking(g, source, limit, at)
    PROVE  Cardinality(NodesOf(g)) \in Nat /\ Len(at.found) <= Cardinality(NodesOf(g))
<1> DEFINE L == Len(at.found)
           e == [i \in 1 .. L |-> End(at.found, i)]
<1>1. L \in Nat /\ \A i \in 1 .. L : at.found[i] \in Trail /\ IsTrail(g, source, at.found[i])
  BY SearchesAre DEF Seeking, Trails
<1>2. \A i \in 1 .. L : End(at.found, i) \in NodesOf(g)
  <2> SUFFICES ASSUME NEW i \in 1 .. L PROVE Last(at.found[i].nodes) \in NodesOf(g)
    BY DEF End
  <2> DEFINE t == at.found[i]
             d == Len(t.edges)
             p == [j \in 1 .. d + 1 |-> t.nodes[j]]
  <2>1. t \in Trail /\ IsTrail(g, source, t)
    BY <1>1
  <2> HIDE DEF t
  <2>2. d \in Nat /\ p \in [1 .. d + 1 -> NodesOf(g)] /\ p[d + 1] = Last(t.nodes)
    BY <2>1, TrailIsWalk
  <2>3. d + 1 \in 1 .. d + 1
    BY <2>2
  <2> HIDE DEF d, p
  <2>4. Last(t.nodes) \in NodesOf(g)
    BY <2>2, <2>3
  <2> QED
    BY <2>4 DEF t
<1>3. \A i, j \in 1 .. L : i # j => End(at.found, i) # End(at.found, j)
  BY DEF Seeking, Separate
<1>4. IsFiniteSet(NodesOf(g))
  BY DEF Joined, Wired
<1> HIDE DEF L
<1>5. e \in Injection(1 .. L, NodesOf(g))
  BY <1>2, <1>3 DEF Injection, IsInjective
<1> HIDE DEF e
<1>6. Cardinality(1 .. L) = L /\ IsFiniteSet(1 .. L)
  <2>1. L - 1 + 1 = L
    BY <1>1
  <2>2. 1 \in Int /\ L \in Int
    BY <1>1
  <2>3. IsFiniteSet(1 .. L) /\ Cardinality(1 .. L) = IF 1 > L THEN 0 ELSE L - 1 + 1
    BY <2>2, FS_Interval
  <2>4. 1 > L => L = 0
    BY <1>1
  <2> QED
    BY <2>1, <2>3, <2>4
<1>7. Cardinality(1 .. L) <= Cardinality(NodesOf(g)) /\ Cardinality(NodesOf(g)) \in Nat
  BY <1>4, <1>5, FS_Injection, FS_CardinalityType
<1> QED
  BY <1>6, <1>7 DEF L
Begun(source) == [found |-> <<[nodes |-> <<source>>, edges |-> <<>>]>>, next |-> 1, cut |-> FALSE]

LEMMA BeginsSeeking ==
    ASSUME NEW g, Joined(g), NEW source \in NodesOf(g), NEW limit, IsLimit(limit)
    PROVE  Begun(source) \in Searches /\ Seeking(g, source, limit, Begun(source))
<1> DEFINE t == [nodes |-> <<source>>, edges |-> <<>>]
           f == <<t>>
           at == Begun(source)
<1>1. t.nodes = <<source>> /\ t.edges = <<>> /\ source \in Int
  BY DEF Joined, Wired
<1>2. /\ Len(t.nodes) = 1 /\ t.nodes[1] = source /\ Len(t.edges) = 0 /\ t \in Trail /\ Last(t.nodes) = source
  <2>1. Len(t.nodes) = 1 /\ t.nodes[1] = source /\ Len(t.edges) = 0
    BY <1>1
  <2>2. t.nodes \in Seq(Int) /\ t.edges \in Seq(Int)
    BY <1>1
  <2>3. t \in Trail
    BY <2>2 DEF Trail
  <2> HIDE DEF t
  <2> QED
    BY <2>1, <2>3 DEF Last
<1> HIDE DEF t
<1>3. f \in Seq(Trail) /\ Len(f) = 1 /\ f[1] = t
  BY <1>2
<1>4. at = [found |-> f, next |-> 1, cut |-> FALSE]
  BY DEF Begun, t
<1> HIDE DEF f, at
<1>5. at.found = f /\ at.next = 1 /\ at.cut = FALSE /\ at \in Searches
  BY <1>3, <1>4 DEF Searches
<1>6. \A i \in 1 .. Len(f) : i = 1
  BY <1>3
<1>7. Deep(f, 1) = 0
  BY <1>2, <1>3 DEF Deep
<1>8. ~Beyond(0, limit)
  BY DEF Beyond, IsLimit
<1>9. IsTrail(g, source, t)
  <2>1. \A i \in 1 .. 1 : i = 1
    OBVIOUS
  <2>2. \A i \in 1 .. 0 : FALSE
    OBVIOUS
  <2>3. 1 = 0 + 1
    OBVIOUS
  <2> QED
    BY <1>2, <2>1, <2>2, <2>3 DEF IsTrail
<1>10. Trails(g, source, limit, f)
  BY <1>3, <1>6, <1>7, <1>8, <1>9 DEF Trails
<1>11. Separate(f)
  BY <1>6 DEF Separate
<1>12. Levels(f)
  <2>1. ~(1 < 1) /\ 0 <= 1 - 1
    OBVIOUS
  <2> QED
    BY <1>6, <1>7, <2>1 DEF Levels
<1>13. Nearby(f, 1)
  <2>1. 0 <= 0 + 1
    OBVIOUS
  <2> QED
    BY <1>6, <1>7, <2>1 DEF Nearby
<1>14. Spread(g, limit, at)
  <2>1. ~(1 < 1)
    OBVIOUS
  <2> QED
    BY <1>5, <1>6, <2>1 DEF Spread
<1>15. 1 <= 1 /\ 1 <= 1 + 1
  OBVIOUS
<1> QED
  BY <1>3, <1>5, <1>10, <1>11, <1>12, <1>13, <1>14, <1>15 DEF Seeking, at

\* The search ends, and what holds at each turn holds then.
LEMMA SeekingEnds ==
    ASSUME NEW g, Joined(g), NEW source \in NodesOf(g), NEW target, NEW limit, IsLimit(limit)
    PROVE  LET at == Seek(g, target, limit)[Begun(source)]
           IN  at \in Searches /\ Seeking(g, source, limit, at) /\ at \in Stopped(target)
<1> DEFINE N == Cardinality(NodesOf(g))
           P == {at \in Searches : Seeking(g, source, limit, at)}
           done == Stopped(target)
           out == [at \in Searches |-> at]
           next == Going(g, target, limit)
           major == [at \in P |-> N + 1 - at.next]
           minor == [at \in P |-> 0]
<1>1. ASSUME NEW at \in P PROVE N \in Nat /\ at.next \in Nat \ {0} /\ at.next <= Len(at.found) + 1 /\ Len(at.found) \in Nat /\ Len(at.found) <= N
  BY SearchesAre, FoundIsSmall DEF Seeking
<1>2. major \in [P -> Nat] /\ minor \in [P -> Nat] /\ P \in SUBSET Searches
  <2>1. ASSUME NEW at \in P PROVE N + 1 - at.next \in Nat
    <3> HIDE DEF N, P
    <3> QED
      BY <1>1
  <2> QED
    BY <2>1
<1>3. ASSUME NEW at \in P, at \notin done
      PROVE  next[at] \in P /\ major[next[at]] < major[at]
  <2>1. at \in Searches /\ ~(at.next > Len(at.found)) /\ Seeking(g, source, limit, at)
    BY <1>3 DEF Stopped
  <2>2. at.next <= Len(at.found)
    BY <1>1, <2>1
  <2>3. next[at] = Searched(g, limit, at)
    BY <1>3, <2>1 DEF Going
  <2>4. Searched(g, limit, at) \in Searches /\ Seeking(g, source, limit, Searched(g, limit, at))
    BY <2>1, <2>2, SeekingStep
  <2>5. Searched(g, limit, at).next = at.next + 1
    <3>1. Searched(g, limit, at) =
                 [found |-> IF Past(g, limit, at.found[at.next]) THEN at.found ELSE at.found \o News(g, at.found, at.found[at.next]),
                  next |-> at.next + 1, cut |-> at.cut \/ Past(g, limit, at.found[at.next])]
      BY SearchedAre
    <3> QED
      BY <3>1
  <2>6. next[at] \in P /\ next[at].next = at.next + 1
    BY <2>3, <2>4, <2>5
  <2>7. major[next[at]] = N + 1 - (at.next + 1) /\ major[at] = N + 1 - at.next
    BY <2>6
  <2> HIDE DEF N, P, major, next
  <2> QED
    BY <1>1, <2>6, <2>7
<1>4. Solves(Seek(g, target, limit), Searches, done, out, next)
  BY SeekIs
<1>5. Begun(source) \in P
  BY BeginsSeeking
<1> HIDE DEF P, done, out, next, major, minor
<1>6. PICK at \in P \cap done : Seek(g, target, limit)[Begun(source)] = out[at]
  BY <1>2, <1>3, <1>4, <1>5, LoopEnds
<1>7. out[at] = at
  BY <1>6 DEF P, out
<1> QED
  BY <1>6, <1>7 DEF P, done

LEMMA DistanceIs ==
    ASSUME NEW g, NEW source, NEW target, NEW k
    PROVE  k \in Distances(g, source, target) <=>
              /\ k \in 0 .. Cardinality(NodesOf(g)) - 1
              /\ \E p \in [1 .. k + 1 -> NodesOf(g)] : p[1] = source /\ p[k + 1] = target /\ Steps(g, k, p)
BY DEF Distances, Steps

ShortestPath(g, m, n, limit) ==
    LET all == Distances(g, m, n)
        answer == PathBetween(g, m, n, limit)
        lengths == {k \in all : ~Beyond(k, limit)}
    IN  /\ lengths = {} <=> answer.path = {}
        /\ \A p \in answer.path :
              /\ Len(p.edges) \in lengths /\ \A k \in lengths : Len(p.edges) <= k
              /\ p.nodes[1] = m /\ p.nodes[Len(p.edges) + 1] = n
              /\ \A i \in DOMAIN p.edges : <<p.edges[i], p.nodes[i], p.nodes[i + 1]>> \in ReviewArcs(g)
        /\ answer.path = {} /\ ~answer.omitted => all = {}

LEMMA ShortestIsFound ==
    ASSUME NEW g, Joined(g), NEW m \in NodesOf(g), NEW n \in NodesOf(g), NEW limit, IsLimit(limit)
    PROVE  ShortestPath(g, m, n, limit)
<1> DEFINE all == Distances(g, m, n)
           answer == PathBetween(g, m, n, limit)
           lengths == {k \in all : ~Beyond(k, limit)}
           at == Seek(g, n, limit)[Begun(m)]
           f == at.found
           L == Len(f)
           D(i) == Deep(f, i)
           E(i) == End(f, i)
           hits == Hits(f, n)
<1>1. answer = [path |-> hits, omitted |-> at.cut]
  BY PathIs DEF Begun
<1>2. at \in Searches /\ Seeking(g, m, limit, at) /\ at \in Stopped(n)
  BY SeekingEnds
<1> HIDE DEF at, answer
<1>3. /\ L \in Nat /\ at.next \in Nat \ {0} /\ at.cut \in BOOLEAN /\ DOMAIN f = 1 .. L
      /\ \A i \in 1 .. L : f[i] \in Trail /\ D(i) \in Nat
  BY <1>2, SearchesAre
<1>4. hits = {f[i] : i \in {k \in 1 .. L : E(k) = n}}
  BY <1>3 DEF Hits, End
<1>5. answer.path = hits /\ answer.omitted = at.cut
  <2> HIDE DEF hits
  <2> QED
    BY <1>1
<1>6. at.next > L \/ hits # {}
  BY <1>2 DEF Stopped
<1> HIDE DEF hits
<1>7. /\ \A i \in 1 .. L : IsTrail(g, m, f[i]) /\ ~Beyond(D(i), limit)
      /\ \A i, j \in 1 .. L : i # j => E(i) # E(j)
      /\ \A i \in 1 .. L : D(i) <= i - 1 /\ \A j \in 1 .. L : i < j => D(i) <= D(j)
      /\ at.next <= L => \A i \in 1 .. L : D(i) <= D(at.next) + 1
  BY <1>2 DEF Seeking, Trails, Separate, Levels, Nearby
<1>8. \A k \in Nat : \A p : p[1] = m /\ Steps(g, k, p) /\ Allowed(at, k, limit) /\ HadTheirTurn(at, k) => EndsWithin(at, p[k + 1], k)
  BY <1>2, WalksAreMet
<1>9. Cardinality(NodesOf(g)) \in Nat /\ L <= Cardinality(NodesOf(g))
  BY <1>2, FoundIsSmall
<1> DEFINE N == Cardinality(NodesOf(g))
<1> HIDE DEF f, L, D, E, N
<1>10. \A k \in all : k \in Nat /\ \E p : p[1] = m /\ p[k + 1] = n /\ Steps(g, k, p)
  BY <1>9, DistanceIs DEF N
\* A walk no longer than the trails that had their turn ends where one of them does.
<1>11. ASSUME NEW k \in all, ~(at.cut = TRUE /\ Beyond(k, limit)), \A i \in 1 .. L : D(i) < k => i < at.next
       PROVE  \E i \in 1 .. L : E(i) = n /\ D(i) <= k
  <2>1. PICK p : p[1] = m /\ p[k + 1] = n /\ Steps(g, k, p)
    BY <1>10
  <2>2. k \in Nat /\ Allowed(at, k, limit)
    BY <1>10, <1>11 DEF Allowed
  <2>3. HadTheirTurn(at, k)
    BY <1>11 DEF HadTheirTurn, L, D, f
  <2>4. EndsWithin(at, n, k)
    BY <1>8, <2>1, <2>2, <2>3
  <2> QED
    BY <2>4 DEF EndsWithin, L, D, E, f
<1>12. ASSUME NEW i \in 1 .. L, E(i) = n
       PROVE  /\ hits = {f[i]} /\ Len(f[i].edges) = D(i) /\ D(i) \in lengths
              /\ \A k \in lengths : D(i) <= k
              /\ f[i].nodes[1] = m /\ f[i].nodes[D(i) + 1] = n
              /\ \A x \in DOMAIN f[i].edges : <<f[i].edges[x], f[i].nodes[x], f[i].nodes[x + 1]>> \in ReviewArcs(g)
  <2>1. \A j \in 1 .. L : E(j) = n => j = i
    BY <1>7, <1>12
  <2>2. hits = {f[i]}
    BY <1>4, <1>12, <2>1
  <2>3. Len(f[i].edges) = D(i)
    BY DEF D, Deep, f
  <2> DEFINE t == f[i]
             d == Len(t.edges)
             p == [x \in 1 .. d + 1 |-> t.nodes[x]]
  <2>4. t \in Trail /\ IsTrail(g, m, t)
    BY <1>3, <1>7
  <2>5. Last(t.nodes) = n
    BY <1>12 DEF E, End
  <2> HIDE DEF t
  <2>6. /\ d \in Nat /\ p \in [1 .. d + 1 -> NodesOf(g)] /\ p[1] = m /\ p[d + 1] = n /\ Steps(g, d, p)
        /\ t.nodes[1] = m /\ t.nodes[d + 1] = n /\ DOMAIN t.edges = 1 .. d
    BY <2>4, <2>5, TrailIsWalk
  <2>7. d = D(i)
    BY <2>3 DEF t
  <2> HIDE DEF d, p
  <2>8. d \in 0 .. N - 1
    <3>1. d <= i - 1 /\ i \in 1 .. L /\ i \in Nat
      BY <1>3, <1>7, <2>7
    <3> QED
      BY <1>3, <1>9, <2>6, <3>1 DEF N
  <2>9. d \in all
    BY <2>6, <2>8, DistanceIs DEF N
  <2>10. d \in lengths
    BY <1>7, <2>7, <2>9
  <2>11. ASSUME NEW k \in lengths, ~(d <= k) PROVE FALSE
    <3>1. k \in all /\ ~Beyond(k, limit) /\ k \in Nat
      BY <1>10
    <3>2. k < d
      BY <2>6, <2>11, <3>1
    <3>3. ASSUME NEW j \in 1 .. L, D(j) < k PROVE j < at.next
      <4>1. SUFFICES ASSUME ~(j < at.next) PROVE FALSE
        OBVIOUS
      <4>2. j \in Nat /\ at.next \in Nat /\ at.next <= j /\ at.next <= L /\ at.next \in 1 .. L
        BY <1>3, <4>1
      <4>3. D(i) <= D(at.next) + 1
        BY <1>7, <4>2
      <4>4. D(at.next) <= D(j)
        <5>1. CASE at.next = j
          BY <1>3, <5>1
        <5>2. CASE at.next # j
          <6>1. at.next < j
            BY <4>2, <5>2
          <6> QED
            BY <1>7, <4>2, <6>1
        <5> QED
          BY <5>1, <5>2
      <4>5. D(j) \in Nat /\ D(at.next) \in Nat /\ D(i) \in Nat
        BY <1>3, <4>2
      <4> QED
        BY <2>7, <3>1, <3>2, <3>3, <4>3, <4>4, <4>5
    <3>4. PICK j \in 1 .. L : E(j) = n /\ D(j) <= k
      BY <1>11, <3>1, <3>3
    <3>5. j = i
      BY <2>1, <3>4
    <3> QED
      BY <2>6, <2>7, <3>1, <3>2, <3>4, <3>5
  <2>12. \A x \in DOMAIN t.edges : <<t.edges[x], t.nodes[x], t.nodes[x + 1]>> \in ReviewArcs(g)
    BY <2>4, <2>6 DEF IsTrail, d
  <2> QED
    BY <2>2, <2>3, <2>6, <2>7, <2>10, <2>11, <2>12 DEF t
<1>13. hits # {} <=> \E i \in 1 .. L : E(i) = n
  BY <1>4
\* Where no trail ends at the target, all had their turn.
<1>14. ASSUME hits = {}, NEW k \in all, ~(at.cut = TRUE /\ Beyond(k, limit)) PROVE FALSE
  <2>1. \A i \in 1 .. L : i < at.next
    BY <1>3, <1>6, <1>14
  <2> QED
    BY <1>11, <1>13, <1>14, <2>1
<1>15. lengths = {} <=> hits = {}
  <2>1. hits = {} => lengths = {}
    BY <1>14
  <2>2. hits # {} => lengths # {}
    BY <1>12, <1>13
  <2> QED
    BY <2>1, <2>2
<1>16. hits = {} /\ ~at.cut => all = {}
  BY <1>3, <1>14
<1>17. \A p \in hits :
         /\ Len(p.edges) \in lengths /\ \A k \in lengths : Len(p.edges) <= k
         /\ p.nodes[1] = m /\ p.nodes[Len(p.edges) + 1] = n
         /\ \A i \in DOMAIN p.edges : <<p.edges[i], p.nodes[i], p.nodes[i + 1]>> \in ReviewArcs(g)
  <2> SUFFICES ASSUME NEW p \in hits
               PROVE  /\ Len(p.edges) \in lengths /\ \A k \in lengths : Len(p.edges) <= k
                      /\ p.nodes[1] = m /\ p.nodes[Len(p.edges) + 1] = n
                      /\ \A i \in DOMAIN p.edges : <<p.edges[i], p.nodes[i], p.nodes[i + 1]>> \in ReviewArcs(g)
    OBVIOUS
  <2>1. PICK i \in 1 .. L : E(i) = n /\ p = f[i]
    BY <1>4
  <2> HIDE DEF lengths, all
  <2> QED
    BY <1>12, <2>1
<1> HIDE DEF lengths, all
<1>18. /\ lengths = {} <=> answer.path = {}
       /\ \A p \in answer.path :
              /\ Len(p.edges) \in lengths /\ \A k \in lengths : Len(p.edges) <= k
              /\ p.nodes[1] = m /\ p.nodes[Len(p.edges) + 1] = n
              /\ \A i \in DOMAIN p.edges : <<p.edges[i], p.nodes[i], p.nodes[i + 1]>> \in ReviewArcs(g)
       /\ answer.path = {} /\ ~answer.omitted => all = {}
  BY <1>5, <1>15, <1>16, <1>17
<1> QED
  BY <1>18 DEF ShortestPath, lengths, all, answer

\* Queries.path, for any base, any patches and any of the limits: a path that is found is a
\* shortest one, and one that the limit allows is found.
THEOREM PathsAreAlwaysShortest == Spec => []PathsAreShortest
<1>1. CInv => PathsAreShortest
  <2> SUFFICES ASSUME CInv, IsValid(proposed), NEW m \in NodesOf(proposed), NEW n \in NodesOf(proposed),
                      NEW all \in {Distances(proposed, m, n)}, NEW limit \in {{}, {0}, {1}, {2}}
               PROVE  LET answer == PathBetween(proposed, m, n, limit)
                          lengths == {k \in all : ~Beyond(k, limit)}
                      IN  /\ lengths = {} <=> answer.path = {}
                          /\ \A p \in answer.path :
                                /\ Len(p.edges) \in lengths /\ \A k \in lengths : Len(p.edges) <= k
                                /\ p.nodes[1] = m /\ p.nodes[Len(p.edges) + 1] = n
                                /\ \A i \in DOMAIN p.edges : <<p.edges[i], p.nodes[i], p.nodes[i + 1]>> \in ReviewArcs(proposed)
                          /\ answer.path = {} /\ ~answer.omitted => all = {}
    BY DEF PathsAreShortest
  <2>1. Joined(proposed)
    <3>1. IsProject(proposed) /\ Ended(proposed)
      BY DEF CInv, GInv, LedTo
    <3>2. EdgesOf(proposed) \subseteq Int
      BY <3>1 DEF IsProject
    <3> QED
      BY <3>1, <3>2, WiredIs, JoinedAre
  <2>2. IsLimit(limit)
    BY DEF IsLimit
  <2>3. all = Distances(proposed, m, n) /\ ShortestPath(proposed, m, n, limit)
    BY <2>1, <2>2, ShortestIsFound
  <2> QED
    BY <2>3 DEF ShortestPath
<1> QED
  BY <1>1, Edited, PTL
-----------------------------------------------------------------------------
(* plan_bulk: what the operations up to one of them lead to. *)

\* Two batches of operations that a graph admits and that say nothing of the same identifier.
Batches(g, A, B) ==
    /\ IsProject(g) /\ Apart(A \cup B) /\ IsFiniteSet(A \cup B)
    /\ \A op \in A \cup B : IsOperation(op) /\ Admits(g, op)
    /\ \A a \in A, b \in B : a.id # b.id

\* The operations of two batches together do what one does after the other.
LEMMA ResultsJoin ==
    ASSUME NEW g, NEW A, NEW B, Batches(g, A, B)
    PROVE  /\ IsProject(ResultOf(g, A)) /\ \A op \in B : Admits(ResultOf(g, A), op)
           /\ ResultOf(ResultOf(g, A), B) = ResultOf(g, A \cup B)
<1> USE DEF Batches
<1> DEFINE h == ResultOf(g, A)
           x == ResultOf(h, B)
           y == ResultOf(g, A \cup B)
<1>1. A \in SUBSET (A \cup B) /\ B \in SUBSET (A \cup B)
  OBVIOUS
<1>2. Apart(A) /\ Apart(B) /\ IsFiniteSet(A) /\ IsFiniteSet(B)
  BY <1>1, FS_Subset DEF Apart
<1>3. IsProject(h) /\ h.purpose = g.purpose
  BY <1>2, ResultIsProject
<1>4. \A op \in B : Admits(h, op)
  <2> SUFFICES ASSUME NEW op \in B PROVE Admits(h, op)
    OBVIOUS
  <2>1. op.entity \in {"nodes", "edges"} /\ Admits(g, op) /\ \A o \in A : o.id # op.id
    BY DEF IsOperation
  <2> QED
    BY <1>2, <2>1, ResultStep
<1>5. IsProject(y) /\ y.purpose = g.purpose
  BY ResultIsProject
<1> HIDE DEF h, y
<1>6. IsProject(x) /\ x.purpose = h.purpose
  BY <1>2, <1>3, <1>4, ResultIsProject
<1> HIDE DEF x
<1>7. ASSUME NEW e \in Entities, NEW k PROVE ValueAt(x[e], k) = ValueAt(y[e], k)
  <2>1. CASE \E op \in B : op.entity = e /\ op.id = k
    <3>1. PICK op \in B : op.entity = e /\ op.id = k
      BY <2>1
    <3>2. ValueAt(x[e], k) = Gives(op)
      BY <1>2, <3>1, ResultAt DEF x
    <3>3. ValueAt(y[e], k) = Gives(op)
      BY <3>1, ResultAt DEF y
    <3> QED
      BY <3>2, <3>3
  <2>2. CASE ~\E op \in B : op.entity = e /\ op.id = k
    <3>1. ValueAt(x[e], k) = ValueAt(h[e], k)
      BY <1>2, <2>2, ResultAt DEF x
    <3>2. CASE \E op \in A : op.entity = e /\ op.id = k
      <4>1. PICK op \in A : op.entity = e /\ op.id = k
        BY <3>2
      <4>2. ValueAt(h[e], k) = Gives(op)
        BY <1>2, <4>1, ResultAt DEF h
      <4>3. ValueAt(y[e], k) = Gives(op)
        BY <4>1, ResultAt DEF y
      <4> QED
        BY <3>1, <4>2, <4>3
    <3>3. CASE ~\E op \in A : op.entity = e /\ op.id = k
      <4>1. ValueAt(h[e], k) = ValueAt(g[e], k)
        BY <1>2, <3>3, ResultAt DEF h
      <4>2. \A op \in A \cup B : ~(op.entity = e /\ op.id = k)
        BY <2>2, <3>3
      <4>3. ValueAt(y[e], k) = ValueAt(g[e], k)
        BY <4>2, ResultAt DEF y
      <4> QED
        BY <3>1, <4>1, <4>3
    <3> QED
      BY <3>2, <3>3
  <2> QED
    BY <2>1, <2>2
<1>8. x = y
  BY <1>3, <1>5, <1>6, <1>7, SameGraphs
<1> QED
  BY <1>3, <1>4, <1>8 DEF h, x, y

\* A manifest that a graph admits.
Listed(g, M) ==
    /\ IsProject(g) /\ Len(M) \in Nat
    /\ \A i \in 1 .. Len(M) : IsOperation(M[i]) /\ Admits(g, M[i])
    /\ \A i, j \in 1 .. Len(M) : i # j => M[i].id # M[j].id
Those(M, i, j) == {M[x] : x \in i + 1 .. j}
Part(g, M, i) == ResultOf(g, Given(M, i))

LEMMA SliceIs ==
    ASSUME NEW g, NEW M, Listed(g, M), NEW j \in 0 .. Len(M), NEW i \in 0 .. j
    PROVE  /\ IsManifest(SubSeq(M, i + 1, j)) /\ Distinct(SubSeq(M, i + 1, j))
           /\ ToSet(SubSeq(M, i + 1, j)) = Those(M, i, j) /\ Those(M, i, j) \subseteq Those(M, 0, Len(M))
<1> DEFINE s == SubSeq(M, i + 1, j)
           S == {M[x] : x \in 1 .. Len(M)}
<1>1. /\ Len(M) \in Nat /\ i \in Nat /\ j \in Nat /\ i <= j /\ j <= Len(M) /\ i + 1 \in Int /\ j \in Int
      /\ \A x \in i + 1 .. j : x \in 1 .. Len(M) /\ M[x] \in S
  BY DEF Listed
<1>2. s \in Seq(S)
  BY <1>1, SubSeqProperties
<1>3. Len(s) = IF i + 1 <= j THEN j - (i + 1) + 1 ELSE 0
  BY <1>1, SubSeqProperties
<1>4. \A x \in 1 .. j - (i + 1) + 1 : s[x] = M[i + 1 + x - 1]
  BY <1>1, SubSeqProperties
<1> HIDE DEF s, S
<1>5. Len(s) = j - i /\ DOMAIN s = 1 .. j - i /\ j - i \in Nat
  <2>1. Len(s) = j - i
    BY <1>1, <1>3
  <2> QED
    BY <1>1, <1>2, <2>1, LenProperties
<1>6. \A x \in 1 .. j - i : s[x] = M[i + x] /\ i + x \in i + 1 .. j /\ i + x \in 1 .. Len(M)
  <2> SUFFICES ASSUME NEW x \in 1 .. j - i PROVE s[x] = M[i + x] /\ i + x \in i + 1 .. j /\ i + x \in 1 .. Len(M)
    OBVIOUS
  <2>1. x \in 1 .. j - (i + 1) + 1 /\ i + 1 + x - 1 = i + x /\ i + x \in i + 1 .. j /\ i + x \in 1 .. Len(M)
    BY <1>1
  <2>2. s[x] = M[i + 1 + x - 1]
    BY <1>4, <2>1
  <2> QED
    BY <2>1, <2>2
<1>7. IsManifest(s)
  BY <1>5, <1>6 DEF IsManifest, Listed
<1>8. Distinct(s)
  <2> SUFFICES ASSUME NEW x \in 1 .. j - i, NEW y \in 1 .. j - i, x # y PROVE s[x].id # s[y].id
    BY <1>5 DEF Distinct
  <2>1. i + x # i + y
    BY <1>1
  <2> QED
    BY <1>6, <2>1 DEF Listed
<1>9. ToSet(s) = Those(M, i, j)
  <2>1. ToSet(s) = {s[x] : x \in 1 .. j - i}
    BY <1>5 DEF ToSet
  <2>2. ASSUME NEW x \in i + 1 .. j PROVE M[x] \in ToSet(s)
    <3>1. x - i \in 1 .. j - i /\ i + (x - i) = x
      BY <1>1
    <3>2. s[x - i] = M[x]
      BY <1>6, <3>1
    <3> QED
      BY <2>1, <3>1, <3>2
  <2>3. ASSUME NEW x \in 1 .. j - i PROVE s[x] \in Those(M, i, j)
    BY <1>6 DEF Those
  <2> QED
    BY <2>1, <2>2, <2>3 DEF Those
<1>10. Those(M, i, j) \subseteq Those(M, 0, Len(M))
  <2>1. \A x \in i + 1 .. j : x \in 0 + 1 .. Len(M)
    BY <1>1
  <2> QED
    BY <2>1 DEF Those
<1> QED
  BY <1>7, <1>8, <1>9, <1>10 DEF s

\* The operations after one of them, up to another, lead from what those before lead to.
LEMMA PartsFollow ==
    ASSUME NEW g, NEW M, Listed(g, M), NEW j \in 0 .. Len(M), NEW i \in 0 .. j
    PROVE  /\ IsProject(Part(g, M, i)) /\ ProjectGraph(Part(g, M, i), SubSeq(M, i + 1, j)) = {Part(g, M, j)}
           /\ ProjectGraph(g, SubSeq(M, 1, j)) = {Part(g, M, j)}
<1> DEFINE A == Given(M, i)
           B == Those(M, i, j)
           s == SubSeq(M, i + 1, j)
<1>1. /\ Len(M) \in Nat /\ i \in Nat /\ j \in Nat /\ i <= j /\ j <= Len(M) /\ IsProject(g)
      /\ \A x \in 1 .. Len(M) : IsOperation(M[x]) /\ Admits(g, M[x])
      /\ \A x, y \in 1 .. Len(M) : x # y => M[x].id # M[y].id
  BY DEF Listed
<1>2. /\ Given(M, j) = {M[x] : x \in 1 .. j} /\ A = {M[x] : x \in 1 .. i} /\ B = {M[x] : x \in i + 1 .. j}
      /\ Those(M, 0, j) = {M[x] : x \in 0 + 1 .. j}
  BY DEF Given, Those
<1>3. A \cup B = Given(M, j) /\ Those(M, 0, j) = Given(M, j)
  <2>1. \A x : x \in 1 .. j <=> x \in 1 .. i \/ x \in i + 1 .. j
    BY <1>1
  <2>2. 0 + 1 = 1
    OBVIOUS
  <2> QED
    BY <1>2, <2>1, <2>2
<1>4. \A x \in 1 .. j : x \in 1 .. Len(M)
  BY <1>1
<1>5. Apart(A \cup B) /\ \A op \in A \cup B : IsOperation(op) /\ Admits(g, op)
  BY <1>1, <1>2, <1>3, <1>4 DEF Apart
<1>6. \A a \in A, b \in B : a.id # b.id
  <2> SUFFICES ASSUME NEW x \in 1 .. i, NEW y \in i + 1 .. j PROVE M[x].id # M[y].id
    BY <1>2
  <2>1. x \in 1 .. Len(M) /\ y \in 1 .. Len(M) /\ x # y
    BY <1>1
  <2> QED
    BY <1>1, <2>1
<1>7. IsFiniteSet(A \cup B)
  <2>1. IsFiniteSet(1 .. j)
    BY <1>1, FS_Interval
  <2>2. IsFiniteSet({M[x] : x \in 1 .. j})
    BY <2>1, ImageIsFinite
  <2> QED
    BY <1>2, <1>3, <2>2
<1>8. IsManifest(s) /\ Distinct(s) /\ ToSet(s) = B
  BY SliceIs
<1> DEFINE t == SubSeq(M, 1, j)
<1>9. IsManifest(t) /\ Distinct(t) /\ ToSet(t) = Given(M, j)
  <2>1. 0 \in 0 .. j /\ 0 + 1 = 1
    BY <1>1
  <2>2. IsManifest(SubSeq(M, 0 + 1, j)) /\ Distinct(SubSeq(M, 0 + 1, j)) /\ ToSet(SubSeq(M, 0 + 1, j)) = Those(M, 0, j)
    BY <2>1, SliceIs
  <2> QED
    BY <1>3, <2>1, <2>2
<1> HIDE DEF A, B, s, t
<1>10. IsProject(ResultOf(g, A)) /\ (\A op \in B : Admits(ResultOf(g, A), op)) /\ ResultOf(ResultOf(g, A), B) = ResultOf(g, A \cup B)
  <2>1. Batches(g, A, B)
    BY <1>1, <1>5, <1>6, <1>7 DEF Batches
  <2> QED
    BY <2>1, ResultsJoin
<1>11. ProjectGraph(ResultOf(g, A), s) = {ResultOf(g, Given(M, j))}
  BY <1>3, <1>8, <1>10, ProjectionIsExact DEF IsProject
<1>12. ProjectGraph(g, t) = {ResultOf(g, Given(M, j))}
  BY <1>1, <1>3, <1>5, <1>9, ProjectionIsExact DEF IsProject
<1> QED
  BY <1>10, <1>11, <1>12 DEF Part, A, s, t
Advanced(M, size, k, graphs) ==
    {h \in UNION {ProjectGraph(x, Chunk(M, size, (k - 1) * size)) : x \in graphs} : IsValid(h)}

\* The checkpoints of a manifest, one chunk at a time.
LEMMA CheckpointsStep ==
    ASSUME NEW g, NEW M, NEW size, Len(M) \in Nat
    PROVE  LET after == Checkpoints(g, M, size)
           IN  after[0] = {g} /\ \A k \in 1 .. Len(M) : after[k] = Advanced(M, size, k, after[k - 1])
<1> DEFINE Is(f, n) == /\ f = [i \in 0 .. n |-> f[i]] /\ f[0] = {g}
                       /\ \A i \in 1 .. n : f[i] = Advanced(M, size, i, f[i - 1])
           T == {n \in Nat : \E f : Is(f, n)}
           Def(f) == [k \in 0 .. Len(M) |-> IF k = 0 THEN {g} ELSE Advanced(M, size, k, f[k - 1])]
           after == Checkpoints(g, M, size)
<1>1. 0 \in T
  <2> DEFINE h == [i \in 0 .. 0 |-> {g}]
  <2>1. h = [i \in 0 .. 0 |-> h[i]] /\ h[0] = {g}
    OBVIOUS
  <2> HIDE DEF h
  <2>2. Is(h, 0)
    BY <2>1
  <2> HIDE DEF Is
  <2> QED
    BY <2>2
<1>2. ASSUME NEW n \in Nat, n \in T PROVE n + 1 \in T
  <2>1. PICK f : Is(f, n)
    BY <1>2
  <2> DEFINE h == [i \in 0 .. n + 1 |-> IF i = n + 1 THEN Advanced(M, size, n + 1, f[n]) ELSE f[i]]
  <2>2. /\ h = [i \in 0 .. n + 1 |-> h[i]]
        /\ \A i \in 0 .. n : h[i] = f[i]
        /\ h[n + 1] = Advanced(M, size, n + 1, f[n])
    OBVIOUS
  <2> HIDE DEF h
  <2>3. ASSUME NEW i \in 1 .. n + 1 PROVE h[i] = Advanced(M, size, i, h[i - 1])
    <3>1. CASE i = n + 1
      <4>1. i - 1 = n /\ n \in 0 .. n
        BY <3>1
      <4>2. h[n] = f[n]
        BY <2>2, <4>1
      <4> QED
        BY <2>2, <3>1, <4>1, <4>2
    <3>2. CASE i \in 1 .. n
      BY <2>1, <2>2, <3>2
    <3> QED
      BY <3>1, <3>2
  <2>4. h[0] = {g}
    <3>1. 0 \in 0 .. n
      OBVIOUS
    <3>2. h[0] = f[0]
      BY <2>2, <3>1
    <3>3. f[0] = {g}
      BY <2>1
    <3> QED
      BY <3>2, <3>3
  <2>5. Is(h, n + 1)
    BY <2>2, <2>3, <2>4
  <2> HIDE DEF Is
  <2> QED
    BY <2>5
<1>3. PICK f : Is(f, Len(M))
  <2> HIDE DEF T
  <2>1. Len(M) \in T
    BY <1>1, <1>2, Induction
  <2> QED
    BY <2>1 DEF T
<1>4. f = Def(f)
  <2> DEFINE n == Len(M)
  <2>1. \A i \in 0 .. n : f[i] = IF i = 0 THEN {g} ELSE Advanced(M, size, i, f[i - 1])
    BY <1>3
  <2> QED
    BY <1>3, <2>1
<1>5. after = CHOOSE x : x = Def(x)
  BY DEF Checkpoints, Advanced
<1>6. after = Def(after)
  <2> HIDE DEF Def, after
  <2> QED
    BY <1>4, <1>5
<1>7. \A k \in 0 .. Len(M) : after[k] = IF k = 0 THEN {g} ELSE Advanced(M, size, k, after[k - 1])
  BY <1>6
<1> QED
  BY <1>7

\* How many operations the first chunks hold.
Advance(M, size, k) == IF k * size < Len(M) THEN k * size ELSE Len(M)

LEMMA ChunkIs ==
    ASSUME NEW M, Len(M) \in Nat, NEW size \in 1 .. 2, NEW k \in Nat \ {0}
    PROVE  LET i == Advance(M, size, k - 1)
               j == Advance(M, size, k)
           IN  /\ j \in 0 .. Len(M) /\ i \in 0 .. j /\ (k - 1) * size \in Nat
               /\ Chunk(M, size, (k - 1) * size) = SubSeq(M, i + 1, j)
               /\ (k - 1) * size < Len(M) =>
                     /\ i = (k - 1) * size /\ j \in i + 1 .. Len(M) /\ k \in 0 .. Len(M)
                     /\ j = IF i + size < Len(M) THEN i + size ELSE Len(M)
                     /\ i + size = k * size
<1> DEFINE L == Len(M)
           s == (k - 1) * size
           e == k * size
           i == Advance(M, size, k - 1)
           j == Advance(M, size, k)
<1>1. s \in Nat /\ e \in Nat /\ s + size = e /\ k - 1 <= s
  <2>1. CASE size = 1
    BY <2>1
  <2>2. CASE size = 2
    BY <2>2
  <2> QED
    BY <2>1, <2>2
<1>2. i = (IF s < L THEN s ELSE L) /\ j = IF e < L THEN e ELSE L
  BY DEF Advance
<1>3. Chunk(M, size, s) = SubSeq(M, s + 1, IF s + size < L THEN s + size ELSE L)
  BY DEF Chunk
<1> HIDE DEF L, s, e, i, j
<1>4. L \in Nat
  BY DEF L
<1>5. j \in 0 .. L /\ i \in 0 .. j
  BY <1>1, <1>2, <1>4
<1>6. Chunk(M, size, s) = SubSeq(M, s + 1, j)
  BY <1>1, <1>2, <1>3
<1>7. SubSeq(M, s + 1, j) = SubSeq(M, i + 1, j)
  <2>1. CASE s < L
    BY <1>2, <2>1
  <2>2. CASE ~(s < L)
    <3>1. j = L /\ i = L /\ j < s + 1 /\ j < i + 1 /\ s + 1 \in Int /\ i + 1 \in Int /\ j \in Int
      BY <1>1, <1>2, <1>4, <2>2
    <3> QED
      BY <3>1, SubSeqEmpty
  <2> QED
    BY <2>1, <2>2
<1>8. ASSUME s < L PROVE i = s /\ j \in i + 1 .. L /\ k \in 0 .. L /\ j = (IF i + size < L THEN i + size ELSE L) /\ i + size = e
  BY <1>1, <1>2, <1>4, <1>8
<1> QED
  BY <1>1, <1>5, <1>6, <1>7, <1>8 DEF L, s, e, i, j

\* While there is a checkpoint, it is what the operations so far lead to, and all before it are valid.
LEMMA CheckpointsAre ==
    ASSUME NEW g, NEW M, Listed(g, M), IsValid(g), NEW size \in 1 .. 2, Checkpoints(g, M, size)[Len(M)] # {}
    PROVE  \A k \in 0 .. Len(M) : IsValid(Part(g, M, Advance(M, size, k)))
<1> DEFINE L == Len(M)
           after == Checkpoints(g, M, size)
           At(k) == Part(g, M, Advance(M, size, k))
           T == {k \in Nat : k <= L => after[k] \subseteq {At(k)} /\ (after[k] # {} => \A i \in 0 .. k : IsValid(At(i)))}
<1>1. L \in Nat /\ IsProject(g)
  BY DEF Listed
<1>2. after[0] = {g} /\ \A k \in 1 .. L : after[k] = Advanced(M, size, k, after[k - 1])
  BY <1>1, CheckpointsStep
<1>3. At(0) = g
  <2>1. Advance(M, size, 0) = 0
    <3>1. 0 * size = 0
      OBVIOUS
    <3> QED
      BY <1>1, <3>1 DEF Advance
  <2>2. Given(M, 0) = {}
    BY DEF Given
  <2> QED
    BY <1>1, <2>1, <2>2, ResultOfNothing DEF Part, IsProject
<1> HIDE DEF L, after, At
<1>4. 0 \in T
  <2>1. \A i \in 0 .. 0 : i = 0
    OBVIOUS
  <2> QED
    BY <1>2, <1>3, <2>1
<1>5. ASSUME NEW k \in Nat, k \in T PROVE k + 1 \in T
  <2> SUFFICES ASSUME k + 1 <= L
               PROVE  after[k + 1] \subseteq {At(k + 1)} /\ (after[k + 1] # {} => \A i \in 0 .. k + 1 : IsValid(At(i)))
    OBVIOUS
  <2>1. /\ k + 1 \in 1 .. L /\ k + 1 \in Nat \ {0} /\ k <= L /\ k + 1 - 1 = k
        /\ \A i \in 0 .. k + 1 : i \in 0 .. k \/ i = k + 1
    BY <1>1
  <2>2. after[k + 1] = Advanced(M, size, k + 1, after[k])
    BY <1>2, <2>1
  <2>3. after[k] \subseteq {At(k)} /\ (after[k] # {} => \A i \in 0 .. k : IsValid(At(i)))
    BY <1>5, <2>1
  <2> DEFINE c == Chunk(M, size, k * size)
  <2>4. ProjectGraph(At(k), c) = {At(k + 1)}
    <3> DEFINE i == Advance(M, size, k)
               j == Advance(M, size, k + 1)
    <3>1. Len(M) \in Nat
      BY <1>1 DEF L
    <3>2. j \in 0 .. Len(M) /\ i \in 0 .. j /\ c = SubSeq(M, i + 1, j)
      <4> DEFINE m == k + 1
      <4>1. m \in Nat \ {0} /\ m - 1 = k
        BY <2>1
      <4> HIDE DEF m
      <4>2. /\ Advance(M, size, m) \in 0 .. Len(M) /\ Advance(M, size, m - 1) \in 0 .. Advance(M, size, m)
            /\ Chunk(M, size, (m - 1) * size) = SubSeq(M, Advance(M, size, m - 1) + 1, Advance(M, size, m))
        BY <3>1, <4>1, ChunkIs
      <4> QED
        BY <4>1, <4>2 DEF m
    <3> HIDE DEF c, i, j
    <3>3. ProjectGraph(Part(g, M, i), SubSeq(M, i + 1, j)) = {Part(g, M, j)}
      BY <3>2, PartsFollow
    <3> QED
      BY <3>2, <3>3 DEF At, i, j
  <2>5. after[k + 1] = {h \in UNION {ProjectGraph(x, c) : x \in after[k]} : IsValid(h)}
    BY <2>1, <2>2 DEF Advanced
  <2> HIDE DEF c
  <2>6. \A h \in after[k + 1] : h = At(k + 1) /\ IsValid(h) /\ after[k] # {}
    BY <2>3, <2>4, <2>5
  <2> QED
    BY <2>1, <2>3, <2>6
<1>6. L \in T
  <2> HIDE DEF T
  <2> QED
    BY <1>1, <1>4, <1>5, Induction
<1>7. after[L] # {}
  BY DEF after, L
<1>8. \A i \in 0 .. L : IsValid(At(i))
  BY <1>1, <1>6, <1>7
<1> QED
  BY <1>8 DEF L, At
\* What ChunksCompose says of a plan.
Composes(g, M, size, start, plan, end) ==
    /\ plan.operations = SubSeq(M, start + 1, end)
    /\ plan.next = {end} \ {Len(M)}
    /\ \A n \in plan.next \cup {0} : PlanBulk(g, M, size, n) # {}
    /\ \E x \in ProjectGraph(g, SubSeq(M, 1, start)), y \in ProjectGraph(g, SubSeq(M, 1, end)) :
          /\ IsValid(x) /\ IsValid(y) /\ ProjectGraph(g, SubSeq(M, 1, start)) = {x}
          /\ ProjectGraph(x, plan.operations) = ProjectGraph(g, SubSeq(M, 1, end))

LEMMA PlanComposes ==
    ASSUME NEW g, NEW M, Listed(g, M), IsValid(g), NEW size \in 1 .. 2, NEW start \in 0 .. Len(M) - 1,
           NEW plan \in PlanBulk(g, M, size, start)
    PROVE  \E end \in start + 1 .. Len(M) : Composes(g, M, size, start, plan, end)
<1> DEFINE L == Len(M)
           ids == Cardinality({M[i].id : i \in DOMAIN M})
           after == Checkpoints(g, M, size)[Len(M)]
<1>1. L \in Nat /\ start \in 0 .. L - 1 /\ size \in Nat
  BY DEF Listed
<1>2. /\ start \in Starts(M, size) /\ ids = L /\ after # {}
      /\ plan = [operations |-> Chunk(M, size, start), next |-> {n \in {start + size} : n < L}]
  BY DEF PlanBulk
<1>3. PICK k \in 0 .. L : start = k * size
  BY <1>2 DEF Starts
<1> DEFINE m == k + 1
           end == Advance(M, size, m)
<1>4. m \in Nat \ {0} /\ m - 1 = k /\ k \in Nat
  BY <1>1
<1> HIDE DEF m
<1>5. /\ Advance(M, size, m - 1) = start /\ end \in start + 1 .. L /\ m \in 0 .. L
      /\ end = (IF start + size < L THEN start + size ELSE L) /\ start + size = m * size
      /\ Chunk(M, size, start) = SubSeq(M, start + 1, end)
  <2>1. (m - 1) * size = start /\ start < L
    BY <1>1, <1>3, <1>4
  <2> HIDE DEF L
  <2>2. Len(M) \in Nat /\ start < Len(M)
    BY <1>1, <2>1 DEF L
  <2>3. LET i == Advance(M, size, m - 1)
            j == Advance(M, size, m)
        IN  /\ Chunk(M, size, (m - 1) * size) = SubSeq(M, i + 1, j)
            /\ (m - 1) * size < Len(M) =>
                     /\ i = (m - 1) * size /\ j \in i + 1 .. Len(M) /\ m \in 0 .. Len(M)
                     /\ j = IF i + size < Len(M) THEN i + size ELSE Len(M)
                     /\ i + size = m * size
    BY <1>4, <2>2, ChunkIs
  <2> QED
    BY <2>1, <2>2, <2>3 DEF L
<1> DEFINE ops == SubSeq(M, start + 1, end)
<1>6. plan.operations = ops /\ plan.next = {n \in {start + size} : n < L}
  BY <1>2, <1>5
<1> HIDE DEF L, ids, after, end, ops
<1>7. plan.next = {end} \ {L}
  <2>1. CASE start + size < L
    <3>1. end = start + size /\ end # L
      BY <1>1, <1>5, <2>1
    <3>2. plan.next = {end}
      BY <1>6, <2>1, <3>1
    <3> QED
      BY <3>1, <3>2
  <2>2. CASE ~(start + size < L)
    <3>1. end = L
      BY <1>5, <2>2
    <3>2. plan.next = {}
      BY <1>6, <2>2
    <3> QED
      BY <3>1, <3>2
  <2> QED
    BY <2>1, <2>2
<1>8. \A n \in plan.next \cup {0} : PlanBulk(g, M, size, n) # {}
  <2>1. ASSUME NEW n \in Starts(M, size) PROVE PlanBulk(g, M, size, n) # {}
    BY <1>2, <2>1 DEF PlanBulk, ids, after, L
  <2>2. 0 \in Starts(M, size)
    <3>1. 0 \in 0 .. L /\ 0 * size = 0 /\ 0 \in 0 .. L - 1
      BY <1>1
    <3> QED
      BY <3>1 DEF Starts, L
  <2>3. ASSUME NEW n \in plan.next PROVE n \in Starts(M, size)
    <3>1. n = m * size /\ n \in 0 .. L - 1
      BY <1>1, <1>5, <1>6
    <3> QED
      BY <1>5, <3>1 DEF Starts, L
  <2> QED
    BY <2>1, <2>2, <2>3
<1> DEFINE x == Part(g, M, start)
           y == Part(g, M, end)
<1>9. IsValid(x) /\ IsValid(y)
  <2>1. \A i \in 0 .. Len(M) : IsValid(Part(g, M, Advance(M, size, i)))
    BY <1>2, CheckpointsAre DEF after
  <2>2. k \in 0 .. Len(M) /\ m \in 0 .. Len(M)
    BY <1>5 DEF L
  <2>3. Advance(M, size, k) = start
    BY <1>4, <1>5
  <2> QED
    BY <2>1, <2>2, <2>3 DEF end
<1>10. /\ ProjectGraph(x, ops) = {y}
       /\ ProjectGraph(g, SubSeq(M, 1, start)) = {x} /\ ProjectGraph(g, SubSeq(M, 1, end)) = {y}
  <2>1. start \in 0 .. Len(M) /\ end \in 0 .. Len(M) /\ start \in 0 .. end /\ start \in 0 .. start
    BY <1>1, <1>5 DEF L
  <2>2. ProjectGraph(g, SubSeq(M, 1, start)) = {x}
    BY <2>1, PartsFollow
  <2>3. ProjectGraph(x, ops) = {y} /\ ProjectGraph(g, SubSeq(M, 1, end)) = {y}
    BY <2>1, PartsFollow DEF ops
  <2> QED
    BY <2>2, <2>3
<1> HIDE DEF x, y
<1>11. Composes(g, M, size, start, plan, end)
  <2>1. plan.operations = SubSeq(M, start + 1, end) /\ plan.next = {end} \ {Len(M)}
    BY <1>6, <1>7 DEF ops, L
  <2>2. ProjectGraph(x, plan.operations) = ProjectGraph(g, SubSeq(M, 1, end))
    BY <1>6, <1>10
  <2>3. x \in ProjectGraph(g, SubSeq(M, 1, start)) /\ y \in ProjectGraph(g, SubSeq(M, 1, end))
    BY <1>10
  <2> QED
    BY <1>8, <1>9, <1>10, <2>1, <2>2, <2>3 DEF Composes
<1> QED
  BY <1>5, <1>11 DEF L

\* However the operations of a session are listed and whatever the size of the chunks, each chunk
\* of a plan leads from one valid graph to the next, each cursor it gives is one it takes, and
\* all of them together lead to the proposed graph (plan_bulk).
THEOREM ChunksAlwaysCompose == Spec => []ChunksCompose
<1>1. CInv => ChunksCompose
  <2> SUFFICES ASSUME CInv, NEW M \in SetToSeqs(ToSet(mine)), NEW size \in 1 .. 2
               PROVE  /\ ProjectGraph(base, SubSeq(M, 1, Len(M))) = {proposed}
                      /\ \A start \in 0 .. Len(M) - 1 : \A plan \in PlanBulk(base, M, size, start) :
                            \E end \in start + 1 .. Len(M) : Composes(base, M, size, start, plan, end)
    BY DEF ChunksCompose, Composes
  <2>1. /\ Distinct(mine) /\ (\A op \in ToSet(mine) : Admits(base, op)) /\ IsManifest(mine)
        /\ proposed = ResultOf(base, ToSet(mine)) /\ IsProject(base) /\ IsValid(base)
    BY DEF CInv, GInv, LedTo
  <2>2. Apart(ToSet(mine)) /\ IsFiniteSet(ToSet(mine)) /\ \A op \in ToSet(mine) : IsOperation(op)
    BY <2>1, ApartIs
  <2>3. /\ Len(M) \in Nat /\ {M[i] : i \in 1 .. Len(M)} = ToSet(mine)
        /\ \A i, j \in 1 .. Len(M) : i # j => M[i] # M[j]
    BY <2>2, EnumerationIsAll
  <2>4. Listed(base, M)
    BY <2>1, <2>2, <2>3 DEF Listed, Apart
  <2>5. ProjectGraph(base, SubSeq(M, 1, Len(M))) = {proposed}
    <3>1. Given(M, Len(M)) = ToSet(mine)
      BY <2>3 DEF Given
    <3>2. Len(M) \in 0 .. Len(M) /\ 0 \in 0 .. Len(M)
      BY <2>3
    <3>3. ProjectGraph(base, SubSeq(M, 1, Len(M))) = {Part(base, M, Len(M))}
      BY <2>4, <3>2, PartsFollow
    <3> QED
      BY <2>1, <3>1, <3>3 DEF Part
  <2>6. \A start \in 0 .. Len(M) - 1 : \A plan \in PlanBulk(base, M, size, start) :
            \E end \in start + 1 .. Len(M) : Composes(base, M, size, start, plan, end)
    BY <2>1, <2>4, PlanComposes
  <2> QED
    BY <2>5, <2>6
<1> QED
  BY <1>1, Edited, PTL
-----------------------------------------------------------------------------
(* Cycles. *)

\* A set that can be gone through for ever, from each of its members to another.
Loops(arcs, T) == T # {} /\ \A n \in T : \E a \in arcs : a[1] = n /\ a[2] \in T

Calls == [path : Seq(Int), done : SUBSET Int]
Returned(ids, arcs) == {at \in Calls : Looping(at.path) \/ (at.path = <<>> /\ Ways(ids, arcs, at) = {})}
Cycling(ids, arcs) ==
    CHOOSE visit : visit = [at \in Calls |->
            IF Looping(at.path) THEN TRUE
            ELSE IF at.path = <<>> /\ Ways(ids, arcs, at) = {} THEN FALSE
            ELSE visit[Visiting(ids, arcs, at)]]
Verdicts == [at \in Calls |-> Looping(at.path)]
Visits(ids, arcs) == [at \in Calls |-> IF at \in Returned(ids, arcs) THEN at ELSE Visiting(ids, arcs, at)]

\* Arcs between some nodes, of which there are finitely many.
Between(ids, arcs) ==
    /\ ids \subseteq Int /\ IsFiniteSet(ids) /\ Cardinality(ids) \in Nat
    /\ \A a \in arcs : a = <<a[1], a[2]>> /\ a[1] \in ids /\ a[2] \in ids

\* The calls in progress form a path, and no cycle goes through what is done with.
Calling(ids, arcs, at) ==
    /\ at \in Calls /\ at.done \subseteq ids
    /\ \A i \in 1 .. Len(at.path) : at.path[i] \in ids /\ at.path[i] \notin at.done
    /\ \A i \in 1 .. Len(at.path) - 1 : \E a \in arcs : a[1] = at.path[i] /\ a[2] = at.path[i + 1]
    /\ \A i, j \in 1 .. Len(at.path) - 1 : i # j => at.path[i] # at.path[j]
    /\ \A a \in arcs : a[1] \in at.done => a[2] \in at.done
    /\ \A T \in SUBSET ids : Loops(arcs, T) => T \cap at.done = {}

Undone(ids, at) == Cardinality(ids \ at.done)
Room(ids, at) == Cardinality(ids) + 1 - Len(at.path)

LEMMA FrontIs ==
    ASSUME NEW p \in Seq(Int), p # <<>>
    PROVE  /\ Len(p) \in Nat \ {0} /\ Last(p) = p[Len(p)] /\ Last(p) \in Int
           /\ Front(p) \in Seq(Int) /\ Len(Front(p)) = Len(p) - 1
           /\ \A i \in 1 .. Len(p) - 1 : Front(p)[i] = p[i]
<1> DEFINE L == Len(p)
<1>1. L \in Nat /\ L # 0 /\ \A i \in 1 .. L : p[i] \in Int
  BY LenProperties, ElementOfSeq, EmptySeq
<1>2. Front(p) = SubSeq(p, 1, L - 1) /\ Last(p) = p[L]
  BY DEF Front, Last
<1> HIDE DEF L
<1>3. 1 \in Int /\ L - 1 \in Int /\ L \in 1 .. L /\ \A i \in 1 .. L - 1 : i \in 1 .. L /\ p[i] \in Int
  BY <1>1
<1> DEFINE q == SubSeq(p, 1, L - 1)
<1>4. /\ q \in Seq(Int) /\ Len(q) = (IF 1 <= L - 1 THEN (L - 1) - 1 + 1 ELSE 0)
      /\ \A i \in 1 .. (L - 1) - 1 + 1 : q[i] = p[1 + i - 1]
  BY <1>3, SubSeqProperties
<1> HIDE DEF q
<1>5. Len(q) = L - 1
  BY <1>1, <1>4
<1>6. \A i \in 1 .. L - 1 : q[i] = p[i]
  <2> SUFFICES ASSUME NEW i \in 1 .. L - 1 PROVE q[i] = p[i]
    OBVIOUS
  <2>1. i \in 1 .. (L - 1) - 1 + 1 /\ 1 + i - 1 = i
    BY <1>1
  <2> QED
    BY <1>4, <2>1
<1> QED
  BY <1>1, <1>2, <1>3, <1>4, <1>5, <1>6 DEF L, q

\* One more step of the search.
LEMMA VisitingStep ==
    ASSUME NEW ids, NEW arcs, Between(ids, arcs), NEW at, Calling(ids, arcs, at), at \notin Returned(ids, arcs)
    PROVE  LET to == Visiting(ids, arcs, at)
           IN  /\ Calling(ids, arcs, to) /\ Len(to.path) \in Nat
               /\ \/ to.done = at.done /\ Len(to.path) = Len(at.path) + 1
                  \/ \E n \in ids \ at.done : to.done = at.done \cup {n}
<1> DEFINE to == Visiting(ids, arcs, at)
           p == at.path
           d == at.done
           L == Len(p)
           ways == Ways(ids, arcs, at)
<1>1. at \in Calls /\ p \in Seq(Int) /\ d \in SUBSET Int /\ d \subseteq ids /\ L \in Nat
  BY LenProperties DEF Calling, Calls
<1>2. /\ \A i \in 1 .. L : p[i] \in ids /\ p[i] \notin d
      /\ \A i \in 1 .. L - 1 : \E a \in arcs : a[1] = p[i] /\ a[2] = p[i + 1]
      /\ \A i, j \in 1 .. L - 1 : i # j => p[i] # p[j]
      /\ \A a \in arcs : a[1] \in d => a[2] \in d
      /\ \A T \in SUBSET ids : Loops(arcs, T) => T \cap d = {}
  BY DEF Calling
<1>3. ids \subseteq Int /\ \A a \in arcs : a[1] \in ids /\ a[2] \in ids
  BY DEF Between
<1>4. ~Looping(p) /\ (p = <<>> => ways # {})
  BY <1>1 DEF Returned
<1>5. \A i \in 1 .. L - 1 : p[i] # Last(p)
  <2>1. DOMAIN p = 1 .. L /\ \A i \in 1 .. L - 1 : i \in 1 .. L /\ i < L
    BY <1>1, LenProperties
  <2> QED
    BY <1>4, <2>1 DEF Looping
<1>6. ways = (IF p = <<>> THEN ids ELSE {a[2] : a \in {x \in arcs : x[1] = Last(p)}}) \ d
  BY DEF Ways
<1>7. to = IF ways = {} THEN [path |-> Front(p), done |-> d \cup {Last(p)}]
           ELSE [path |-> Append(p, CHOOSE n \in ways : TRUE), done |-> d]
  BY DEF Visiting
<1> HIDE DEF to, p, d, ways, L
<1>8. ASSUME NEW q, NEW e, NEW k, to.path = q, to.done = e, to \in Calls, e \subseteq ids, Len(q) = k,
             \A i \in 1 .. k : q[i] \in ids /\ q[i] \notin e,
             \A i \in 1 .. k - 1 : \E a \in arcs : a[1] = q[i] /\ a[2] = q[i + 1],
             \A i, j \in 1 .. k - 1 : i # j => q[i] # q[j],
             \A a \in arcs : a[1] \in e => a[2] \in e,
             \A T \in SUBSET ids : Loops(arcs, T) => T \cap e = {}
      PROVE  Calling(ids, arcs, to)
  BY <1>8 DEF Calling
<1>9. ASSUME ways = {}
      PROVE  Calling(ids, arcs, to) /\ Len(to.path) \in Nat /\ \E n \in ids \ d : to.done = d \cup {n}
  <2> DEFINE n == Last(p)
             q == Front(p)
             e == d \cup {n}
  <2>1. p # <<>>
    BY <1>4, <1>9
  <2>2. /\ L \in Nat \ {0} /\ n = p[L] /\ n \in Int /\ q \in Seq(Int) /\ Len(q) = L - 1
        /\ \A i \in 1 .. L - 1 : q[i] = p[i]
    BY <1>1, <2>1, FrontIs DEF L
  <2>3. to = [path |-> q, done |-> e]
    BY <1>7, <1>9
  <2>4. \A a \in arcs : a[1] = n => a[2] \in d
    BY <1>6, <1>9, <2>1
  <2>5. \A i \in 1 .. L - 1 : p[i] # n
    BY <1>5
  <2> HIDE DEF n, q
  <2>6. n \in ids \ d
    <3>1. L \in 1 .. L
      BY <2>2
    <3> QED
      BY <1>2, <2>2, <3>1
  <2>7. to.path = q /\ to.done = e /\ to \in Calls /\ e \subseteq ids /\ Len(q) = L - 1 /\ L - 1 \in Nat
    <3>1. e \in SUBSET Int /\ e \subseteq ids
      BY <1>1, <2>2, <2>6
    <3> HIDE DEF e
    <3>2. to.path = q /\ to.done = e
      BY <2>3
    <3>3. to \in Calls
      BY <2>2, <2>3, <3>1 DEF Calls
    <3> QED
      BY <2>2, <3>1, <3>2, <3>3
  <2>8. \A i \in 1 .. L - 1 : i \in 1 .. L /\ q[i] \in ids /\ q[i] \notin e
    <3> SUFFICES ASSUME NEW i \in 1 .. L - 1 PROVE i \in 1 .. L /\ q[i] \in ids /\ q[i] \notin e
      OBVIOUS
    <3>1. i \in 1 .. L
      BY <2>2
    <3> QED
      BY <1>2, <2>2, <2>5, <3>1
  <2>9. \A i \in 1 .. (L - 1) - 1 : \E a \in arcs : a[1] = q[i] /\ a[2] = q[i + 1]
    <3> SUFFICES ASSUME NEW i \in 1 .. (L - 1) - 1 PROVE \E a \in arcs : a[1] = q[i] /\ a[2] = q[i + 1]
      OBVIOUS
    <3>1. i \in 1 .. L - 1 /\ i + 1 \in 1 .. L - 1
      BY <2>2
    <3> QED
      BY <1>2, <2>2, <3>1
  <2>10. \A i, j \in 1 .. (L - 1) - 1 : i # j => q[i] # q[j]
    <3>1. \A i \in 1 .. (L - 1) - 1 : i \in 1 .. L - 1
      BY <2>2
    <3> QED
      BY <1>2, <2>2, <3>1
  <2>11. \A a \in arcs : a[1] \in e => a[2] \in e
    BY <1>2, <2>4
  <2>12. ASSUME NEW T \in SUBSET ids, Loops(arcs, T) PROVE T \cap e = {}
    <3>1. T \cap d = {}
      BY <1>2, <2>12
    <3>2. n \notin T
      BY <2>4, <2>12, <3>1 DEF Loops
    <3> QED
      BY <3>1, <3>2
  <2> HIDE DEF e
  <2>13. Calling(ids, arcs, to)
    BY <1>8, <2>7, <2>8, <2>9, <2>10, <2>11, <2>12
  <2> QED
    BY <2>6, <2>7, <2>13 DEF e
<1>10. ASSUME ways # {}
       PROVE  Calling(ids, arcs, to) /\ Len(to.path) \in Nat /\ to.done = d /\ Len(to.path) = L + 1
  <2> DEFINE n == CHOOSE x \in ways : TRUE
             q == Append(p, n)
  <2>1. n \in ways
    BY <1>10
  <2>2. to = [path |-> q, done |-> d]
    BY <1>7, <1>10
  <2> HIDE DEF n
  <2>3. n \in ids /\ n \notin d /\ n \in Int
    BY <1>3, <1>6, <2>1
  <2>4. q \in Seq(Int) /\ Len(q) = L + 1 /\ q[L + 1] = n /\ \A i \in 1 .. L : q[i] = p[i]
    BY <1>1, <2>3, AppendProperties DEF L
  <2> HIDE DEF q
  <2>5. to.path = q /\ to.done = d /\ to \in Calls
    BY <1>1, <2>2, <2>4 DEF Calls
  <2>6. \A i \in 1 .. L + 1 : q[i] \in ids /\ q[i] \notin d
    <3>1. \A i \in 1 .. L + 1 : i \in 1 .. L \/ i = L + 1
      BY <1>1
    <3> QED
      BY <1>2, <2>3, <2>4, <3>1
  <2>7. \A i \in 1 .. (L + 1) - 1 : \E a \in arcs : a[1] = q[i] /\ a[2] = q[i + 1]
    <3> SUFFICES ASSUME NEW i \in 1 .. L PROVE \E a \in arcs : a[1] = q[i] /\ a[2] = q[i + 1]
      BY <1>1
    <3>1. CASE i = L
      <4>1. p # <<>>
        BY <1>1, <3>1, EmptySeq DEF L
      <4>2. PICK a \in arcs : a[1] = Last(p) /\ a[2] = n
        BY <1>6, <2>1, <4>1
      <4>3. Last(p) = p[L]
        BY DEF Last, L
      <4> QED
        BY <2>4, <3>1, <4>2, <4>3
    <3>2. CASE i # L
      <4>1. i \in 1 .. L - 1 /\ i + 1 \in 1 .. L
        BY <1>1, <3>2
      <4> QED
        BY <1>2, <2>4, <4>1
    <3> QED
      BY <3>1, <3>2
  <2>8. \A i, j \in 1 .. (L + 1) - 1 : i # j => q[i] # q[j]
    <3> SUFFICES ASSUME NEW i \in 1 .. L, NEW j \in 1 .. L, i # j PROVE p[i] # p[j]
      BY <1>1, <2>4
    <3>1. p[L] = Last(p)
      BY DEF Last, L
    <3>2. /\ i = L \/ i \in 1 .. L - 1
          /\ j = L \/ j \in 1 .. L - 1
      BY <1>1
    <3> QED
      BY <1>2, <1>5, <3>1, <3>2
  <2>9. Calling(ids, arcs, to)
    <3>1. L + 1 = Len(q) /\ d \subseteq ids
      BY <1>1, <2>4
    <3> QED
      BY <1>2, <1>8, <2>5, <2>6, <2>7, <2>8, <3>1
  <2> QED
    BY <1>1, <2>4, <2>5, <2>9
<1> QED
  BY <1>9, <1>10 DEF to, p, d, L
\* The search is over with an answer.
LEMMA CyclingIs ==
    ASSUME NEW ids, NEW arcs, ids \subseteq Int, \A a \in arcs : a[2] \in Int
    PROVE  /\ Solves(Cycling(ids, arcs), Calls, Returned(ids, arcs), Verdicts, Visits(ids, arcs))
           /\ Visits(ids, arcs) \in [Calls -> Calls]
<1> DEFINE done == Returned(ids, arcs)
           out  == Verdicts
           next == Visits(ids, arcs)
           Def(f) == [at \in Calls |->
                        IF Looping(at.path) THEN TRUE
                        ELSE IF at.path = <<>> /\ Ways(ids, arcs, at) = {} THEN FALSE
                        ELSE f[Visiting(ids, arcs, at)]]
<1>1. ASSUME NEW at \in Calls, at \notin done PROVE Visiting(ids, arcs, at) \in Calls
  <2> DEFINE ways == Ways(ids, arcs, at)
  <2>1. at.path \in Seq(Int) /\ at.done \in SUBSET Int
    BY DEF Calls
  <2>2. Visiting(ids, arcs, at) =
            IF ways = {} THEN [path |-> Front(at.path), done |-> at.done \cup {Last(at.path)}]
            ELSE [path |-> Append(at.path, CHOOSE n \in ways : TRUE), done |-> at.done]
    BY DEF Visiting
  <2>3. ways \subseteq Int
    BY DEF Ways
  <2>4. CASE ways = {}
    <3>1. at.path # <<>>
      BY <1>1, <2>4 DEF Returned
    <3>2. Front(at.path) \in Seq(Int) /\ at.done \cup {Last(at.path)} \in SUBSET Int
      BY <2>1, <3>1, FrontIs
    <3> QED
      BY <2>2, <2>4, <3>2 DEF Calls
  <2>5. CASE ways # {}
    <3> DEFINE n == CHOOSE x \in ways : TRUE
    <3>1. n \in ways
      BY <2>5
    <3>2. Visiting(ids, arcs, at) = [path |-> Append(at.path, n), done |-> at.done]
      BY <2>2, <2>5
    <3> HIDE DEF ways, n
    <3>3. Append(at.path, n) \in Seq(Int)
      BY <2>1, <2>3, <3>1, AppendProperties
    <3> QED
      BY <2>1, <3>2, <3>3 DEF Calls
  <2> QED
    BY <2>4, <2>5
<1>2. next \in [Calls -> Calls]
  BY <1>1 DEF Visits
<1>3. ASSUME NEW f PROVE Def(f) = [at \in Calls |-> IF at \in done THEN out[at] ELSE f[next[at]]]
  <2>1. ASSUME NEW at \in Calls
        PROVE  (IF Looping(at.path) THEN TRUE
                ELSE IF at.path = <<>> /\ Ways(ids, arcs, at) = {} THEN FALSE
                ELSE f[Visiting(ids, arcs, at)]) = IF at \in done THEN out[at] ELSE f[next[at]]
    <3>1. CASE Looping(at.path)
      <4>1. at \in done
        BY <3>1 DEF Returned
      <4>2. out[at] = Looping(at.path)
        BY DEF Verdicts
      <4>3. Looping(at.path) = TRUE
        BY <3>1, Zenon DEF Looping
      <4> QED
        BY <3>1, <4>1, <4>2, <4>3, Zenon
    <3>2. CASE ~Looping(at.path) /\ at.path = <<>> /\ Ways(ids, arcs, at) = {}
      <4>1. at \in done
        BY <3>2 DEF Returned
      <4>2. out[at] = Looping(at.path)
        BY DEF Verdicts
      <4>3. Looping(at.path) = FALSE
        BY <3>2, Zenon DEF Looping
      <4> QED
        BY <3>2, <4>1, <4>2, <4>3, Zenon
    <3>3. CASE ~Looping(at.path) /\ ~(at.path = <<>> /\ Ways(ids, arcs, at) = {})
      <4>1. at \notin done
        BY <3>3 DEF Returned
      <4>2. next[at] = Visiting(ids, arcs, at)
        BY <4>1 DEF Visits
      <4> QED
        BY <3>3, <4>1, <4>2, Zenon
    <3> QED
      BY <3>1, <3>2, <3>3, Zenon
  <2> HIDE DEF done, out, next
  <2> QED
    BY <2>1, Zenon
<1>4. Cycling(ids, arcs) = CHOOSE f : f = Def(f)
  BY DEF Cycling
<1> HIDE DEF done, out, next
<1>5. PICK f : Solves(f, Calls, done, out, next)
  BY <1>2, TailRecursion
<1>6. f = Def(f)
  <2>1. f = [at \in Calls |-> IF at \in done THEN out[at] ELSE f[next[at]]]
    BY <1>5 DEF Solves
  <2> HIDE DEF Def
  <2> QED
    BY <1>3, <2>1
<1>7. Cycling(ids, arcs) = Def(Cycling(ids, arcs))
  <2> HIDE DEF Def
  <2> QED
    BY <1>4, <1>6
<1>8. Solves(Cycling(ids, arcs), Calls, done, out, next)
  <2> HIDE DEF Def
  <2> QED
    BY <1>3, <1>7 DEF Solves
<1> QED
  BY <1>2, <1>8 DEF done, out, next

\* There is no room in a path for more than the nodes there are.
LEMMA PathsAreSmall ==
    ASSUME NEW ids, NEW arcs, Between(ids, arcs), NEW at, Calling(ids, arcs, at)
    PROVE  Len(at.path) \in Nat /\ Room(ids, at) \in Nat
<1> DEFINE p == at.path
           L == Len(p)
           A == 1 .. L - 1
           B == {p[i] : i \in A}
           f == [i \in A |-> p[i]]
<1>1. /\ L \in Nat /\ (\A i \in 1 .. L : p[i] \in ids) /\ \A i, j \in 1 .. L - 1 : i # j => p[i] # p[j]
      /\ ids \subseteq Int /\ IsFiniteSet(ids) /\ Cardinality(ids) \in Nat
  BY LenProperties DEF Calling, Calls, Between
<1> HIDE DEF L, p
<1>2. \A i \in A : i \in 1 .. L /\ p[i] \in ids
  BY <1>1
<1>3. IsFiniteSet(A) /\ Cardinality(A) = IF 1 > L - 1 THEN 0 ELSE (L - 1) - 1 + 1
  BY <1>1, FS_Interval
<1>4. f \in Bijection(A, B)
  <2>1. f \in [A -> B] /\ f \in Surjection(A, B)
    BY DEF Surjection
  <2>2. \A i, j \in A : f[i] = f[j] => i = j
    BY <1>1
  <2>3. f \in Injection(A, B)
    BY <2>1, <2>2 DEF Injection, IsInjective
  <2> QED
    BY <2>1, <2>3 DEF Bijection
<1>5. IsFiniteSet(B) /\ Cardinality(B) = Cardinality(A)
  <2> HIDE DEF f, A, B
  <2> QED
    BY <1>3, <1>4, FS_Bijection DEF ExistsBijection
<1>6. Cardinality(B) <= Cardinality(ids)
  <2>1. B \in SUBSET ids
    BY <1>2
  <2> HIDE DEF B
  <2> QED
    BY <1>1, <2>1, FS_Subset
<1> HIDE DEF A, B
<1>7. L <= Cardinality(ids) + 1
  BY <1>1, <1>3, <1>5, <1>6
<1> QED
  BY <1>1, <1>7 DEF Room, L, p
\* What the search answers is whether some nodes can be gone through for ever.
LEMMA CycleIs ==
    ASSUME NEW ids, NEW arcs, Between(ids, arcs)
    PROVE  LET answer == Cycling(ids, arcs)[[path |-> <<>>, done |-> {}]]
               loops == \E T \in SUBSET ids : Loops(arcs, T)
           IN  (answer = TRUE /\ loops) \/ (answer = FALSE /\ ~loops)
<1> DEFINE f == Cycling(ids, arcs)
           done == Returned(ids, arcs)
           next == Visits(ids, arcs)
           P == {at \in Calls : Calling(ids, arcs, at)}
           major == [at \in P |-> Undone(ids, at)]
           minor == [at \in P |-> Room(ids, at)]
           start == [path |-> <<>>, done |-> {}]
           loops == \E T \in SUBSET ids : Loops(arcs, T)
<1>1. ids \subseteq Int /\ IsFiniteSet(ids) /\ \A a \in arcs : a[1] \in ids /\ a[2] \in ids
  BY DEF Between
<1>2. Solves(f, Calls, done, Verdicts, next)
  BY <1>1, CyclingIs
<1>3. start \in P
  <2>1. <<>> \in Seq(Int) /\ Len(<<>>) = 0 /\ {} \in SUBSET Int
    BY EmptySeq
  <2>2. start \in Calls /\ start.path = <<>> /\ start.done = {}
    BY <2>1 DEF Calls
  <2> HIDE DEF start
  <2>3. Calling(ids, arcs, start)
    BY <2>1, <2>2 DEF Calling
  <2> QED
    BY <2>2, <2>3
<1>4. \A at \in P : Undone(ids, at) \in Nat
  <2> SUFFICES ASSUME NEW at \in P PROVE Undone(ids, at) \in Nat
    OBVIOUS
  <2>1. ids \ at.done \in SUBSET ids
    OBVIOUS
  <2> QED
    BY <1>1, <2>1, FS_Subset, FS_CardinalityType DEF Undone
<1>5. \A at \in P : Len(at.path) \in Nat /\ Room(ids, at) \in Nat
  BY PathsAreSmall
<1>6. major \in [P -> Nat] /\ minor \in [P -> Nat] /\ P \in SUBSET Calls
  BY <1>4, <1>5
<1>7. ASSUME NEW at \in P \ done
      PROVE  /\ next[at] \in P
             /\ \/ major[next[at]] < major[at]
                \/ major[next[at]] = major[at] /\ minor[next[at]] < minor[at]
  <2> DEFINE to == Visiting(ids, arcs, at)
  <2>1. at \in Calls /\ Calling(ids, arcs, at) /\ at \notin done /\ next[at] = to
    BY DEF Visits
  <2>2. /\ Calling(ids, arcs, to) /\ Len(to.path) \in Nat
        /\ \/ to.done = at.done /\ Len(to.path) = Len(at.path) + 1
           \/ \E n \in ids \ at.done : to.done = at.done \cup {n}
    BY <2>1, VisitingStep
  <2> HIDE DEF to
  <2>3. to \in P
    BY <2>2 DEF Calling
  <2>4. CASE to.done = at.done /\ Len(to.path) = Len(at.path) + 1
    <3>1. Undone(ids, to) = Undone(ids, at)
      BY <2>4 DEF Undone
    <3>2. Room(ids, to) < Room(ids, at)
      <4>1. Cardinality(ids) \in Nat /\ Len(at.path) \in Nat
        BY <1>5 DEF Between
      <4> QED
        BY <2>4, <4>1 DEF Room
    <3> QED
      BY <2>1, <2>3, <3>1, <3>2
  <2>5. CASE \E n \in ids \ at.done : to.done = at.done \cup {n}
    <3>1. PICK n \in ids \ at.done : to.done = at.done \cup {n}
      BY <2>5
    <3> DEFINE A == ids \ at.done
               B == ids \ to.done
    <3>2. B = A \ {n} /\ n \in A
      BY <3>1
    <3>3. A \in SUBSET ids
      OBVIOUS
    <3>4. Cardinality(A) = Undone(ids, at) /\ Cardinality(B) = Undone(ids, to)
      BY DEF Undone
    <3> HIDE DEF A, B
    <3>5. IsFiniteSet(A)
      BY <1>1, <3>3, FS_Subset
    <3>6. Cardinality(B) = Cardinality(A) - 1
      BY <3>2, <3>5, FS_RemoveElement
    <3>7. Undone(ids, to) < Undone(ids, at)
      BY <1>4, <2>3, <3>4, <3>6
    <3> QED
      BY <2>1, <2>3, <3>7
  <2> QED
    BY <2>2, <2>4, <2>5
<1>8. PICK y \in P \cap done : f[start] = Verdicts[y]
  <2> HIDE DEF f, done, next, P, major, minor, start
  <2> QED
    BY <1>2, <1>3, <1>6, <1>7, LoopEnds
<1> DEFINE p == y.path
           L == Len(p)
<1>9. /\ p \in Seq(Int) /\ L \in Nat /\ DOMAIN p = 1 .. L /\ Calling(ids, arcs, y)
      /\ Looping(p) \/ (p = <<>> /\ Ways(ids, arcs, y) = {})
      /\ Verdicts[y] = Looping(p)
  BY LenProperties DEF Calls, Returned, Verdicts
<1>10. CASE Looping(p)
  <2>1. f[start] = TRUE
    <3>1. Looping(p) = TRUE
      BY <1>10, Zenon DEF Looping
    <3> QED
      BY <1>8, <1>9, <3>1, Zenon
  <2>2. PICK j \in 1 .. L : j < L /\ p[j] = Last(p)
    BY <1>9, <1>10 DEF Looping
  <2> DEFINE T == {p[i] : i \in j .. L - 1}
  <2>3. /\ \A i \in 1 .. L : p[i] \in ids
        /\ \A i \in 1 .. L - 1 : \E a \in arcs : a[1] = p[i] /\ a[2] = p[i + 1]
    BY <1>9 DEF Calling
  <2>4. p[L] = p[j] /\ j \in j .. L - 1
    <3>1. Last(p) = p[L]
      BY DEF Last
    <3> QED
      BY <1>9, <2>2, <3>1
  <2> HIDE DEF p, L
  <2>5. \A i \in j .. L - 1 : i \in 1 .. L /\ i \in 1 .. L - 1 /\ (i + 1 = L \/ i + 1 \in j .. L - 1)
    BY <1>9, <2>2
  <2>6. T \in SUBSET ids /\ T # {}
    BY <2>3, <2>4, <2>5
  <2>7. ASSUME NEW i \in j .. L - 1 PROVE \E a \in arcs : a[1] = p[i] /\ a[2] \in T
    <3>1. PICK a \in arcs : a[1] = p[i] /\ a[2] = p[i + 1]
      BY <2>3, <2>5
    <3>2. p[i + 1] \in T
      BY <2>4, <2>5
    <3> QED
      BY <3>1, <3>2
  <2>8. Loops(arcs, T)
    BY <2>6, <2>7 DEF Loops
  <2> HIDE DEF T
  <2>9. loops
    BY <2>6, <2>8
  <2> QED
    BY <2>1, <2>9
<1>11. CASE ~Looping(p)
  <2>1. f[start] = FALSE
    <3>1. Looping(p) = FALSE
      BY <1>11, Zenon DEF Looping
    <3> QED
      BY <1>8, <1>9, <3>1, Zenon
  <2>2. p = <<>> /\ Ways(ids, arcs, y) = {}
    BY <1>9, <1>11
  <2>3. ids \subseteq y.done
    BY <2>2 DEF Ways
  <2>4. \A T \in SUBSET ids : Loops(arcs, T) => T \cap y.done = {} /\ T # {}
    BY <1>9 DEF Calling, Loops
  <2>5. ~loops
    BY <2>3, <2>4
  <2> QED
    BY <2>1, <2>5
<1> QED
  BY <1>10, <1>11

\* The arcs of the selected edges between the selected nodes.
ArcsInside(g, nodes, edges) == {<<e[2].source, e[2].target>> : e \in Inside(g, nodes, edges)}

LEMMA HasCycleIs ==
    ASSUME NEW g, NEW nodes, NEW edges
    PROVE  HasCycle(g, nodes, edges) = Cycling(NodeIds(nodes), ArcsInside(g, nodes, edges))[[path |-> <<>>, done |-> {}]]
BY DEF HasCycle, Cycling, ArcsInside, Calls
-----------------------------------------------------------------------------
(* What is reached, in either direction. *)

\* The nodes of N that arcs lead to from n, and those they lead to from m on, in any number of steps.
Led(N, arcs, n) == {a[2] : a \in {x \in arcs : x[1] = n}} \cap N
LedOn(N, arcs) == [n \in Int |-> Sorted(Led(N, arcs, n))]
TakenFrom(N, arcs, ids) == ToSet(Visited(Sorted(ids), LedOn(N, arcs)))
AttainedFrom(N, arcs, ids) == UNION {Led(N, arcs, n) : n \in TakenFrom(N, arcs, ids)}
Taken(N, arcs, m) == TakenFrom(N, arcs, {m})
Attained(N, arcs, m) == AttainedFrom(N, arcs, {m})

LEMMA TakenAre ==
    ASSUME NEW N, N \subseteq Int, IsFiniteSet(N), NEW arcs, NEW m \in N
    PROVE  /\ m \in Taken(N, arcs, m) /\ Taken(N, arcs, m) \subseteq N
           /\ \A x \in Taken(N, arcs, m) : Led(N, arcs, x) \subseteq Taken(N, arcs, m)
           /\ \A C : m \in C /\ (\A x \in C \cap N : Led(N, arcs, x) \subseteq C) => Taken(N, arcs, m) \subseteq C
<1> DEFINE step == LedOn(N, arcs)
           start == Sorted({m})
           R == Visited(start, step)
<1>1. \A n : /\ Led(N, arcs, n) \subseteq Int /\ IsFiniteSet(Led(N, arcs, n)) /\ Led(N, arcs, n) \subseteq N
  <2> SUFFICES ASSUME NEW n PROVE IsFiniteSet(Led(N, arcs, n)) /\ Led(N, arcs, n) \subseteq N
    OBVIOUS
  <2>1. Led(N, arcs, n) \in SUBSET N
    BY DEF Led
  <2> QED
    BY <2>1, FS_Subset
<1>2. \A n \in Int : step[n] \in Seq(Led(N, arcs, n)) /\ ToSet(step[n]) = Led(N, arcs, n)
  <2> SUFFICES ASSUME NEW n \in Int PROVE step[n] \in Seq(Led(N, arcs, n)) /\ ToSet(step[n]) = Led(N, arcs, n)
    OBVIOUS
  <2>1. step[n] = Sorted(Led(N, arcs, n))
    BY DEF LedOn
  <2> HIDE DEF step
  <2> QED
    BY <1>1, <2>1, SortedIs
<1>3. \A n \in Int : step[n] \in Seq(Int)
  <2> SUFFICES ASSUME NEW n \in Int PROVE step[n] \in Seq(Int)
    OBVIOUS
  <2>1. Led(N, arcs, n) \subseteq Int /\ step[n] \in Seq(Led(N, arcs, n))
    BY <1>1, <1>2
  <2> HIDE DEF step
  <2> QED
    BY <2>1, SeqOfSet
<1>4. step \in [Int -> Seq(Int)]
  BY <1>3 DEF LedOn
<1>5. start \in Seq(N) /\ ToSet(start) = {m}
  <2>1. {m} \subseteq Int /\ IsFiniteSet({m})
    BY FS_Singleton
  <2>2. start \in Seq({m}) /\ ToSet(start) = {m}
    BY <2>1, SortedIs
  <2> HIDE DEF start
  <2> QED
    BY <2>2, SeqOfSet
<1>6. \A x \in N : ToSet(step[x]) \subseteq N
  BY <1>1, <1>2
<1> HIDE DEF step, start
<1>7. /\ R \in Seq(N) /\ ToSet(start) \subseteq ToSet(R)
      /\ \A x \in ToSet(R) : ToSet(step[x]) \subseteq ToSet(R)
      /\ \A S : ToSet(start) \subseteq S /\ (\A x \in S \cap N : ToSet(step[x]) \subseteq S) => ToSet(R) \subseteq S
  BY <1>4, <1>5, <1>6, VisitedAre
<1>8. ToSet(R) \subseteq N
  BY <1>7, SetOf
<1>9. Taken(N, arcs, m) = ToSet(R)
  BY DEF Taken, TakenFrom, step, start
<1> HIDE DEF R
<1>10. \A x \in N : ToSet(step[x]) = Led(N, arcs, x)
  BY <1>2
<1>11. ASSUME NEW C, m \in C, \A x \in C \cap N : Led(N, arcs, x) \subseteq C PROVE ToSet(R) \subseteq C
  <2>1. ToSet(start) \subseteq C
    BY <1>5, <1>11
  <2>2. \A x \in C \cap N : ToSet(step[x]) \subseteq C
    BY <1>10, <1>11
  <2> QED
    BY <1>7, <2>1, <2>2, Zenon
<1>12. m \in ToSet(R)
  BY <1>5, <1>7
<1>13. \A x \in ToSet(R) : Led(N, arcs, x) \subseteq ToSet(R)
  BY <1>7, <1>8, <1>10
<1> QED
  BY <1>8, <1>9, <1>11, <1>12, <1>13, Zenon

\* Whatever is reached reaches back, along the arcs the other way round.
LEMMA ReachesBack ==
    ASSUME NEW N, N \subseteq Int, IsFiniteSet(N), NEW arcs, NEW back,
           \A x, y \in N : y \in Led(N, arcs, x) => x \in Led(N, back, y),
           NEW m \in N, NEW n \in Attained(N, arcs, m)
    PROVE  n \in N /\ m \in Attained(N, back, n)
<1> DEFINE C == {x \in N : x = m \/ m \in Attained(N, back, x)}
<1>1. \A x : Led(N, arcs, x) \subseteq N /\ Led(N, back, x) \subseteq N
  BY DEF Led
<1>2. ASSUME NEW x \in C, NEW y \in Led(N, arcs, x) PROVE y \in N /\ m \in Attained(N, back, y)
  <2>1. y \in N /\ x \in N /\ x \in Led(N, back, y)
    BY <1>1
  <2>2. /\ y \in Taken(N, back, y) /\ Taken(N, back, y) \subseteq N
        /\ \A z \in Taken(N, back, y) : Led(N, back, z) \subseteq Taken(N, back, y)
    BY <2>1, TakenAre
  <2>3. CASE x = m
    BY <2>1, <2>2, <2>3 DEF Attained, AttainedFrom, Taken
  <2>4. CASE m \in Attained(N, back, x)
    <3>1. x \in Taken(N, back, y)
      BY <2>1, <2>2
    <3>2. \A D : x \in D /\ (\A z \in D \cap N : Led(N, back, z) \subseteq D) => Taken(N, back, x) \subseteq D
      BY <2>1, TakenAre
    <3>3. Taken(N, back, x) \subseteq Taken(N, back, y)
      BY <2>2, <3>1, <3>2
    <3> QED
      BY <2>1, <2>4, <3>3 DEF Attained, AttainedFrom, Taken
  <2> QED
    BY <2>1, <2>3, <2>4
<1>3. Taken(N, arcs, m) \subseteq C
  <2>1. m \in C /\ \A x \in C \cap N : Led(N, arcs, x) \subseteq C
    BY <1>2
  <2> HIDE DEF C
  <2> QED
    BY <2>1, TakenAre
<1>4. PICK x \in Taken(N, arcs, m) : n \in Led(N, arcs, x)
  BY DEF Attained, AttainedFrom, Taken
<1> QED
  BY <1>2, <1>3, <1>4

\* The selected edges, as arcs in a direction.
Laid(g, E, direction) ==
    {IF direction = "incoming" THEN <<g.edges[e].target, g.edges[e].source>> ELSE <<g.edges[e].source, g.edges[e].target>> : e \in E}

LEMMA IdsAreBack ==
    ASSUME NEW S
    PROVE  NodeIds({"nodes"} \X S) = S
<1> DEFINE nodes == {"nodes"} \X S
<1>1. ASSUME NEW x \in NodeIds(nodes) PROVE x \in S
  <2>1. PICK item \in nodes : x = item[2]
    BY DEF NodeIds
  <2> QED
    BY <2>1
<1>2. ASSUME NEW n \in S PROVE n \in NodeIds(nodes)
  <2> DEFINE item == <<"nodes", n>>
  <2>1. item \in nodes /\ item[1] = "nodes" /\ item[2] = n
    OBVIOUS
  <2> HIDE DEF item, nodes
  <2> QED
    BY <2>1 DEF NodeIds
<1> HIDE DEF nodes
<1>3. NodeIds(nodes) = S
  BY <1>1, <1>2
<1> QED
  BY <1>3 DEF nodes

LEMMA EdgeRecordsAre ==
    ASSUME NEW g, NEW E
    PROVE  \A x : x \in EdgeRecords(g, {"edges"} \X E) <=> \E e \in E : x = <<e, g.edges[e]>>
<1> DEFINE edges == {"edges"} \X E
<1>1. ASSUME NEW x \in EdgeRecords(g, edges) PROVE \E e \in E : x = <<e, g.edges[e]>>
  <2>1. PICK item \in edges : x = <<item[2], g.edges[item[2]]>>
    BY DEF EdgeRecords
  <2>2. item[2] \in E
    OBVIOUS
  <2> QED
    BY <2>1, <2>2
<1>2. ASSUME NEW e \in E PROVE <<e, g.edges[e]>> \in EdgeRecords(g, edges)
  <2> DEFINE item == <<"edges", e>>
  <2>1. item \in edges /\ item[1] = "edges" /\ item[2] = e
    OBVIOUS
  <2> HIDE DEF item, edges
  <2> QED
    BY <2>1 DEF EdgeRecords
<1> QED
  BY <1>1, <1>2

LEMMA ReachableIs ==
    ASSUME NEW g, NEW m, NEW E, NEW direction
    PROVE  NodeIds(Reachable(g, {<<"nodes", m>>}, {"edges"} \X E, direction, FALSE))
             = Attained(NodesOf(g), Laid(g, E, direction), m)
<1> DEFINE starts == {<<"nodes", m>>}
           edges == {"edges"} \X E
           arcs == {IF direction = "incoming" THEN <<e[2].target, e[2].source>> ELSE <<e[2].source, e[2].target>>
                    : e \in EdgeRecords(g, edges)}
           A == Attained(NodesOf(g), Laid(g, E, direction), m)
<1>1. \A x : x \in EdgeRecords(g, edges) <=> \E e \in E : x = <<e, g.edges[e]>>
  BY EdgeRecordsAre
<1> HIDE DEF edges
<1>2. arcs = Laid(g, E, direction)
  <2>1. ASSUME NEW e \in E PROVE <<e, g.edges[e]>> \in EdgeRecords(g, edges)
    BY <1>1
  <2>2. ASSUME NEW x \in EdgeRecords(g, edges) PROVE x[1] \in E /\ x[2] = g.edges[x[1]]
    BY <1>1
  <2> DEFINE Arc(r) == IF direction = "incoming" THEN <<r.target, r.source>> ELSE <<r.source, r.target>>
             there == {Arc(x[2]) : x \in EdgeRecords(g, edges)}
             here == {Arc(g.edges[e]) : e \in E}
  <2>3. arcs = there /\ Laid(g, E, direction) = here
    BY DEF Laid
  <2> HIDE DEF Arc
  <2>4. ASSUME NEW a \in there PROVE a \in here
    <3>1. PICK x \in EdgeRecords(g, edges) : a = Arc(x[2])
      OBVIOUS
    <3> QED
      BY <2>2, <3>1
  <2>5. ASSUME NEW a \in here PROVE a \in there
    <3>1. PICK e \in E : a = Arc(g.edges[e])
      OBVIOUS
    <3> DEFINE x == <<e, g.edges[e]>>
    <3>2. x \in EdgeRecords(g, edges) /\ x[2] = g.edges[e]
      BY <2>1
    <3> HIDE DEF x
    <3> QED
      BY <3>1, <3>2
  <2> HIDE DEF there, here
  <2> QED
    BY <2>3, <2>4, <2>5
<1>3. NodeIds(starts) = {m}
  <2>1. {x \in starts : x[1] = "nodes"} = starts
    OBVIOUS
  <2>2. {item[2] : item \in starts} = {m}
    OBVIOUS
  <2> HIDE DEF starts
  <2> QED
    BY <2>1, <2>2 DEF NodeIds
<1> HIDE DEF starts
<1>4. Reachable(g, starts, edges, direction, FALSE) = {} \cup ({"nodes"} \X AttainedFrom(NodesOf(g), arcs, NodeIds(starts)))
  BY DEF Reachable, AttainedFrom, TakenFrom, LedOn, Led
<1> HIDE DEF arcs, A
<1>5. Reachable(g, starts, edges, direction, FALSE) = {"nodes"} \X A
  BY <1>2, <1>3, <1>4 DEF A, Attained
<1>6. NodeIds({"nodes"} \X A) = A
  BY IdsAreBack
<1> QED
  BY <1>5, <1>6 DEF A, starts, edges

LEMMA DirectionsAgree ==
    ASSUME NEW g, Wired(g), NEW E, NEW m \in NodesOf(g), NEW n \in NodesOf(g)
    PROVE  n \in NodeIds(Reachable(g, {<<"nodes", m>>}, {"edges"} \X E, "outgoing", FALSE))
             <=> m \in NodeIds(Reachable(g, {<<"nodes", n>>}, {"edges"} \X E, "incoming", FALSE))
<1> DEFINE N == NodesOf(g)
           out == Laid(g, E, "outgoing")
           in  == Laid(g, E, "incoming")
<1>1. N \subseteq Int /\ IsFiniteSet(N)
  BY DEF Wired
<1>2. \A x, y : <<x, y>> \in out <=> <<y, x>> \in in
  BY DEF Laid
<1>3. (\A a \in out : a = <<a[1], a[2]>>) /\ (\A a \in in : a = <<a[1], a[2]>>)
  BY DEF Laid
<1> HIDE DEF N, out, in
<1>4. \A x, y \in N : y \in Led(N, out, x) <=> x \in Led(N, in, y)
  <2>1. \A x, y \in N : (y \in Led(N, out, x) <=> <<x, y>> \in out) /\ (x \in Led(N, in, y) <=> <<y, x>> \in in)
    BY <1>3 DEF Led
  <2> QED
    BY <1>2, <2>1
<1>5. n \in Attained(N, out, m) => m \in Attained(N, in, n)
  BY <1>1, <1>4, ReachesBack DEF N
<1>6. m \in Attained(N, in, n) => n \in Attained(N, out, m)
  BY <1>1, <1>4, ReachesBack DEF N
<1> QED
  BY <1>5, <1>6, ReachableIs DEF N, out, in
-----------------------------------------------------------------------------
(* Single chains. *)

\* Edges from some nodes to some of them, of which there are finitely many.
Linked(S, I, from, to) == IsFiniteSet(S) /\ IsFiniteSet(I) /\ from \in [I -> S] /\ to \in [I -> S]
Into(I, to, n) == {e \in I : to[e] = n}
Circles(I, from, to, T) == T # {} /\ \A n \in T : \E e \in I : from[e] = n /\ to[e] \in T
Runs(S, I, from, to, p, k) ==
    p \in [1 .. k -> S] /\ \A i \in 1 .. k - 1 : \E e \in I : from[e] = p[i] /\ to[e] = p[i + 1]

LEMMA RunsAreDistinct ==
    ASSUME NEW S, NEW I, NEW from, NEW to, Linked(S, I, from, to), \A T \in SUBSET S : ~Circles(I, from, to, T),
           NEW k \in Nat, NEW p, Runs(S, I, from, to, p, k)
    PROVE  /\ \A i, j \in 1 .. k : i # j => p[i] # p[j]
           /\ k <= Cardinality(S) /\ Cardinality(S) \in Nat
<1>1. ASSUME NEW i \in 1 .. k, NEW j \in 1 .. k, i < j PROVE p[i] # p[j]
  <2> SUFFICES ASSUME p[i] = p[j] PROVE FALSE
    OBVIOUS
  <2> DEFINE T == {p[l] : l \in i .. j - 1}
  <2>1. \A l \in i .. j - 1 : l \in 1 .. k /\ l \in 1 .. k - 1 /\ (l + 1 = j \/ l + 1 \in i .. j - 1)
    BY <1>1
  <2>2. T \in SUBSET S
    BY <2>1 DEF Runs
  <2>3. i \in i .. j - 1
    BY <1>1
  <2>4. ASSUME NEW l \in i .. j - 1 PROVE \E e \in I : from[e] = p[l] /\ to[e] \in T
    <3>1. PICK e \in I : from[e] = p[l] /\ to[e] = p[l + 1]
      BY <2>1 DEF Runs
    <3>2. p[l + 1] \in T
      BY <2>1, <2>3
    <3> QED
      BY <3>1, <3>2
  <2>5. Circles(I, from, to, T)
    BY <2>3, <2>4 DEF Circles
  <2> HIDE DEF T
  <2> QED
    BY <2>2, <2>5
<1>2. \A i, j \in 1 .. k : i # j => p[i] # p[j]
  <2> SUFFICES ASSUME NEW i \in 1 .. k, NEW j \in 1 .. k, i # j PROVE p[i] # p[j]
    OBVIOUS
  <2>1. i < j \/ j < i
    OBVIOUS
  <2> QED
    BY <1>1, <2>1
<1>3. p \in Injection(1 .. k, S)
  <2>1. p \in [1 .. k -> S]
    BY DEF Runs
  <2> QED
    BY <1>2, <2>1 DEF Injection, IsInjective
<1>4. Cardinality(1 .. k) = k /\ Cardinality(1 .. k) <= Cardinality(S)
  <2>1. Cardinality(1 .. k) <= Cardinality(S)
    BY <1>3, FS_Injection DEF Linked
  <2>2. Cardinality(1 .. k) = k
    BY IntervalSize, Zenon
  <2> QED
    BY <2>1, <2>2
<1>5. Cardinality(S) \in Nat
  BY FS_CardinalityType DEF Linked
<1> QED
  BY <1>2, <1>4, <1>5

\* A run goes on from a last node that leads anywhere.
LEMMA RunGoesOn ==
    ASSUME NEW S, NEW I, NEW from, NEW to, Linked(S, I, from, to), NEW k \in Nat \ {0}, NEW p, Runs(S, I, from, to, p, k),
           NEW d \in I, from[d] = p[k]
    PROVE  \E q : Runs(S, I, from, to, q, k + 1) /\ q[1] = p[1]
<1> DEFINE m == k + 1
           q == [i \in 1 .. m |-> IF i = m THEN to[d] ELSE p[i]]
<1>1. p \in [1 .. k -> S] /\ \A i \in 1 .. k - 1 : \E e \in I : from[e] = p[i] /\ to[e] = p[i + 1]
  BY DEF Runs
<1>2. m \in Nat /\ 1 \in 1 .. m /\ 1 # m /\ m \in 1 .. m /\ \A i \in 1 .. m : i = m \/ i \in 1 .. k
  OBVIOUS
<1>3. to[d] \in S
  BY DEF Linked
<1>4. \A i \in 1 .. m : q[i] = IF i = m THEN to[d] ELSE p[i]
  OBVIOUS
<1>5. q \in [1 .. m -> S]
  BY <1>1, <1>2, <1>3
<1>6. \A i \in 1 .. m - 1 : i \in 1 .. k /\ i \in 1 .. m /\ i # m /\ i + 1 \in 1 .. m /\ (i = k \/ (i \in 1 .. k - 1 /\ i + 1 # m)) /\ (i = k => i + 1 = m)
  OBVIOUS
<1> HIDE DEF q, m
<1>7. ASSUME NEW i \in 1 .. m - 1 PROVE \E e \in I : from[e] = q[i] /\ to[e] = q[i + 1]
  <2>1. q[i] = p[i]
    BY <1>4, <1>6
  <2>2. CASE i = k
    <3>1. q[i + 1] = to[d]
      BY <1>2, <1>4, <1>6, <2>2
    <3> QED
      BY <2>1, <2>2, <3>1
  <2>3. CASE i \in 1 .. k - 1 /\ i + 1 # m
    <3>1. q[i + 1] = p[i + 1]
      BY <1>4, <1>6, <2>3
    <3> QED
      BY <1>1, <2>1, <2>3, <3>1
  <2> QED
    BY <1>6, <2>2, <2>3
<1>8. Runs(S, I, from, to, q, m)
  BY <1>5, <1>7 DEF Runs
<1>9. q[1] = p[1]
  BY <1>2, <1>4
<1> QED
  BY <1>8, <1>9 DEF m

\* The greatest of some numbers up to a bound.
LEMMA Greatest ==
    ASSUME NEW K, K \subseteq Nat, K # {}, NEW b \in Nat, \A k \in K : k <= b
    PROVE  \E k \in K : \A l \in K : l <= k
<1> DEFINE D == {b - k : k \in K}
<1>1. D \subseteq Nat /\ D # {}
  <2>1. \A k \in K : b - k \in Nat
    OBVIOUS
  <2> QED
    BY <2>1
<1> HIDE DEF D
<1>2. PICK d \in D : \A c \in D : d <= c
  BY <1>1, Least
<1>3. PICK k \in K : d = b - k
  BY DEF D
<1>4. \A l \in K : b - k <= b - l
  BY <1>2, <1>3 DEF D
<1>5. \A l \in K : l <= k
  BY <1>4
<1> QED
  BY <1>5

\* Nodes of which one has nothing before it, one has nothing after it, and each has at most one
\* of either, none of them in a circle, are a single chain.
LEMMA ChainsAre ==
    ASSUME NEW S, NEW I, NEW from, NEW to, Linked(S, I, from, to), \A T \in SUBSET S : ~Circles(I, from, to, T),
           NEW first \in S, \A e \in I : to[e] # first,
           NEW last \in S, \A n \in S \ {last} : \E e \in I : from[e] = n,
           \A e, f \in I : to[e] = to[f] => e = f
    PROVE  \E p \in SetToSeqs(S) : \A i \in 1 .. Cardinality(S) - 1 : \E e \in I : from[e] = p[i] /\ to[e] = p[i + 1]
<1> DEFINE N == Cardinality(S)
           K == {k \in Nat \ {0} : \E p : Runs(S, I, from, to, p, k) /\ p[1] = first}
<1>1. N \in Nat /\ IsFiniteSet(S)
  BY FS_CardinalityType DEF Linked
<1>2. K \subseteq Nat /\ \A k \in K : k <= N
  BY RunsAreDistinct
<1>3. 1 \in K
  <2> DEFINE p == [i \in 1 .. 1 |-> first]
  <2>1. p \in [1 .. 1 -> S] /\ p[1] = first
    OBVIOUS
  <2> HIDE DEF p
  <2>2. Runs(S, I, from, to, p, 1)
    BY <2>1 DEF Runs
  <2> QED
    BY <2>1, <2>2
<1> HIDE DEF K, N
<1>4. PICK k \in K : \A l \in K : l <= k
  BY <1>1, <1>2, <1>3, Greatest
<1>5. PICK p : k \in Nat \ {0} /\ Runs(S, I, from, to, p, k) /\ p[1] = first
  BY DEF K
<1> DEFINE P == {p[i] : i \in 1 .. k}
           T == S \ P
<1>6. p \in [1 .. k -> S] /\ (\A i \in 1 .. k - 1 : \E e \in I : from[e] = p[i] /\ to[e] = p[i + 1]) /\ k \in 1 .. k /\ 1 \in 1 .. k
  BY <1>5 DEF Runs
<1>7. \A e \in I : from[e] # p[k]
  <2> SUFFICES ASSUME NEW d \in I, from[d] = p[k] PROVE FALSE
    OBVIOUS
  <2>1. PICK q : Runs(S, I, from, to, q, k + 1) /\ q[1] = p[1]
    BY <1>5, RunGoesOn
  <2>2. k + 1 \in Nat \ {0} /\ ~(k + 1 <= k)
    BY <1>5
  <2>3. k + 1 \in K
    BY <1>5, <2>1, <2>2 DEF K
  <2> QED
    BY <1>4, <2>2, <2>3
<1>8. p[k] = last
  BY <1>6, <1>7
<1>9. ASSUME NEW n \in T PROVE \E e \in I : from[e] = n /\ to[e] \in T
  <2>1. n \in S /\ n # last /\ \A i \in 1 .. k : p[i] # n
    BY <1>6, <1>8
  <2>2. PICK e \in I : from[e] = n
    BY <2>1
  <2>3. to[e] \in S
    BY DEF Linked
  <2>4. ASSUME NEW j \in 1 .. k, to[e] = p[j] PROVE FALSE
    <3>1. j # 1
      BY <1>5, <2>4
    <3> DEFINE i == j - 1
    <3>2. i \in 1 .. k - 1 /\ i + 1 = j /\ i \in 1 .. k
      BY <1>5, <3>1
    <3> HIDE DEF i
    <3>3. PICK f \in I : from[f] = p[i] /\ to[f] = p[i + 1]
      BY <1>6, <3>2
    <3>4. to[f] = to[e]
      BY <2>4, <3>2, <3>3
    <3>5. f = e
      BY <3>4
    <3> QED
      BY <2>1, <2>2, <3>2, <3>3, <3>5
  <2>5. to[e] \in T
    BY <2>3, <2>4
  <2> QED
    BY <2>2, <2>5
<1>10. T = {}
  <2>1. T \in SUBSET S
    OBVIOUS
  <2>2. T # {} => Circles(I, from, to, T)
    BY <1>9 DEF Circles
  <2> HIDE DEF T
  <2> QED
    BY <2>1, <2>2
<1>11. /\ \A i, j \in 1 .. k : i # j => p[i] # p[j]
       /\ \A n \in S : \E i \in 1 .. k : p[i] = n
  <2>1. \A i, j \in 1 .. k : i # j => p[i] # p[j]
    BY <1>5, RunsAreDistinct
  <2>2. S \subseteq P
    BY <1>10
  <2> QED
    BY <2>1, <2>2
<1>12. k = N
  <2>1. p \in Injection(1 .. k, S) /\ p \in Surjection(1 .. k, S)
    BY <1>6, <1>11 DEF Injection, IsInjective, Surjection
  <2>2. Cardinality(1 .. k) = Cardinality(S)
    BY <1>1, <2>1, FS_Injection
  <2>3. Cardinality(1 .. k) = k
    BY <1>5, IntervalSize, Zenon
  <2> QED
    BY <2>2, <2>3 DEF N
<1>13. p \in SetToSeqs(S)
  BY <1>6, <1>11, <1>12 DEF SetToSeqs, N
<1> QED
  BY <1>6, <1>12, <1>13 DEF N
\* How many members say that a set is empty, or has at most one.
LEMMA FewAre ==
    ASSUME NEW I, IsFiniteSet(I), NEW J \in SUBSET I
    PROVE  /\ Cardinality(J) \in Nat /\ IsFiniteSet(J) /\ (Cardinality(J) = 0 <=> J = {})
           /\ Cardinality(J) <= 1 <=> \A e, f \in J : e = f
           /\ Cardinality(J) = 1 <=> \E x : J = {x}
<1>1. IsFiniteSet(J)
  BY FS_Subset
<1>2. Cardinality(J) \in Nat /\ (Cardinality(J) = 0 <=> J = {}) /\ (Cardinality(J) = 1 <=> \E x : J = {x})
  BY <1>1, FS_CardinalityType, FS_EmptySet, FS_Singleton
<1>3. (Cardinality(J) <= 1 <=> Cardinality(J) = 0 \/ Cardinality(J) = 1)
  BY <1>2
<1>4. (\A e, f \in J : e = f) <=> (J = {} \/ \E x : J = {x})
  <2>1. ASSUME \A e, f \in J : e = f, J # {} PROVE \E x : J = {x}
    <3>1. PICK x \in J : TRUE
      BY <2>1
    <3>2. J = {x}
      BY <2>1
    <3> QED
      BY <3>2
  <2>2. ASSUME NEW x, J = {x} PROVE \A e, f \in J : e = f
    BY <2>2
  <2> QED
    BY <2>1, <2>2
<1> QED
  BY <1>1, <1>2, <1>3, <1>4

OutOf(I, from, n) == {e \in I : from[e] = n}
Degrees(S, I, from, to) ==
    /\ Cardinality(I) = Cardinality(S) - 1
    /\ Cardinality({n \in S : Cardinality(Into(I, to, n)) = 0}) = 1
    /\ Cardinality({n \in S : Cardinality(OutOf(I, from, n)) = 0}) = 1
    /\ \A n \in S : Cardinality(Into(I, to, n)) <= 1 /\ Cardinality(OutOf(I, from, n)) <= 1
Lined(S, I, from, to, p) ==
    /\ \A i \in 1 .. Cardinality(S) - 1 : \E e \in I : from[e] = p[i] /\ to[e] = p[i + 1]
    /\ Cardinality(I) = Cardinality(S) - 1

\* The edges of an enumeration that has one less of them are its steps.
LEMMA StepsAreAll ==
    ASSUME NEW S, NEW I, NEW from, NEW to, Linked(S, I, from, to),
           S # {}, NEW p \in SetToSeqs(S), Lined(S, I, from, to, p)
    PROVE  \E m \in Nat : \E f \in [1 .. m -> I] :
               /\ Cardinality(S) = m + 1 /\ Cardinality(I) = m
               /\ \A i \in 1 .. m : from[f[i]] = p[i] /\ to[f[i]] = p[i + 1]
               /\ \A e \in I : \E i \in 1 .. m : f[i] = e
<1> DEFINE m == Cardinality(S) - 1
<1>1. m \in Nat /\ Cardinality(S) = m + 1 /\ Cardinality(I) = m
  <2>1. Cardinality(S) \in Nat /\ Cardinality(S) # 0
    BY FS_CardinalityType, FS_EmptySet DEF Linked
  <2> QED
    BY <2>1 DEF Lined
<1>2. \A i \in 1 .. m : \E e \in I : from[e] = p[i] /\ to[e] = p[i + 1]
  BY DEF Lined
<1> HIDE DEF m
<1> DEFINE f == [i \in 1 .. m |-> CHOOSE e \in I : from[e] = p[i] /\ to[e] = p[i + 1]]
<1>3. \A i \in 1 .. m : f[i] \in I /\ from[f[i]] = p[i] /\ to[f[i]] = p[i + 1]
  BY <1>2
<1>4. f \in [1 .. m -> I]
  BY <1>3
<1>5. \A i, j \in 1 .. m : i # j => p[i] # p[j]
  <2>1. \A i \in 1 .. m : i \in 1 .. m + 1
    BY <1>1
  <2> QED
    BY <1>1, <2>1 DEF SetToSeqs
<1> HIDE DEF f
<1>6. f \in Injection(1 .. m, I)
  <2>1. \A i, j \in 1 .. m : f[i] = f[j] => i = j
    BY <1>3, <1>5
  <2> QED
    BY <1>4, <2>1 DEF Injection, IsInjective
<1>7. Cardinality(1 .. m) = m
  BY <1>1, IntervalSize, Zenon
<1>8. f \in Surjection(1 .. m, I)
  BY <1>6, <1>7, <1>1, FS_Injection DEF Linked
<1>9. \A e \in I : \E i \in 1 .. m : f[i] = e
  BY <1>8 DEF Surjection
<1> QED
  BY <1>3, <1>4, <1>9, <1>1

LEMMA DegreesAreLined ==
    ASSUME NEW S, NEW I, NEW from, NEW to, Linked(S, I, from, to),
           \A T \in SUBSET S : ~Circles(I, from, to, T), Degrees(S, I, from, to)
    PROVE  \E p \in SetToSeqs(S) : Lined(S, I, from, to, p)
<1>1. IsFiniteSet(S) /\ IsFiniteSet(I) /\ (\A e \in I : to[e] \in S /\ from[e] \in S)
  BY DEF Linked
<1>2. \A n : Into(I, to, n) \in SUBSET I /\ OutOf(I, from, n) \in SUBSET I
  BY DEF Into, OutOf
<1>3. \A n : (Cardinality(Into(I, to, n)) = 0 <=> Into(I, to, n) = {}) /\ (Cardinality(OutOf(I, from, n)) = 0 <=> OutOf(I, from, n) = {})
  BY <1>1, <1>2, FewAre
<1> DEFINE A == {n \in S : Cardinality(Into(I, to, n)) = 0}
           B == {n \in S : Cardinality(OutOf(I, from, n)) = 0}
<1>4. A \in SUBSET S /\ B \in SUBSET S /\ Cardinality(A) = 1 /\ Cardinality(B) = 1
  BY DEF Degrees
<1>5. (\A n : n \in A <=> n \in S /\ Into(I, to, n) = {}) /\ (\A n : n \in B <=> n \in S /\ OutOf(I, from, n) = {})
  BY <1>3
<1> HIDE DEF A, B
<1>6. PICK first : A = {first}
  BY <1>1, <1>4, FewAre
<1>7. PICK last : B = {last}
  BY <1>1, <1>4, FewAre
<1>8. first \in S /\ \A e \in I : to[e] # first
  BY <1>5, <1>6 DEF Into
<1>9. last \in S /\ \A n \in S \ {last} : \E e \in I : from[e] = n
  BY <1>5, <1>7 DEF OutOf
<1>10. \A e, f \in I : to[e] = to[f] => e = f
  <2> SUFFICES ASSUME NEW e \in I, NEW f \in I, to[e] = to[f] PROVE e = f
    OBVIOUS
  <2> DEFINE J == Into(I, to, to[e])
  <2>1. e \in J /\ f \in J
    BY DEF Into
  <2>2. Cardinality(J) <= 1 /\ J \in SUBSET I
    BY <1>1, <1>2 DEF Degrees
  <2> HIDE DEF J
  <2> QED
    BY <1>1, <2>1, <2>2, FewAre
<1>11. PICK p \in SetToSeqs(S) : \A i \in 1 .. Cardinality(S) - 1 : \E e \in I : from[e] = p[i] /\ to[e] = p[i + 1]
  BY <1>8, <1>9, <1>10, ChainsAre
<1> QED
  BY <1>11 DEF Lined, Degrees

LEMMA LinedHaveDegrees ==
    ASSUME NEW S, NEW I, NEW from, NEW to, Linked(S, I, from, to), S # {},
           NEW p \in SetToSeqs(S), Lined(S, I, from, to, p)
    PROVE  Degrees(S, I, from, to) /\ \A T \in SUBSET S : ~Circles(I, from, to, T)
<1>1. IsFiniteSet(S) /\ IsFiniteSet(I) /\ (\A e \in I : to[e] \in S /\ from[e] \in S)
  BY DEF Linked
<1>2. PICK m \in Nat : \E f \in [1 .. m -> I] :
               /\ Cardinality(S) = m + 1 /\ Cardinality(I) = m
               /\ \A i \in 1 .. m : from[f[i]] = p[i] /\ to[f[i]] = p[i + 1]
               /\ \A e \in I : \E i \in 1 .. m : f[i] = e
  BY StepsAreAll
<1>3. PICK f \in [1 .. m -> I] :
               /\ Cardinality(S) = m + 1 /\ Cardinality(I) = m
               /\ \A i \in 1 .. m : from[f[i]] = p[i] /\ to[f[i]] = p[i + 1]
               /\ \A e \in I : \E i \in 1 .. m : f[i] = e
  BY <1>2
<1> DEFINE k == m + 1
<1>4. \A i \in 1 .. m : \E e \in I : from[e] = p[i] /\ to[e] = p[i + 1]
  BY <1>3
<1>5. /\ Len(p) = Cardinality(S) /\ {p[i] : i \in 1 .. Len(p)} = S /\ \A i, j \in 1 .. Len(p) : i # j => p[i] # p[j]
  BY <1>1, EnumerationIsAll
<1>6. /\ k \in Nat \ {0} /\ 1 \in 1 .. k /\ k \in 1 .. k
      /\ \A n \in S : \E i \in 1 .. k : p[i] = n
      /\ \A i \in 1 .. k : p[i] \in S
      /\ \A i, j \in 1 .. k : p[i] = p[j] => i = j
  BY <1>3, <1>5
<1>7. \A i \in 1 .. m : i \in 1 .. k /\ i # k /\ i + 1 \in 1 .. k /\ i + 1 # 1
  BY <1>3
<1> HIDE DEF k
<1>8. \A e \in I : \E i \in 1 .. m : f[i] = e /\ from[e] = p[i] /\ to[e] = p[i + 1]
  BY <1>3
<1>9. ASSUME NEW e \in I, NEW d \in I PROVE (to[e] = to[d] => e = d) /\ (from[e] = from[d] => e = d)
  <2>1. PICK i \in 1 .. m : f[i] = e /\ from[e] = p[i] /\ to[e] = p[i + 1]
    BY <1>8
  <2>2. PICK j \in 1 .. m : f[j] = d /\ from[d] = p[j] /\ to[d] = p[j + 1]
    BY <1>8
  <2> DEFINE u == i + 1
             v == j + 1
  <2>3. (u = v => i = j) /\ u \in 1 .. k /\ v \in 1 .. k /\ i \in 1 .. k /\ j \in 1 .. k
    BY <1>3, <1>7
  <2>4. to[e] = p[u] /\ to[d] = p[v]
    BY <2>1, <2>2
  <2> HIDE DEF u, v
  <2>5. to[e] = to[d] => u = v
    BY <1>6, <2>3, <2>4, Zenon
  <2>6. ASSUME from[e] = from[d] PROVE i = j
    <3>1. p[i] = p[j]
      BY <2>1, <2>2, <2>6
    <3> QED
      BY <1>6, <2>3, <3>1
  <2> QED
    BY <2>1, <2>2, <2>3, <2>5, <2>6, Zenon
<1>10. \A e \in I : to[e] # p[1] /\ from[e] # p[k]
  <2> SUFFICES ASSUME NEW e \in I PROVE to[e] # p[1] /\ from[e] # p[k]
    OBVIOUS
  <2>1. PICK i \in 1 .. m : from[e] = p[i] /\ to[e] = p[i + 1]
    BY <1>8
  <2> DEFINE u == i + 1
  <2>2. u \in 1 .. k /\ u # 1 /\ i \in 1 .. k /\ i # k /\ to[e] = p[u]
    BY <1>7, <2>1
  <2> HIDE DEF u
  <2>3. p[u] # p[1] /\ p[i] # p[k]
    BY <1>6, <2>2
  <2> QED
    BY <2>1, <2>2, <2>3
<1>11. ASSUME NEW i \in 1 .. k PROVE /\ i # 1 => \E e \in I : to[e] = p[i]
                                     /\ i # k => \E e \in I : from[e] = p[i]
  <2>1. ASSUME i # 1 PROVE \E e \in I : to[e] = p[i]
    <3> DEFINE j == i - 1
    <3>1. j \in 1 .. m /\ j + 1 = i
      BY <1>3, <2>1 DEF k
    <3> HIDE DEF j
    <3> QED
      BY <1>4, <3>1
  <2>2. ASSUME i # k PROVE \E e \in I : from[e] = p[i]
    <3>1. i \in 1 .. m
      BY <1>3, <2>2 DEF k
    <3> QED
      BY <1>4, <3>1
  <2> QED
    BY <2>1, <2>2
<1>12. \A n : Into(I, to, n) \in SUBSET I /\ OutOf(I, from, n) \in SUBSET I
  BY DEF Into, OutOf
<1>13. \A n : /\ (Cardinality(Into(I, to, n)) = 0 <=> Into(I, to, n) = {})
              /\ (Cardinality(OutOf(I, from, n)) = 0 <=> OutOf(I, from, n) = {})
              /\ (Cardinality(Into(I, to, n)) <= 1 <=> \A e, d \in Into(I, to, n) : e = d)
              /\ (Cardinality(OutOf(I, from, n)) <= 1 <=> \A e, d \in OutOf(I, from, n) : e = d)
  BY <1>1, <1>12, FewAre
<1>14. {n \in S : Cardinality(Into(I, to, n)) = 0} = {p[1]}
  <2>1. \A n \in S : Into(I, to, n) = {} <=> n = p[1]
    BY <1>6, <1>10, <1>11 DEF Into
  <2>2. \A n \in S : Cardinality(Into(I, to, n)) = 0 <=> n = p[1]
    BY <1>13, <2>1
  <2> QED
    BY <1>6, <2>2
<1>15. {n \in S : Cardinality(OutOf(I, from, n)) = 0} = {p[k]}
  <2>1. \A n \in S : OutOf(I, from, n) = {} <=> n = p[k]
    BY <1>6, <1>10, <1>11 DEF OutOf
  <2>2. \A n \in S : Cardinality(OutOf(I, from, n)) = 0 <=> n = p[k]
    BY <1>13, <2>1
  <2> QED
    BY <1>6, <2>2
<1>16. \A n \in S : Cardinality(Into(I, to, n)) <= 1 /\ Cardinality(OutOf(I, from, n)) <= 1
  <2>1. \A n : (\A e, d \in Into(I, to, n) : e = d) /\ (\A e, d \in OutOf(I, from, n) : e = d)
    BY <1>9 DEF Into, OutOf
  <2> QED
    BY <1>13, <2>1
<1>17. Degrees(S, I, from, to)
  <2>1. Cardinality(I) = Cardinality(S) - 1
    BY DEF Lined
  <2> QED
    BY <1>14, <1>15, <1>16, <2>1, FS_Singleton DEF Degrees
<1>18. ASSUME NEW T \in SUBSET S, Circles(I, from, to, T) PROVE FALSE
  <2> DEFINE X == {i \in 1 .. k : p[i] \in T}
  <2>1. X \subseteq Nat /\ X # {} /\ \A i \in X : i <= k
    BY <1>6, <1>18 DEF Circles
  <2>2. \A i : i \in X <=> i \in 1 .. k /\ p[i] \in T
    OBVIOUS
  <2> HIDE DEF X
  <2>3. PICK i \in X : \A j \in X : j <= i
    BY <1>6, <2>1, Greatest
  <2>4. PICK e \in I : from[e] = p[i] /\ to[e] \in T
    BY <1>18, <2>2 DEF Circles
  <2>5. PICK j \in 1 .. m : from[e] = p[j] /\ to[e] = p[j + 1]
    BY <1>8
  <2>6. j = i
    BY <1>6, <1>7, <2>2, <2>4, <2>5
  <2>7. j + 1 \in X
    BY <1>7, <2>2, <2>4, <2>5
  <2> QED
    BY <2>3, <2>6, <2>7
<1> QED
  BY <1>17, <1>18
-----------------------------------------------------------------------------
(* What the conditions say. *)

\* The edges of E with both ends in S, and their ends.
Inner(g, S, E) == {e \in E : {g.edges[e].source, g.edges[e].target} \subseteq S}
Sources(g, I) == [e \in I |-> g.edges[e].source]
Goals(g, I) == [e \in I |-> g.edges[e].target]

Enclosed(g, S, E) ==
    LET I == Inner(g, S, E)
    IN  /\ Linked(S, I, Sources(g, I), Goals(g, I))
        /\ \A e \in I : Sources(g, I)[e] = g.edges[e].source /\ Goals(g, I)[e] = g.edges[e].target
        /\ \A x : x \in Inside(g, {"nodes"} \X S, {"edges"} \X E) <=> \E e \in I : x = <<e, g.edges[e]>>

LEMMA InnerIs ==
    ASSUME NEW g, NEW S, NEW E, IsFiniteSet(S), IsFiniteSet(E)
    PROVE  Enclosed(g, S, E)
<1> DEFINE I == Inner(g, S, E)
           N == {"nodes"} \X S
           L == {"edges"} \X E
<1>1. I \in SUBSET E /\ \A e : e \in I <=> e \in E /\ g.edges[e].source \in S /\ g.edges[e].target \in S
  BY DEF Inner
<1>2. IsFiniteSet(I)
  BY <1>1, FS_Subset
<1> HIDE DEF I
<1>3. Sources(g, I) \in [I -> S] /\ Goals(g, I) \in [I -> S]
  BY <1>1 DEF Sources, Goals
<1>4. \A e \in I : Sources(g, I)[e] = g.edges[e].source /\ Goals(g, I)[e] = g.edges[e].target
  BY DEF Sources, Goals
<1>5. NodeIds(N) = S
  BY IdsAreBack
<1>6. \A x : x \in EdgeRecords(g, L) <=> \E e \in E : x = <<e, g.edges[e]>>
  BY EdgeRecordsAre
<1> HIDE DEF N, L
<1>7. Inside(g, N, L) = {e \in EdgeRecords(g, L) : {e[2].source, e[2].target} \subseteq S}
  BY <1>5 DEF Inside
<1>8. ASSUME NEW x \in Inside(g, N, L) PROVE \E e \in I : x = <<e, g.edges[e]>>
  <2>1. x \in EdgeRecords(g, L) /\ x[2].source \in S /\ x[2].target \in S
    BY <1>7
  <2>2. PICK e \in E : x = <<e, g.edges[e]>>
    BY <1>6, <2>1
  <2>3. e \in I
    BY <1>1, <2>1, <2>2
  <2> QED
    BY <2>2, <2>3
<1>9. ASSUME NEW e \in I PROVE <<e, g.edges[e]>> \in Inside(g, N, L)
  <2> DEFINE x == <<e, g.edges[e]>>
  <2>1. x \in EdgeRecords(g, L) /\ x[2] = g.edges[e]
    BY <1>1, <1>6
  <2> HIDE DEF x
  <2>2. x[2].source \in S /\ x[2].target \in S
    BY <1>1, <2>1
  <2>3. x \in Inside(g, N, L)
    BY <1>7, <2>1, <2>2
  <2> QED
    BY <2>3 DEF x
<1>10. \A x : x \in Inside(g, N, L) <=> \E e \in I : x = <<e, g.edges[e]>>
  BY <1>8, <1>9
<1>11. Linked(S, I, Sources(g, I), Goals(g, I))
  BY <1>2, <1>3 DEF Linked
<1> QED
  BY <1>4, <1>10, <1>11 DEF Enclosed, I, N, L

CyclesFound(g, S, E) ==
    LET I == Inner(g, S, E)
        cyclic == HasCycle(g, {"nodes"} \X S, {"edges"} \X E)
        circles == \E T \in SUBSET S : Circles(I, Sources(g, I), Goals(g, I), T)
    IN  (cyclic = TRUE /\ circles) \/ (cyclic = FALSE /\ ~circles)

LEMMA CyclesAre ==
    ASSUME NEW g, NEW S, NEW E, S \subseteq Int, IsFiniteSet(S), IsFiniteSet(E)
    PROVE  CyclesFound(g, S, E)
<1> DEFINE I == Inner(g, S, E)
           N == {"nodes"} \X S
           L == {"edges"} \X E
           arcs == ArcsInside(g, N, L)
           from == Sources(g, I)
           to == Goals(g, I)
           loops == \E T \in SUBSET S : Loops(arcs, T)
           circles == \E T \in SUBSET S : Circles(I, from, to, T)
           answer == Cycling(S, arcs)[[path |-> <<>>, done |-> {}]]
<1>1. /\ Linked(S, I, from, to)
      /\ \A e \in I : from[e] = g.edges[e].source /\ to[e] = g.edges[e].target
      /\ \A x : x \in Inside(g, N, L) <=> \E e \in I : x = <<e, g.edges[e]>>
  <2>1. Enclosed(g, S, E)
    BY InnerIs
  <2> QED
    BY <2>1 DEF Enclosed
<1>2. NodeIds(N) = S
  BY IdsAreBack
<1>3. HasCycle(g, N, L) = answer
  BY <1>2, HasCycleIs
<1>4. arcs = {<<x[2].source, x[2].target>> : x \in Inside(g, N, L)}
  BY DEF ArcsInside
<1> HIDE DEF I, N, L, arcs, from, to
<1>5. \A a : a \in arcs <=> \E e \in I : a = <<from[e], to[e]>>
  <2>1. ASSUME NEW a \in arcs PROVE \E e \in I : a = <<from[e], to[e]>>
    <3>1. PICK x \in Inside(g, N, L) : a = <<x[2].source, x[2].target>>
      BY <1>4
    <3>2. PICK e \in I : x = <<e, g.edges[e]>>
      BY <1>1
    <3>3. x[2] = g.edges[e]
      BY <3>2
    <3> QED
      BY <1>1, <3>1, <3>3
  <2>2. ASSUME NEW e \in I PROVE <<from[e], to[e]>> \in arcs
    <3> DEFINE x == <<e, g.edges[e]>>
    <3>1. x \in Inside(g, N, L) /\ x[2] = g.edges[e]
      BY <1>1
    <3> HIDE DEF x
    <3>2. <<x[2].source, x[2].target>> \in arcs
      BY <1>4, <3>1
    <3> QED
      BY <1>1, <3>1, <3>2
  <2> QED
    BY <2>1, <2>2
<1>6. Between(S, arcs)
  <2>1. Cardinality(S) \in Nat
    BY FS_CardinalityType
  <2>2. \A e \in I : from[e] \in S /\ to[e] \in S
    BY <1>1 DEF Linked
  <2>3. ASSUME NEW a \in arcs PROVE a = <<a[1], a[2]>> /\ a[1] \in S /\ a[2] \in S
    BY <1>5, <2>2
  <2> QED
    BY <2>1, <2>3 DEF Between
<1>7. (answer = TRUE /\ loops) \/ (answer = FALSE /\ ~loops)
  BY <1>6, CycleIs
<1>8. \A T : Loops(arcs, T) <=> Circles(I, from, to, T)
  <2> SUFFICES ASSUME NEW T PROVE Loops(arcs, T) <=> Circles(I, from, to, T)
    OBVIOUS
  <2>1. ASSUME NEW n, NEW a \in arcs, a[1] = n, a[2] \in T PROVE \E e \in I : from[e] = n /\ to[e] \in T
    BY <1>5, <2>1
  <2>2. ASSUME NEW n, NEW e \in I, from[e] = n, to[e] \in T PROVE \E a \in arcs : a[1] = n /\ a[2] \in T
    <3> DEFINE a == <<from[e], to[e]>>
    <3>1. a \in arcs /\ a[1] = from[e] /\ a[2] = to[e]
      BY <1>5
    <3> QED
      BY <2>2, <3>1
  <2>3. \A n : (\E a \in arcs : a[1] = n /\ a[2] \in T) <=> (\E e \in I : from[e] = n /\ to[e] \in T)
    BY <2>1, <2>2
  <2> QED
    BY <2>3 DEF Loops, Circles
<1>9. loops <=> circles
  BY <1>8
<1> HIDE DEF answer, loops, circles
<1>10. (answer = TRUE /\ circles) \/ (answer = FALSE /\ ~circles)
  BY <1>7, <1>9, Zenon
<1>11. (HasCycle(g, N, L) = TRUE /\ circles) \/ (HasCycle(g, N, L) = FALSE /\ ~circles)
  BY <1>3, <1>10, Zenon
<1> QED
  BY <1>11 DEF CyclesFound, I, N, L, from, to, circles
\* The edges that satisfy a condition, as records, are as many as their IDs.
LEMMA RecordsCount ==
    ASSUME NEW J, IsFiniteSet(J), NEW r, NEW X, \A x : x \in X <=> \E e \in J : x = <<e, r[e]>>
    PROVE  Cardinality(X) = Cardinality(J)
<1> DEFINE f == [e \in J |-> <<e, r[e]>>]
<1>1. \A e \in J : f[e] = <<e, r[e]>>
  OBVIOUS
<1>2. f \in [J -> X]
  OBVIOUS
<1>3. \A d, e \in J : <<d, r[d]>> = <<e, r[e]>> => d = e
  OBVIOUS
<1> HIDE DEF f
<1>4. f \in Injection(J, X)
  BY <1>1, <1>2, <1>3 DEF Injection, IsInjective
<1>5. f \in Surjection(J, X)
  <2>1. \A x \in X : \E e \in J : f[e] = x
    BY <1>1
  <2> QED
    BY <1>2, <2>1 DEF Surjection
<1>6. ExistsBijection(J, X)
  BY <1>4, <1>5 DEF ExistsBijection, Bijection
<1> QED
  BY <1>6, FS_Bijection

LEMMA SingleChainIs ==
    ASSUME NEW g, NEW S, NEW E, IsFiniteSet(S), IsFiniteSet(E)
    PROVE  LET I == Inner(g, S, E)
               N == {"nodes"} \X S
               L == {"edges"} \X E
           IN  SingleChain(g, N, L) <=>
                   ~HasCycle(g, N, L) /\ (S # {} => Degrees(S, I, Sources(g, I), Goals(g, I)))
<1> DEFINE I == Inner(g, S, E)
           N == {"nodes"} \X S
           L == {"edges"} \X E
           from == Sources(g, I)
           to == Goals(g, I)
           X == Inside(g, N, L)
           In(n) == {x \in X : x[2].target = n}
           Out(n) == {x \in X : x[2].source = n}
<1>1. /\ Linked(S, I, from, to)
      /\ \A e \in I : from[e] = g.edges[e].source /\ to[e] = g.edges[e].target
      /\ \A x : x \in X <=> \E e \in I : x = <<e, g.edges[e]>>
  <2>1. Enclosed(g, S, E)
    BY InnerIs
  <2> QED
    BY <2>1 DEF Enclosed
<1>2. NodeIds(N) = S
  BY IdsAreBack
<1>3. SingleChain(g, N, L) <=>
        /\ ~HasCycle(g, N, L)
        /\ NodeIds(N) # {} => /\ Cardinality(X) = Cardinality(NodeIds(N)) - 1
                              /\ Cardinality({n \in NodeIds(N) : Cardinality(In(n)) = 0}) = 1
                              /\ Cardinality({n \in NodeIds(N) : Cardinality(Out(n)) = 0}) = 1
                              /\ \A n \in NodeIds(N) : Cardinality(In(n)) <= 1 /\ Cardinality(Out(n)) <= 1
  BY DEF SingleChain
<1> HIDE DEF I, N, L, from, to, X
<1>4. IsFiniteSet(I)
  BY <1>1 DEF Linked
<1>5. Cardinality(X) = Cardinality(I)
  BY <1>1, <1>4, RecordsCount
<1>6. ASSUME NEW n PROVE Cardinality(In(n)) = Cardinality(Into(I, to, n)) /\ Cardinality(Out(n)) = Cardinality(OutOf(I, from, n))
  <2> DEFINE A == Into(I, to, n)
             B == OutOf(I, from, n)
  <2>1. A \in SUBSET I /\ B \in SUBSET I
    BY DEF Into, OutOf
  <2>2. IsFiniteSet(A) /\ IsFiniteSet(B)
    BY <1>4, <2>1, FS_Subset
  <2>3. (\A e : e \in A <=> e \in I /\ to[e] = n) /\ (\A e : e \in B <=> e \in I /\ from[e] = n)
    BY DEF Into, OutOf
  <2> HIDE DEF A, B
  <2>4. \A e : <<e, g.edges[e]>>[2] = g.edges[e]
    OBVIOUS
  <2>5. \A x : x \in In(n) <=> \E e \in A : x = <<e, g.edges[e]>>
    BY <1>1, <2>3, <2>4
  <2>6. \A x : x \in Out(n) <=> \E e \in B : x = <<e, g.edges[e]>>
    BY <1>1, <2>3, <2>4
  <2> HIDE DEF In, Out
  <2>7. Cardinality(In(n)) = Cardinality(A)
    BY <2>2, <2>5, RecordsCount
  <2>8. Cardinality(Out(n)) = Cardinality(B)
    BY <2>2, <2>6, RecordsCount
  <2> QED
    BY <2>7, <2>8 DEF A, B
<1> HIDE DEF In, Out
<1>7. /\ {n \in S : Cardinality(In(n)) = 0} = {n \in S : Cardinality(Into(I, to, n)) = 0}
      /\ {n \in S : Cardinality(Out(n)) = 0} = {n \in S : Cardinality(OutOf(I, from, n)) = 0}
      /\ (\A n \in S : Cardinality(In(n)) <= 1 /\ Cardinality(Out(n)) <= 1)
           <=> \A n \in S : Cardinality(Into(I, to, n)) <= 1 /\ Cardinality(OutOf(I, from, n)) <= 1
  BY <1>6
<1>8. SingleChain(g, N, L) <=> ~HasCycle(g, N, L) /\ (S # {} => Degrees(S, I, from, to))
  BY <1>2, <1>3, <1>5, <1>7 DEF Degrees
<1> QED
  BY <1>8 DEF I, N, L, from, to

\* A single chain has an order of its nodes.
LEMMA ChainsAreLined ==
    ASSUME NEW g, NEW S, NEW E, S \subseteq Int, IsFiniteSet(S), IsFiniteSet(E)
    PROVE  LET I == Inner(g, S, E)
           IN  SingleChain(g, {"nodes"} \X S, {"edges"} \X E) <=>
                   \E p \in SetToSeqs(S) :
                       /\ \A i \in 1 .. Len(p) - 1 : \E e \in I : g.edges[e].source = p[i] /\ g.edges[e].target = p[i + 1]
                       /\ Cardinality(I) = IF S = {} THEN 0 ELSE Cardinality(S) - 1
<1> DEFINE I == Inner(g, S, E)
           from == Sources(g, I)
           to == Goals(g, I)
           chain == SingleChain(g, {"nodes"} \X S, {"edges"} \X E)
           cyclic == HasCycle(g, {"nodes"} \X S, {"edges"} \X E)
           circles == \E T \in SUBSET S : Circles(I, from, to, T)
           Ordered(p) == /\ \A i \in 1 .. Len(p) - 1 : \E e \in I : g.edges[e].source = p[i] /\ g.edges[e].target = p[i + 1]
                         /\ Cardinality(I) = IF S = {} THEN 0 ELSE Cardinality(S) - 1
<1>1. /\ Linked(S, I, from, to)
      /\ \A e \in I : from[e] = g.edges[e].source /\ to[e] = g.edges[e].target
  <2>1. Enclosed(g, S, E)
    BY InnerIs
  <2> QED
    BY <2>1 DEF Enclosed
<1>2. chain <=> ~cyclic /\ (S # {} => Degrees(S, I, from, to))
  BY SingleChainIs
<1>3. (cyclic = TRUE /\ circles) \/ (cyclic = FALSE /\ ~circles)
  <2>1. CyclesFound(g, S, E)
    BY CyclesAre
  <2> QED
    BY <2>1 DEF CyclesFound
<1> HIDE DEF chain, cyclic, from, to, I
<1>4. chain <=> ~circles /\ (S # {} => Degrees(S, I, from, to))
  <2> HIDE DEF circles
  <2> QED
    BY <1>2, <1>3, Zenon
<1>5. \A p \in SetToSeqs(S) : Len(p) = Cardinality(S)
  BY EnumerationIsAll
<1>6. S # {} => \A p \in SetToSeqs(S) : Ordered(p) <=> Lined(S, I, from, to, p)
  BY <1>1, <1>5 DEF Lined
<1>7. CASE S # {}
  <2>1. ASSUME ~circles, Degrees(S, I, from, to) PROVE \E p \in SetToSeqs(S) : Ordered(p)
    <3>1. PICK p \in SetToSeqs(S) : Lined(S, I, from, to, p)
      BY <1>1, <2>1, DegreesAreLined
    <3> HIDE DEF Ordered
    <3> QED
      BY <1>6, <1>7, <3>1
  <2>2. ASSUME NEW p \in SetToSeqs(S), Ordered(p) PROVE ~circles /\ Degrees(S, I, from, to)
    <3>1. Lined(S, I, from, to, p)
      BY <1>6, <1>7, <2>2
    <3> QED
      BY <1>1, <1>7, <3>1, LinedHaveDegrees
  <2> HIDE DEF Ordered, circles
  <2>3. chain <=> \E p \in SetToSeqs(S) : Ordered(p)
    BY <1>4, <1>7, <2>1, <2>2
  <2> QED
    BY <2>3 DEF Ordered, chain, I
<1>8. CASE S = {}
  <2>1. ~circles
    BY <1>8 DEF Circles
  <2>2. I = {}
    BY <1>8 DEF I, Inner
  <2>3. Cardinality(S) = 0 /\ Cardinality(I) = 0
    BY <1>8, <2>2, FS_EmptySet
  <2> DEFINE p == [i \in 1 .. 0 |-> 0]
  <2>4. p \in SetToSeqs(S) /\ Len(p) = 0
    <3>1. 1 .. 0 = {} /\ p \in [1 .. 0 -> S]
      OBVIOUS
    <3>2. p \in SetToSeqs(S)
      BY <2>3, <3>1 DEF SetToSeqs
    <3> HIDE DEF p
    <3> QED
      BY <1>5, <2>3, <3>2
  <2> HIDE DEF p
  <2>5. Ordered(p)
    BY <1>8, <2>3, <2>4
  <2> HIDE DEF Ordered, circles
  <2>6. chain /\ \E q \in SetToSeqs(S) : Ordered(q)
    BY <1>4, <1>8, <2>1, <2>4, <2>5
  <2> QED
    BY <2>6 DEF Ordered, chain, I
<1> QED
  BY <1>7, <1>8
\* What the conditions must say of some nodes and edges of a graph.
Matched(g, S, E) ==
    LET nodes == {"nodes"} \X S
        edges == {"edges"} \X E
        inside == {e \in E : {g.edges[e].source, g.edges[e].target} \subseteq S}
        Step(p, e, i) == g.edges[e].source = p[i] /\ g.edges[e].target = p[i + 1]
        Reach(n, direction) == NodeIds(Reachable(g, {<<"nodes", n>>}, edges, direction, FALSE))
    IN  /\ HasCycle(g, nodes, edges) <=>
              \E T \in SUBSET S : T # {} /\ \A n \in T : \E e \in inside :
                  g.edges[e].source = n /\ g.edges[e].target \in T
        /\ SingleChain(g, nodes, edges) <=>
              \E p \in SetToSeqs(S) :
                  /\ \A i \in 1 .. Len(p) - 1 : \E e \in inside : Step(p, e, i)
                  /\ Cardinality(inside) = IF S = {} THEN 0 ELSE Cardinality(S) - 1
        /\ \A m, n \in S : n \in Reach(m, "outgoing") <=> m \in Reach(n, "incoming")

LEMMA MatchedIs ==
    ASSUME NEW g, Wired(g), NEW S \in SUBSET NodesOf(g), NEW E \in SUBSET EdgesOf(g)
    PROVE  Matched(g, S, E)
<1> DEFINE I == Inner(g, S, E)
           N == {"nodes"} \X S
           L == {"edges"} \X E
           circles == \E T \in SUBSET S : T # {} /\ \A n \in T : \E e \in I : g.edges[e].source = n /\ g.edges[e].target \in T
           lined == \E p \in SetToSeqs(S) :
                       /\ \A i \in 1 .. Len(p) - 1 : \E e \in I : g.edges[e].source = p[i] /\ g.edges[e].target = p[i + 1]
                       /\ Cardinality(I) = IF S = {} THEN 0 ELSE Cardinality(S) - 1
<1>1. S \subseteq Int /\ IsFiniteSet(S) /\ IsFiniteSet(E)
  BY FS_Subset DEF Wired
<1>2. HasCycle(g, N, L) <=> circles
  <2> DEFINE from == Sources(g, I)
             to == Goals(g, I)
             walks == \E T \in SUBSET S : Circles(I, from, to, T)
  <2>1. CyclesFound(g, S, E) /\ Enclosed(g, S, E)
    BY <1>1, CyclesAre, InnerIs
  <2>2. (HasCycle(g, N, L) = TRUE /\ walks) \/ (HasCycle(g, N, L) = FALSE /\ ~walks)
    BY <2>1 DEF CyclesFound
  <2>3. \A e \in I : from[e] = g.edges[e].source /\ to[e] = g.edges[e].target
    BY <2>1 DEF Enclosed
  <2> HIDE DEF I, N, L, from, to
  <2>4. walks <=> circles
    <3> DEFINE Round(T) == T # {} /\ \A n \in T : \E e \in I : g.edges[e].source = n /\ g.edges[e].target \in T
    <3>1. \A T : Circles(I, from, to, T) <=> Round(T)
      <4> SUFFICES ASSUME NEW T PROVE Circles(I, from, to, T) <=> Round(T)
        OBVIOUS
      <4>1. \A n \in T : (\E e \in I : from[e] = n /\ to[e] \in T)
                           <=> (\E e \in I : g.edges[e].source = n /\ g.edges[e].target \in T)
        BY <2>3
      <4> QED
        BY <4>1 DEF Circles
    <3>2. circles <=> \E T \in SUBSET S : Round(T)
      OBVIOUS
    <3> HIDE DEF circles, Round
    <3> QED
      BY <3>1, <3>2
  <2> HIDE DEF walks, circles
  <2> QED
    BY <2>2, <2>4, Zenon
<1>3. SingleChain(g, N, L) <=> lined
  BY <1>1, ChainsAreLined
<1>4. \A m, n \in S : n \in NodeIds(Reachable(g, {<<"nodes", m>>}, L, "outgoing", FALSE))
                        <=> m \in NodeIds(Reachable(g, {<<"nodes", n>>}, L, "incoming", FALSE))
  BY DirectionsAgree
<1> QED
  BY <1>2, <1>3, <1>4 DEF Matched, Inner

\* The graph conditions of the rules, for any graph that patches lead to and any choice of nodes:
\* acyclic finds every cycle and no other, singleChain holds of the nodes that can be put in an
\* order with one edge from each to the next and no others, and reachability goes both ways.
THEOREM ConditionsAlwaysMatch == Spec => []ConditionsMatch
<1>1. CInv => ConditionsMatch
  <2> SUFFICES ASSUME CInv, NEW S \in SUBSET NodesOf(proposed),
                      NEW E \in {EdgesOf(proposed), ScopeEdges(proposed), EdgesOf(proposed) \ ScopeEdges(proposed)}
               PROVE  Matched(proposed, S, E)
    BY DEF ConditionsMatch, Matched
  <2>1. Wired(proposed)
    <3>1. IsProject(proposed) /\ Ended(proposed)
      BY DEF CInv, GInv, LedTo
    <3> QED
      BY <3>1, WiredIs
  <2>2. E \in SUBSET EdgesOf(proposed)
    BY DEF ScopeEdges
  <2> QED
    BY <2>1, <2>2, MatchedIs
<1> QED
  BY <1>1, Edited, PTL
=============================================================================
