-------------------------- MODULE PacketReviewProofs --------------------------
(***************************************************************************)
(* What holds of PacketReview for all proposals, plans, items, results,    *)
(* clients and pages.  Assumed of the constants by name, since it ranges   *)
(* over all sets: the items of a packet are a sequence, and for the last   *)
(* theorem they show what the packet owns.                                 *)
(***************************************************************************)
EXTENDS PacketReview, FiniteSetTheorems, TLAPS

ItemsAreSequences == \A p, o, q : \E S : Items(p, o, q) \in Seq(S)

(* The inductive invariant. *)

\* What was asked for and kept is what would be made of the plan and the results now.
CachedIsFresh == \A p \in Packets : cached[p] \subseteq {Fresh(p)}

\* Positions that were presented are pairs; a cursor goes on at some offset.
SeenOK == \A p \in Packets : \A s \in seen[p] : s = <<s[1], s[2]>>
CursorsOK == /\ DOMAIN cursor = Client
             /\ \A c \in Client : \A place \in cursor[c] : place.offset \in Nat

IInv == TypeOK /\ SeenOK /\ CursorsOK /\ CachedIsFresh /\ PresentedWasGiven /\ JudgedAsShown

-----------------------------------------------------------------------------
(* Lemmas about what the requests are built from. *)

\* The items of a packet are a sequence, also with the results.
LEMMA FreshIsSequence ==
    ASSUME ItemsAreSequences, NEW p
    PROVE  Len(Fresh(p)) \in Nat /\ DOMAIN Fresh(p) = 1 .. Len(Fresh(p))
<1>1. PICK S : Items(proposal, ownership, p) \in Seq(S)
  BY DEF ItemsAreSequences
<1>2. CASE p = Synthesis
  <2>. DEFINE item == <<"results", BranchResults>>
              T == S \cup {item}
  <2>1. Items(proposal, ownership, p) \in Seq(T)
    BY <1>1
  <2>2. item \in T
    OBVIOUS
  <2>3. Fresh(p) = Append(Items(proposal, ownership, p), item)
    BY <1>2 DEF Fresh
  <2>. HIDE DEF T, item
  <2>4. Fresh(p) \in Seq(T)
    BY <2>1, <2>2, <2>3
  <2>. QED  BY <2>4
<1>3. CASE p # Synthesis
  BY <1>1, <1>3 DEF Fresh
<1>. QED  BY <1>2, <1>3

\* As many positions presented as there are items are all of them.
LEMMA AllPresented ==
    ASSUME NEW items, Len(items) \in Nat, DOMAIN items = 1 .. Len(items),
           NEW shown, shown \subseteq {<<items, i>> : i \in DOMAIN items},
           Cardinality(shown) = Len(items), NEW i \in DOMAIN items
    PROVE  <<items, i>> \in shown
<1>. DEFINE n == Len(items)
            at == [k \in 1 .. n |-> <<items, k>>]
            all == {<<items, k>> : k \in 1 .. n}
<1>1. IsFiniteSet(1 .. n) /\ Cardinality(1 .. n) = n
  <2>1. 0 \in Int /\ n \in Int /\ 1 \in Int
    OBVIOUS
  <2>2. IsFiniteSet(1 .. n) /\ Cardinality(1 .. n) = IF 1 > n THEN 0 ELSE n - 1 + 1
    BY <2>1, FS_Interval
  <2>. QED  BY <2>2
<1>2. at \in Bijection(1 .. n, all)
  <2>1. at \in [1 .. n -> all]
    OBVIOUS
  <2>2. at \in Injection(1 .. n, all)
    BY <2>1 DEF Injection, IsInjective
  <2>3. at \in Surjection(1 .. n, all)
    BY <2>1 DEF Surjection
  <2>. QED  BY <2>2, <2>3 DEF Bijection
<1>3. IsFiniteSet(all) /\ Cardinality(all) = n
  <2>1. ExistsBijection(1 .. n, all)
    BY <1>2 DEF ExistsBijection
  <2>. HIDE DEF all, n
  <2>. QED  BY <1>1, <2>1, FS_Bijection
<1>4. shown \subseteq all
  OBVIOUS
<1>5. shown = all
  <2>. HIDE DEF all
  <2>. QED  BY <1>3, <1>4, FS_Subset
<1>. QED  BY <1>5

\* What is kept of a packet, or made now, is the items it has now.
LEMMA ItemsAreFresh ==
    ASSUME CachedIsFresh, NEW p \in Packets
    PROVE  PacketItems(p) = Fresh(p)
BY DEF CachedIsFresh, PacketItems

\* The items of a packet depend on the plan and, in the synthesis, on the results of the branches.
LEMMA FreshStays ==
    ASSUME UNCHANGED <<proposal, ownership>>, NEW p,
           p = Synthesis => UNCHANGED BranchResults
    PROVE  Fresh(p)' = Fresh(p)
BY DEF Fresh

\* To ask for the items of a packet does not change what they are.
LEMMA RememberedStaysFresh ==
    ASSUME IInv, UNCHANGED <<proposal, ownership, results>>, NEW p \in Packets, cached' = Remembered(p)
    PROVE  CachedIsFresh' /\ DOMAIN cached' = Packets'
<1>1. \A q : Fresh(q)' = Fresh(q)
  BY FreshStays DEF BranchResults, Packets
<1>2. PacketItems(p) = Fresh(p)
  BY ItemsAreFresh DEF IInv
<1>3. DOMAIN cached = Packets
  BY DEF IInv, TypeOK
<1>4. \A q \in Packets : cached'[q] \subseteq {Fresh(q)}
  BY <1>2, <1>3 DEF Remembered, IInv, CachedIsFresh
<1>. QED  BY <1>1, <1>3, <1>4 DEF Remembered, CachedIsFresh, Packets

\* Results stand on what was given when neither they nor the items change.
LEMMA JudgedStays ==
    ASSUME IInv, UNCHANGED <<proposal, ownership, results>>,
           \A q \in Packets : delivered[q] \subseteq delivered'[q]
    PROVE  JudgedAsShown'
<1>1. \A q : Fresh(q)' = Fresh(q)
  BY FreshStays DEF BranchResults, Packets
<1>. QED  BY <1>1 DEF IInv, JudgedAsShown, Packets

\* Giving some of the items of a packet.
LEMMA GiveStep ==
    ASSUME IInv, NEW p \in Packets, NEW items, NEW range, range \subseteq DOMAIN items,
           Give(p, items, range), UNCHANGED ownership
    PROVE  /\ PresentedWasGiven' /\ SeenOK'
           /\ DOMAIN seen' = Packets' /\ DOMAIN delivered' = Packets'
           /\ \A q \in Packets : delivered[q] \subseteq delivered'[q]
<1>1. DOMAIN seen = Packets /\ DOMAIN delivered = Packets
  BY DEF IInv, TypeOK
<1>2. Packets' = Packets
  BY DEF Packets
<1>3. \A q \in Packets : delivered[q] \subseteq delivered'[q]
  BY <1>1 DEF Give
<1>4. ASSUME NEW q \in Packets, NEW s \in seen'[q]
      PROVE  s[2] \in DOMAIN s[1] /\ s[1][s[2]] \in delivered'[q] /\ s = <<s[1], s[2]>>
  <2>1. CASE s \in seen[q]
    BY <2>1, <1>3 DEF IInv, PresentedWasGiven, SeenOK
  <2>2. CASE s \notin seen[q]
    <3>1. q = p /\ s \in Numbered(items, range)
      BY <2>2, <1>1, <1>4 DEF Give
    <3>2. PICK i \in range : s = <<items, i>>
      BY <3>1 DEF Numbered
    <3>3. items[i] \in delivered'[p]
      BY <1>1 DEF Give
    <3>. QED  BY <3>1, <3>2, <3>3
  <2>. QED  BY <2>1, <2>2
<1>5. DOMAIN seen' = Packets /\ DOMAIN delivered' = Packets
  BY <1>1 DEF Give
<1>. QED  BY <1>2, <1>3, <1>4, <1>5 DEF PresentedWasGiven, SeenOK

\* A review that starts over with some plan, which has the synthesis if it has a packet.
LEMMA RebindStep ==
    ASSUME IInv, NEW o, Rebind(o), DOMAIN o # {} => Synthesis \in DOMAIN o,
           proposal' \in Proposal, UNCHANGED cursor
    PROVE  IInv'
<1>1. TypeOK'
  BY DEF TypeOK, Rebind, Packets, Planned
<1>2. CursorsOK'
  BY DEF IInv, CursorsOK
<1>3. CachedIsFresh' /\ PresentedWasGiven' /\ SeenOK' /\ JudgedAsShown'
  BY DEF Rebind, Packets, CachedIsFresh, PresentedWasGiven, SeenOK, JudgedAsShown
<1>. QED  BY <1>1, <1>2, <1>3 DEF IInv

-----------------------------------------------------------------------------
(* The steps. *)

\* review.plan and its refinements work on a plan that has the synthesis.
LEMMA RefinableHasSynthesis ==
    ASSUME TypeOK
    PROVE  Synthesis \in DOMAIN ToRefine
BY ReviewAssumption DEF TypeOK, ToRefine, Packets

LEMMA PageStep ==
    ASSUME ItemsAreSequences, IInv, NEW c \in Client, NEW p, NEW fresh \in BOOLEAN, Page(c, p, fresh)
    PROVE  IInv'
<1>. DEFINE items == PacketItems(p)
            start == IF fresh THEN 0 ELSE (CHOOSE place \in cursor[c] : TRUE).offset
            last  == IF start + PageSize < Len(items) THEN start + PageSize ELSE Len(items)
<1>1. /\ p \in Packets /\ Give(p, items, (start + 1) .. last)
      /\ cursor' = [cursor EXCEPT ![c] = {Place(p, items, n) : n \in {last} \cap 0 .. Len(items) - 1}]
      /\ cached' = Remembered(p)
      /\ UNCHANGED <<proposal, ownership, results, blocked>>
      /\ ~fresh => \E place \in cursor[c] : place = Place(p, items, place.offset)
  BY DEF Page, Readable
<1>2. Len(items) \in Nat /\ DOMAIN items = 1 .. Len(items)
  BY <1>1, ItemsAreFresh, FreshIsSequence DEF IInv
<1>3. start \in Nat
  BY <1>1 DEF IInv, CursorsOK
<1>4. last \in Nat /\ last <= Len(items)
  BY <1>2, <1>3, ReviewAssumption
<1>. HIDE DEF items, start, last
<1>5. (start + 1) .. last \subseteq DOMAIN items
  BY <1>2, <1>3, <1>4
<1>6. /\ PresentedWasGiven' /\ SeenOK'
      /\ DOMAIN seen' = Packets' /\ DOMAIN delivered' = Packets'
      /\ \A q \in Packets : delivered[q] \subseteq delivered'[q]
  BY <1>1, <1>5, GiveStep
<1>7. CachedIsFresh' /\ DOMAIN cached' = Packets'
  BY <1>1, RememberedStaysFresh
<1>8. JudgedAsShown'
  BY <1>1, <1>6, JudgedStays
<1>9. CursorsOK'
  BY <1>1, <1>4 DEF IInv, CursorsOK, Place
<1>10. TypeOK'
  BY <1>1, <1>6, <1>7 DEF IInv, TypeOK, Packets, Planned
<1>. QED  BY <1>6, <1>7, <1>8, <1>9, <1>10 DEF IInv

LEMMA ExportStep ==
    ASSUME IInv, NEW p, Export(p)
    PROVE  IInv'
<1>1. /\ p \in Packets /\ Give(p, PacketItems(p), DOMAIN PacketItems(p)) /\ cached' = Remembered(p)
      /\ UNCHANGED <<proposal, ownership, results, blocked, cursor>>
  BY DEF Export, Readable
<1>2. /\ PresentedWasGiven' /\ SeenOK'
      /\ DOMAIN seen' = Packets' /\ DOMAIN delivered' = Packets'
      /\ \A q \in Packets : delivered[q] \subseteq delivered'[q]
  BY <1>1, GiveStep
<1>3. CachedIsFresh' /\ DOMAIN cached' = Packets'
  BY <1>1, RememberedStaysFresh
<1>4. JudgedAsShown'
  BY <1>1, <1>2, JudgedStays
<1>5. TypeOK' /\ CursorsOK'
  BY <1>1, <1>2, <1>3 DEF IInv, TypeOK, CursorsOK, Packets, Planned
<1>. QED  BY <1>2, <1>3, <1>4, <1>5 DEF IInv

\* Items that are made and not given, as in an export that fails or a refused result.
LEMMA AskStep ==
    ASSUME IInv, NEW p \in Packets, cached' = Remembered(p),
           UNCHANGED <<proposal, ownership, results, seen, delivered, blocked, cursor>>
    PROVE  IInv'
<1>1. CachedIsFresh' /\ DOMAIN cached' = Packets'
  BY RememberedStaysFresh
<1>2. JudgedAsShown'
  BY JudgedStays
<1>3. PresentedWasGiven' /\ SeenOK' /\ TypeOK' /\ CursorsOK'
  BY <1>1 DEF IInv, TypeOK, SeenOK, CursorsOK, PresentedWasGiven, Packets, Planned
<1>. QED  BY <1>1, <1>2, <1>3 DEF IInv

LEMMA RecordStep ==
    ASSUME ItemsAreSequences, IInv, NEW p, NEW result \in Result, Record(p, result)
    PROVE  IInv'
<1>1. /\ p \in Packets /\ Presented(p, PacketItems(p))
      /\ UNCHANGED <<proposal, ownership, seen, delivered, cursor>>
  BY DEF Record, Readable
<1>2. /\ DOMAIN results = Packets /\ DOMAIN cached = Packets /\ Packets' = Packets
      /\ PacketItems(p) = Fresh(p)
  BY <1>1, ItemsAreFresh DEF IInv, TypeOK, Packets
<1>3. results' = IF p = Synthesis THEN [results EXCEPT ![p] = {result}]
                 ELSE [results EXCEPT ![p] = {result}, ![Synthesis] = {}]
  BY DEF Record
<1>4. cached' = IF p = Synthesis THEN [cached EXCEPT ![p] = {Fresh(p)}]
                ELSE [cached EXCEPT ![p] = {Fresh(p)}, ![Synthesis] = {}]
  BY <1>2 DEF Record, Invalidated, Remembered
<1>5. ASSUME NEW q \in Packets, q = Synthesis => p = Synthesis
      PROVE  Fresh(q)' = Fresh(q)
  <2>1. p = Synthesis => BranchResults' = BranchResults
    BY <1>2, <1>3 DEF BranchResults
  <2>. QED  BY <1>1, <1>5, <2>1, FreshStays
<1>6. TypeOK'
  BY <1>1, <1>2, <1>3, <1>4 DEF IInv, TypeOK, Packets, Planned
<1>7. CursorsOK' /\ SeenOK' /\ PresentedWasGiven'
  BY <1>1 DEF IInv, CursorsOK, SeenOK, PresentedWasGiven, Packets
<1>8. CachedIsFresh'
  <2>. SUFFICES ASSUME NEW q \in Packets PROVE cached'[q] \subseteq {Fresh(q)'}
    BY <1>2 DEF CachedIsFresh
  <2>1. CASE q = Synthesis /\ p # Synthesis
    BY <2>1, <1>2, <1>4
  <2>2. CASE q = Synthesis => p = Synthesis
    BY <2>2, <1>2, <1>4, <1>5 DEF IInv, CachedIsFresh
  <2>. QED  BY <2>1, <2>2
<1>9. \A i \in DOMAIN Fresh(p) : Fresh(p)[i] \in delivered[p]
  <2>. DEFINE items == Fresh(p)
              shown == {s \in seen[p] : s[1] = items}
  <2>1. Len(items) \in Nat /\ DOMAIN items = 1 .. Len(items)
    BY FreshIsSequence
  <2>2. Cardinality(shown) = Len(items)
    BY <1>1, <1>2 DEF Presented
  <2>3. \A s \in seen[p] : s[2] \in DOMAIN s[1] /\ s[1][s[2]] \in delivered[p] /\ s = <<s[1], s[2]>>
    BY <1>1 DEF IInv, PresentedWasGiven, SeenOK
  <2>4. shown \subseteq {<<items, i>> : i \in DOMAIN items}
    BY <2>3
  <2>. SUFFICES ASSUME NEW i \in DOMAIN items PROVE items[i] \in delivered[p]
    OBVIOUS
  <2>. HIDE DEF items
  <2>5. <<items, i>> \in shown
    BY <2>1, <2>2, <2>4, AllPresented
  <2>. QED  BY <2>3, <2>5
<1>10. JudgedAsShown'
  <2>. SUFFICES ASSUME NEW q \in Packets, results'[q] # {}, NEW i \in DOMAIN Fresh(q)'
                PROVE  Fresh(q)'[i] \in delivered[q]
    BY <1>1, <1>2 DEF JudgedAsShown
  <2>1. q = Synthesis => p = Synthesis
    BY <1>2, <1>3
  <2>2. Fresh(q)' = Fresh(q)
    BY <1>5, <2>1
  <2>3. CASE q = p
    BY <1>9, <2>2, <2>3
  <2>4. CASE q # p
    BY <1>2, <1>3, <2>1, <2>2, <2>4 DEF IInv, JudgedAsShown
  <2>. QED  BY <2>3, <2>4
<1>. QED  BY <1>6, <1>7, <1>8, <1>10 DEF IInv

\* Every request, and a step that changes nothing.
LEMMA NextStep ==
    ASSUME ItemsAreSequences, IInv, [Next]_vars
    PROVE  IInv'
<1>1. ASSUME NEW p \in Proposal, Revise(p) PROVE IInv'
  BY <1>1, RebindStep DEF Revise
<1>2. CASE Plan
  BY <1>2, RebindStep, ReviewAssumption DEF Plan, IInv, TypeOK
<1>3. CASE Restart
  BY <1>3, RebindStep, RefinableHasSynthesis DEF Restart, IInv, TypeOK
<1>4. ASSUME NEW p \in DOMAIN ToRefine, NEW part \in SUBSET ToRefine[p], NEW rest \in SUBSET ToRefine[p],
             Refine(p, <<part, rest>>)
      PROVE  IInv'
  <2>1. Synthesis \in DOMAIN Refined(ToRefine, p, <<part, rest>>)
    BY <1>4, RefinableHasSynthesis DEF Refine, Subdivides, Refined, IInv
  <2>. QED  BY <1>4, <2>1, RebindStep DEF Refine, IInv, TypeOK
<1>5. ASSUME NEW p \in Packets, NEW c \in Client, NEW fresh \in BOOLEAN, Page(c, p, fresh) PROVE IInv'
  BY <1>5, PageStep
<1>6. ASSUME NEW p \in Packets, Export(p) PROVE IInv'
  BY <1>6, ExportStep
<1>7. ASSUME NEW p \in Packets, NEW n \in DOMAIN PacketItems(p), ExportFails(p, n) PROVE IInv'
  BY <1>7, AskStep DEF ExportFails, Restored
<1>8. ASSUME NEW p \in Packets, Refused(p) PROVE IInv'
  BY <1>8, AskStep DEF Refused
<1>9. ASSUME NEW p \in Packets, NEW result \in Result, Record(p, result) PROVE IInv'
  BY <1>9, RecordStep
<1>10. CASE UNCHANGED vars
  <2>1. \A q : Fresh(q)' = Fresh(q)
    BY <1>10, FreshStays DEF vars, review, BranchResults, Packets
  <2>. QED  BY <1>10, <2>1 DEF vars, review, IInv, TypeOK, SeenOK, CursorsOK, CachedIsFresh,
                             PresentedWasGiven, JudgedAsShown, Packets, Planned
<1>. QED  BY <1>1, <1>2, <1>3, <1>4, <1>5, <1>6, <1>7, <1>8, <1>9, <1>10 DEF Next

\* A branch that allows or blocks keeps its result unless the step starts the review over.
LEMMA BranchStep ==
    ASSUME IInv, [Next]_vars, NEW p \in Packets \ {Synthesis}, results[p] \cap Terminal # {}
    PROVE  \/ p \in Packets' /\ results'[p] = results[p]
           \/ \A q \in Packets' : results'[q] = {} /\ seen'[q] = {}
<1>1. ASSUME NEW o, Rebind(o) PROVE \A q \in Packets' : results'[q] = {} /\ seen'[q] = {}
  BY <1>1 DEF Rebind, Packets
<1>2. CASE UNCHANGED <<ownership, results>>
  BY <1>2 DEF Packets
<1>3. ASSUME NEW q \in Packets, NEW result \in Result, Record(q, result)
      PROVE  p \in Packets' /\ results'[p] = results[p]
  <2>1. Packets' = Packets /\ DOMAIN results = Packets
    BY <1>3 DEF Record, Packets, IInv, TypeOK
  <2>2. CASE p = q
    <3>1. PICK r \in Result : results[p] = {r} /\ r \in Terminal
      BY DEF IInv, TypeOK
    <3>2. result = r
      BY <1>3, <2>2, <3>1 DEF Record, Recordable
    <3>. QED  BY <1>3, <2>1, <2>2, <3>1, <3>2 DEF Record
  <2>3. CASE p # q
    BY <1>3, <2>1, <2>3 DEF Record
  <2>. QED  BY <2>2, <2>3
<1>4. ASSUME NEW q \in Packets, NEW c, NEW fresh, Page(c, q, fresh) PROVE UNCHANGED <<ownership, results>>
  BY <1>4 DEF Page
<1>5. ASSUME NEW q \in Packets, NEW n, Export(q) \/ ExportFails(q, n) \/ Refused(q) PROVE UNCHANGED <<ownership, results>>
  BY <1>5 DEF Export, ExportFails, Refused
<1>6. ASSUME NEW q, NEW groups, Plan \/ Restart \/ Revise(q) \/ Refine(q, groups) PROVE \E o : Rebind(o)
  BY <1>6 DEF Plan, Restart, Revise, Refine
<1>7. CASE UNCHANGED vars
  BY <1>2, <1>7 DEF vars, review
<1>. QED  BY <1>1, <1>2, <1>3, <1>4, <1>5, <1>6, <1>7 DEF Next

-----------------------------------------------------------------------------
(* Ownership, from the first plan through every refinement. *)

\* The items of a packet show each ordinal it owns, if there are finitely many.
ItemsShowOwned ==
    \A p, o, q : IsFiniteSet(o[q]) => \A n \in o[q] : \E i \in DOMAIN Items(p, o, q) : Items(p, o, q)[i] = <<"owned", n>>

\* Packets have names, and each ordinal of the evidence of a proposal one packet.
Divided(o, p) ==
    /\ Synthesis \in DOMAIN o /\ DOMAIN o \subseteq Seq(Nat) /\ \A q \in DOMAIN o : IsFiniteSet(o[q])
    /\ \A n \in Evidence(p) : \E q \in DOMAIN o : Owners(o, n) = {q}
OInv == Planned => Divided(ownership, proposal)

LEMMA FirstIsDivided ==
    ASSUME NEW p \in Proposal
    PROVE  Divided(First(p), p)
BY ReviewAssumption, OwnershipAssumption DEF Divided

\* The names of the parts are new and tell them apart.
LEMMA PartNames ==
    ASSUME NEW p \in Seq(Nat), NEW i \in {1, 2}
    PROVE  /\ Append(p, i) \in Seq(Nat) /\ Append(p, i)[Len(Append(p, i))] = i
           /\ Append(p, i) # p /\ \A j \in {1, 2} : Append(p, i) = Append(p, j) => i = j
<1>1. Append(p, i) \in Seq(Nat) /\ Len(Append(p, i)) = Len(p) + 1 /\ Append(p, i)[Len(p) + 1] = i
  OBVIOUS
<1>2. \A j \in {1, 2} : Append(p, j)[Len(p) + 1] = j
  OBVIOUS
<1>. QED  BY <1>1, <1>2

\* A refinement keeps each ordinal in one packet: a part if its packet was divided.
LEMMA RefinedIsDivided ==
    ASSUME NEW o, NEW p, NEW proposed, NEW part, NEW rest, Divided(o, proposed), Subdivides(o, p, <<part, rest>>)
    PROVE  Divided(Refined(o, p, <<part, rest>>), proposed)
<1>. DEFINE groups == <<part, rest>>
            r == Refined(o, p, groups)
            kept == DOMAIN o \ {p}
<1>1. DOMAIN groups = {1, 2}
  OBVIOUS
<1>2. /\ p \in Seq(Nat) /\ p \in DOMAIN o \ {Synthesis}
      /\ \A i \in {1, 2} : groups[i] \subseteq o[p] /\ Append(p, i) \notin kept
      /\ \A n \in o[p] : \E i \in {1, 2} : {j \in {1, 2} : n \in groups[j]} = {i}
  BY <1>1 DEF Divided, Subdivides
<1>3. DOMAIN r = kept \cup {Append(p, i) : i \in {1, 2}}
  BY <1>1 DEF Refined
<1>4. ASSUME NEW q \in kept PROVE r[q] = o[q]
  BY <1>4 DEF Refined
<1>5. ASSUME NEW i \in {1, 2} PROVE r[Append(p, i)] = groups[i]
  BY <1>1, <1>2, <1>5, PartNames DEF Refined
<1>. HIDE DEF groups, r
<1>6. Synthesis \in DOMAIN r /\ DOMAIN r \subseteq Seq(Nat)
  BY <1>2, <1>3, PartNames DEF Divided
<1>7. ASSUME NEW n \in Evidence(proposed)
      PROVE  \E q \in DOMAIN r : Owners(r, n) = {q}
  <2>1. PICK owner \in DOMAIN o : Owners(o, n) = {owner}
    BY <1>7 DEF Divided
  <2>2. CASE owner # p
    <3>1. n \notin o[p] /\ owner \in kept
      BY <2>1, <2>2, <1>2 DEF Owners
    <3>2. \A q \in DOMAIN r : n \in r[q] <=> q = owner
      BY <2>1, <3>1, <1>2, <1>3, <1>4, <1>5 DEF Owners
    <3>. QED  BY <3>1, <3>2, <1>3 DEF Owners
  <2>3. CASE owner = p
    <3>1. n \in o[p] /\ \A q \in kept : n \notin o[q]
      BY <2>1, <2>3 DEF Owners
    <3>2. PICK i \in {1, 2} : {j \in {1, 2} : n \in groups[j]} = {i}
      BY <3>1, <1>2
    <3>3. \A j \in {1, 2} : n \in groups[j] <=> j = i
      BY <3>2
    <3>4. \A q \in DOMAIN r : n \in r[q] <=> q = Append(p, i)
      BY <3>1, <3>3, <1>2, <1>3, <1>4, <1>5, PartNames
    <3>5. Append(p, i) \in DOMAIN r
      BY <1>3
    <3>6. Owners(r, n) = {Append(p, i)}
      BY <3>4, <3>5, Zenon DEF Owners
    <3>. QED  BY <3>5, <3>6
  <2>. QED  BY <2>2, <2>3
<1>8. ASSUME NEW q \in DOMAIN r PROVE IsFiniteSet(r[q])
  <2>1. \A i \in {1, 2} : IsFiniteSet(groups[i])
    BY <1>2, FS_Subset DEF Divided
  <2>. QED  BY <1>3, <1>4, <1>5, <1>8, <2>1 DEF Divided
<1>. QED  BY <1>6, <1>7, <1>8 DEF Divided, r, groups

LEMMA OwnershipStep ==
    ASSUME TypeOK, OInv, [Next]_vars
    PROVE  OInv'
<1>1. Divided(ToRefine, proposal)
  BY FirstIsDivided DEF OInv, ToRefine, TypeOK
<1>2. ASSUME NEW o, Rebind(o), UNCHANGED proposal, Divided(o, proposal) PROVE OInv'
  BY <1>2 DEF Rebind, OInv, Planned, Packets, Divided
<1>3. ASSUME NEW p \in Proposal, Revise(p) PROVE OInv'
  BY <1>3 DEF Revise, Rebind, OInv, Planned, Packets
<1>4. CASE Plan
  BY <1>2, <1>4, FirstIsDivided DEF Plan, TypeOK
<1>5. CASE Restart
  BY <1>1, <1>2, <1>5 DEF Restart
<1>6. ASSUME NEW p, NEW part, NEW rest, Refine(p, <<part, rest>>) PROVE OInv'
  BY <1>1, <1>2, <1>6, RefinedIsDivided DEF Refine
<1>7. CASE UNCHANGED <<proposal, ownership>>
  BY <1>7 DEF OInv, Planned, Packets, Divided
<1>8. ASSUME NEW q \in Packets, NEW c, NEW fresh, Page(c, q, fresh) PROVE UNCHANGED <<proposal, ownership>>
  BY <1>8 DEF Page
<1>9. ASSUME NEW q \in Packets, NEW n, Export(q) \/ ExportFails(q, n) \/ Refused(q) PROVE UNCHANGED <<proposal, ownership>>
  BY <1>9 DEF Export, ExportFails, Refused
<1>10. ASSUME NEW q \in Packets, NEW result, Record(q, result) PROVE UNCHANGED <<proposal, ownership>>
  BY <1>10 DEF Record
<1>11. UNCHANGED vars => UNCHANGED <<proposal, ownership>>
  BY DEF vars, review
<1>. QED  BY <1>3, <1>4, <1>5, <1>6, <1>7, <1>8, <1>9, <1>10, <1>11 DEF Next

\* What a packet owns is among its items, and the results of the branches are an item of the synthesis.
LEMMA OwnedIsFresh ==
    ASSUME ItemsAreSequences, ItemsShowOwned, NEW p, IsFiniteSet(ownership[p])
    PROVE  /\ \A n \in ownership[p] : \E i \in DOMAIN Fresh(p) : Fresh(p)[i] = <<"owned", n>>
           /\ \E i \in DOMAIN Fresh(Synthesis) : Fresh(Synthesis)[i] = <<"results", BranchResults>>
<1>1. ASSUME NEW q
      PROVE  LET items == Items(proposal, ownership, q)
                 longer == Append(items, <<"results", BranchResults>>)
             IN  /\ Len(items) \in Nat /\ DOMAIN items = 1 .. Len(items)
                 /\ DOMAIN longer = 1 .. Len(items) + 1
                 /\ \A i \in DOMAIN items : longer[i] = items[i]
                 /\ longer[Len(items) + 1] = <<"results", BranchResults>>
  <2>1. PICK S : Items(proposal, ownership, q) \in Seq(S)
    BY DEF ItemsAreSequences
  <2>. DEFINE items == Items(proposal, ownership, q)
              last  == <<"results", BranchResults>>
              T == S \cup {last}
  <2>2. items \in Seq(T) /\ last \in T
    BY <2>1
  <2>. HIDE DEF items, last, T
  <2>3. /\ Len(items) \in Nat /\ DOMAIN items = 1 .. Len(items)
        /\ DOMAIN Append(items, last) = 1 .. Len(items) + 1
        /\ \A i \in DOMAIN items : Append(items, last)[i] = items[i]
        /\ Append(items, last)[Len(items) + 1] = last
    BY <2>2
  <2>. QED  BY <2>3 DEF items, last
<1>2. \A n \in ownership[p] : \E i \in DOMAIN Items(proposal, ownership, p) :
          Items(proposal, ownership, p)[i] = <<"owned", n>>
  <2>. DEFINE Shows(q, n) == \E i \in DOMAIN Items(proposal, ownership, q) : Items(proposal, ownership, q)[i] = <<"owned", n>>
  <2>1. \A q : IsFiniteSet(ownership[q]) => \A n \in ownership[q] : Shows(q, n)
    BY DEF ItemsShowOwned
  <2>. QED  BY <2>1
<1>3. \E i \in DOMAIN Fresh(Synthesis) : Fresh(Synthesis)[i] = <<"results", BranchResults>>
  <2>. DEFINE items == Items(proposal, ownership, Synthesis)
  <2>1. Len(items) + 1 \in DOMAIN Fresh(Synthesis) /\ Fresh(Synthesis)[Len(items) + 1] = <<"results", BranchResults>>
    BY <1>1 DEF Fresh
  <2>. QED  BY <2>1
<1>4. ASSUME NEW n \in ownership[p] PROVE \E i \in DOMAIN Fresh(p) : Fresh(p)[i] = <<"owned", n>>
  <2>1. PICK i \in DOMAIN Items(proposal, ownership, p) : Items(proposal, ownership, p)[i] = <<"owned", n>>
    BY <1>2
  <2>2. i \in DOMAIN Fresh(p) /\ Fresh(p)[i] = <<"owned", n>>
    BY <1>1, <2>1 DEF Fresh
  <2>. QED  BY <2>2
<1>. QED  BY <1>3, <1>4

-----------------------------------------------------------------------------
(* Theorems. *)

LEMMA Inductive ==
    ASSUME ItemsAreSequences
    PROVE  Spec => []IInv
<1>1. Init => IInv
  BY DEF Init, IInv, TypeOK, SeenOK, CursorsOK, CachedIsFresh, PresentedWasGiven, JudgedAsShown, Packets, Planned
<1>2. IInv /\ [Next]_vars => IInv'
  BY NextStep
<1>. QED  BY <1>1, <1>2, PTL DEF Spec

\* What counts as presented of any packet was given to a client under the plan, also when an
\* export has failed in between (export_packet).
THEOREM PresentedIsGiven ==
    ASSUME ItemsAreSequences
    PROVE  Spec => []PresentedWasGiven
<1>1. IInv => PresentedWasGiven
  BY DEF IInv
<1>. QED  BY <1>1, Inductive, PTL

\* A packet has a result only if each item it holds now was given to a client: for the synthesis,
\* with the results of the branches as they are now (record, packet_items).
THEOREM JudgedIsShown ==
    ASSUME ItemsAreSequences
    PROVE  Spec => []JudgedAsShown
<1>1. IInv => JudgedAsShown
  BY DEF IInv
<1>. QED  BY <1>1, Inductive, PTL

\* An allowed or blocked branch keeps its result until the review starts over (record).
THEOREM BranchesKeepResults ==
    ASSUME ItemsAreSequences
    PROVE  Spec => BranchesStand
<1>1. IInv /\ [Next]_vars =>
        [\A p \in Packets \ {Synthesis} : results[p] \cap Terminal # {} =>
            \/ p \in Packets' /\ results'[p] = results[p]
            \/ \A q \in Packets' : results'[q] = {} /\ seen'[q] = {}]_vars
  BY BranchStep
<1>. QED  BY <1>1, Inductive, PTL DEF Spec, BranchesStand

\* When everything allows, each ordinal of the evidence was given to a client in the one packet
\* that owns it, through any refinements and restarts, and the synthesis with the results of the
\* branches as they stand (complete, partition, refine).
THEOREM CompleteIsShown ==
    ASSUME ItemsAreSequences, ItemsShowOwned
    PROVE  Spec => []WholeReviewShown
<1>1. Init => OInv
  BY DEF Init, OInv, Planned, Packets
<1>2. IInv /\ OInv /\ [Next]_vars => OInv'
  BY OwnershipStep DEF IInv
<1>3. ASSUME IInv, OInv, Complete PROVE WholeReviewShown
  <2>1. \A p \in Packets : \A i \in DOMAIN Fresh(p) : Fresh(p)[i] \in delivered[p]
    BY <1>3 DEF Complete, BranchesAllowed, Allows, IInv, JudgedAsShown
  <2>2. /\ Synthesis \in Packets /\ \A p \in Packets : IsFiniteSet(ownership[p])
        /\ \A n \in Evidence(proposal) : \E p \in Packets : Owners(ownership, n) = {p}
    BY <1>3 DEF Complete, OInv, Divided, Packets
  <2>3. <<"results", BranchResults>> \in delivered[Synthesis]
    BY <2>1, <2>2, OwnedIsFresh
  <2>4. ASSUME NEW n \in Evidence(proposal)
        PROVE  \E p \in Packets : <<"owned", n>> \in delivered[p] /\ Owners(ownership, n) = {p}
    <3>1. PICK p \in Packets : Owners(ownership, n) = {p}
      BY <2>2
    <3>2. n \in ownership[p]
      BY <3>1 DEF Owners
    <3>. QED  BY <2>1, <2>2, <3>1, <3>2, OwnedIsFresh
  <2>. QED  BY <2>3, <2>4 DEF WholeReviewShown
<1>4. IInv /\ OInv => WholeReviewShown
  BY <1>3 DEF WholeReviewShown
<1>. QED  BY <1>1, <1>2, <1>4, Inductive, PTL DEF Spec
=============================================================================
