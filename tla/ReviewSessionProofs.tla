-------------------------- MODULE ReviewSessionProofs --------------------------
(***************************************************************************)
(* What holds of ReviewSession for all batches, analyses of them, clients, *)
(* page sizes and bounds.                                                  *)
(***************************************************************************)
EXTENDS ReviewSession, FiniteSetTheorems, SequenceTheorems, TLAPS

(* The inductive invariant of the judgements, in four parts. *)

IInv == TypeOK /\ JudgementsStand /\ ContextStands

CountsOK ==
    /\ edition \in 0..MaxEditions /\ base \in 0..edition /\ session \in 0..MaxSessions
FlagsOK == running \in BOOLEAN /\ active \in BOOLEAN

JudgedOK ==
    /\ skip \in BOOLEAN /\ operations \in Proposal
    /\ dispositions \in [Reviewed(operations, skip) -> Judgements]
    /\ \A n \in DOMAIN dispositions : dispositions[n] # "pending" =>
           n \in DOMAIN judged /\ judged[n] = Evidence[operations][n]
    /\ presented \subseteq Upstream(operations, skip) /\ acknowledged = [n \in presented |-> acknowledged[n]]
    /\ \A n \in presented : acknowledged[n] = Lineage[operations][n]

RequestsOK ==
    /\ supplemental \in Supplements \cup {<<>>}
    /\ \/ packets = NoPackets
       \/ ~skip /\ packets = [planned |-> TRUE, evidence |-> packets.evidence, allowed |-> packets.allowed]
    /\ page \in [Client -> Nat]

LEMMA PartsAreAll == IInv <=> CountsOK /\ FlagsOK /\ JudgedOK /\ RequestsOK
BY DEF IInv, TypeOK, JudgementsStand, ContextStands, CountsOK, FlagsOK, JudgedOK, RequestsOK

-----------------------------------------------------------------------------
(* The items are a sequence. *)

IsSeq(f) == f \in Seq({f[i] : i \in DOMAIN f})

LEMMA IsSeqFacts == ASSUME NEW f, IsSeq(f) PROVE Len(f) \in Nat /\ DOMAIN f = 1 .. Len(f)
BY DEF IsSeq

LEMMA IsSeqOf == ASSUME NEW S, NEW f \in Seq(S) PROVE IsSeq(f)
<1>1. Len(f) \in Nat /\ DOMAIN f = 1 .. Len(f) /\ f = [i \in 1 .. Len(f) |-> f[i]]
  OBVIOUS
<1>2. f \in [1 .. Len(f) -> {f[i] : i \in DOMAIN f}]
  BY <1>1
<1>. QED  BY <1>1, <1>2 DEF IsSeq

LEMMA IsSeqTable ==
    ASSUME NEW s, IsSeq(s), NEW f, f = [i \in DOMAIN s |-> f[i]]
    PROVE  IsSeq(f)
<1>. DEFINE T == {f[i] : i \in DOMAIN s}
<1>1. Len(s) \in Nat /\ DOMAIN s = 1 .. Len(s)
  BY IsSeqFacts
<1>2. f \in [1 .. Len(s) -> T]
  BY <1>1
<1>. HIDE DEF T
<1>3. f \in Seq(T)
  BY <1>1, <1>2
<1>. QED  BY <1>3, IsSeqOf

LEMMA IsSeqConcat == ASSUME NEW f, NEW g, IsSeq(f), IsSeq(g) PROVE IsSeq(f \o g)
<1>. DEFINE S == {f[i] : i \in DOMAIN f}
            T == {g[i] : i \in DOMAIN g}
<1>1. f \in Seq(S) /\ g \in Seq(T)
  BY DEF IsSeq
<1>. HIDE DEF S, T
<1>2. f \in Seq(S \cup T) /\ g \in Seq(S \cup T)
  BY <1>1
<1>3. f \o g \in Seq(S \cup T)
  BY <1>2
<1>. QED  BY <1>3, IsSeqOf

LEMMA ItemsAreSequence ==
    ASSUME operations \in Proposal, supplemental \in Supplements \cup {<<>>}
    PROVE  IsSeq(ReviewItems)
<1>. DEFINE nodes == Affected[operations]
            context == Context[operations]
            affectedItems == [i \in DOMAIN nodes |-> Item("affected", nodes[i], Evidence[operations][nodes[i]])]
            contextItems == [i \in DOMAIN context |-> Item("context", context[i], Lineage[operations][context[i]])]
            dispositionItems == [i \in DOMAIN nodes |-> Item("disposition", nodes[i], dispositions[nodes[i]])]
            supplementalItems == [i \in DOMAIN supplemental |-> Item("supplemental", operations, supplemental[i])]
<1>1. IsSeq(Operations(operations))
  <2>. DEFINE item == Item("operations", operations, operations)
  <2>1. Operations(operations) = <<>> \/ Operations(operations) = <<item>>
    BY DEF Operations
  <2>2. <<>> \in Seq({item}) /\ <<item>> \in Seq({item})
    OBVIOUS
  <2>. HIDE DEF item
  <2>. QED  BY <2>1, <2>2, IsSeqOf
<1>2. IsSeq(nodes) /\ IsSeq(context)
  <2>1. nodes \in Seq(Node) /\ context \in Seq(Node)
    BY BatchAssumption
  <2>. QED  BY <2>1, IsSeqOf
<1>3. IsSeq(supplemental)
  <2>1. CASE supplemental \in Supplements
    BY <2>1, SupplementAssumption DEF IsSeq
  <2>2. CASE supplemental = <<>>
    <3>1. supplemental \in Seq({})
      BY <2>2
    <3>. QED  BY <3>1, IsSeqOf
  <2>. QED  BY <2>1, <2>2
<1>4. /\ affectedItems = [i \in DOMAIN nodes |-> affectedItems[i]]
      /\ contextItems = [i \in DOMAIN context |-> contextItems[i]]
      /\ dispositionItems = [i \in DOMAIN nodes |-> dispositionItems[i]]
      /\ supplementalItems = [i \in DOMAIN supplemental |-> supplementalItems[i]]
  OBVIOUS
<1>5. ReviewItems = IF skip THEN Operations(operations)
                    ELSE Operations(operations) \o affectedItems \o contextItems
                             \o dispositionItems \o supplementalItems
  BY DEF ReviewItems, Items
<1>. HIDE DEF affectedItems, contextItems, dispositionItems, supplementalItems, nodes, context
<1>6. IsSeq(affectedItems) /\ IsSeq(contextItems) /\ IsSeq(dispositionItems) /\ IsSeq(supplementalItems)
  BY <1>2, <1>3, <1>4, IsSeqTable
<1>7. IsSeq(Operations(operations) \o affectedItems)
  BY <1>1, <1>6, IsSeqConcat
<1>8. IsSeq(Operations(operations) \o affectedItems \o contextItems)
  BY <1>6, <1>7, IsSeqConcat
<1>9. IsSeq(Operations(operations) \o affectedItems \o contextItems \o dispositionItems)
  BY <1>6, <1>8, IsSeqConcat
<1>10. IsSeq(Operations(operations) \o affectedItems \o contextItems \o dispositionItems \o supplementalItems)
  BY <1>6, <1>9, IsSeqConcat
<1>. QED  BY <1>1, <1>5, <1>10

-----------------------------------------------------------------------------
(* The requests. *)

LEMMA InitIInv == Init => IInv
<1>. SUFFICES ASSUME Init PROVE IInv
  OBVIOUS
<1>1. Elements(Affected[operations]) = {} /\ Elements(Context[operations]) = {}
  BY BatchAssumption DEF Init, Elements
<1>2. dispositions \in [{} -> Judgements] /\ DOMAIN dispositions = {} /\ DOMAIN acknowledged = {}
  BY DEF Init
<1>3. JudgedOK
  BY <1>1, <1>2, BatchAssumption DEF Init, JudgedOK, Reviewed, Upstream
<1>4. CountsOK
  BY SizeAssumption DEF Init, CountsOK
<1>6. FlagsOK
  BY DEF Init, FlagsOK
<1>5. RequestsOK
  BY DEF Init, RequestsOK, NoPackets
<1>. QED  BY <1>3, <1>4, <1>5, <1>6, PartsAreAll

\* Rebuild keeps no judgement and no context that does not stand.
LEMMA RebuildStep ==
    ASSUME JudgedOK, NEW batch \in Proposal, NEW skipped \in BOOLEAN, Rebuild(batch, skipped)
    PROVE  JudgedOK'
<1>1. /\ operations' = batch /\ skip' = skipped
      /\ dispositions' = [n \in Reviewed(batch, skipped) |-> IF n \in Kept(batch, skipped) THEN dispositions[n] ELSE "pending"]
      /\ judged' = [n \in Kept(batch, skipped) \cap DOMAIN judged |-> judged[n]]
      /\ presented' = KeptContext(batch, skipped)
      /\ acknowledged' = [n \in KeptContext(batch, skipped) |-> acknowledged[n]]
  BY DEF Rebuild
<1>2. \A n \in Kept(batch, skipped) : n \in DOMAIN dispositions /\ Evidence[batch][n] = Evidence[operations][n]
  BY DEF Kept
<1>3. \A n \in KeptContext(batch, skipped) :
          n \in presented /\ n \in Upstream(batch, skipped) /\ Lineage[batch][n] = Lineage[operations][n]
  BY DEF KeptContext
<1>4. \A n \in Kept(batch, skipped) : dispositions[n] \in Judgements
  BY <1>2 DEF JudgedOK
<1>5. dispositions' \in [Reviewed(operations', skip') -> Judgements]
  BY <1>1, <1>4 DEF Reviewed, Judgements
<1>6. ASSUME NEW n \in DOMAIN dispositions', dispositions'[n] # "pending"
      PROVE  n \in DOMAIN judged' /\ judged'[n] = Evidence[operations'][n]
  <2>1. n \in Kept(batch, skipped) /\ dispositions[n] # "pending"
    BY <1>1, <1>6
  <2>2. n \in DOMAIN judged /\ judged[n] = Evidence[operations][n]
    BY <1>2, <2>1 DEF JudgedOK
  <2>. QED  BY <1>1, <1>2, <2>1, <2>2
<1>7. \A n \in presented' : acknowledged'[n] = Lineage[operations'][n]
  BY <1>1, <1>3 DEF JudgedOK
<1>8. presented' \subseteq Upstream(operations', skip') /\ acknowledged' = [n \in presented' |-> acknowledged'[n]]
  BY <1>1, <1>3 DEF Upstream
<1>. QED  BY <1>1, <1>5, <1>6, <1>7, <1>8 DEF JudgedOK, Reviewed, Upstream

\* A request that judges some nodes, and acknowledges some context, does so on the current evidence.
LEMMA RecordedStep ==
    ASSUME JudgedOK, NEW nodes \in SUBSET DOMAIN dispositions, NEW given \in [nodes -> Judgements],
           Recorded(given), NEW context \in SUBSET Upstream(operations, skip),
           presented' = presented \cup context,
           acknowledged' = Over([n \in context |-> Lineage[operations][n]], acknowledged),
           UNCHANGED proposal
    PROVE  JudgedOK'
<1>1. /\ dispositions' = [n \in nodes \cup DOMAIN dispositions |-> IF n \in nodes THEN given[n] ELSE dispositions[n]]
      /\ judged' = [n \in nodes \cup DOMAIN judged |-> IF n \in nodes THEN Evidence[operations][n] ELSE judged[n]]
      /\ acknowledged' = [n \in context \cup DOMAIN acknowledged |-> IF n \in context THEN Lineage[operations][n] ELSE acknowledged[n]]
  BY DEF Recorded, Over
<1>2. DOMAIN dispositions = Reviewed(operations, skip) /\ \A n \in DOMAIN dispositions : dispositions[n] \in Judgements
  BY DEF JudgedOK
<1>3. operations' = operations /\ skip' = skip
  BY DEF proposal
<1>4. dispositions' \in [Reviewed(operations', skip') -> Judgements]
  BY <1>1, <1>2, <1>3 DEF Reviewed
<1>5. \A n \in DOMAIN dispositions' : dispositions'[n] # "pending" =>
          n \in DOMAIN judged' /\ judged'[n] = Evidence[operations'][n]
  BY <1>1, <1>2, <1>3 DEF JudgedOK
<1>6. \A n \in presented' : acknowledged'[n] = Lineage[operations'][n]
  BY <1>1, <1>3 DEF JudgedOK
<1>7. presented' \subseteq Upstream(operations', skip') /\ acknowledged' = [n \in presented' |-> acknowledged'[n]]
  BY <1>1, <1>3 DEF JudgedOK, Upstream
<1>. QED  BY <1>3, <1>4, <1>5, <1>6, <1>7 DEF JudgedOK, Reviewed, Upstream

LEMMA UnchangedStep ==
    JudgedOK /\ UNCHANGED <<proposal, dispositions, presented, judged, acknowledged>> => JudgedOK'
BY DEF JudgedOK, proposal, Reviewed, Upstream

\* A client that takes a reference starts over at its first page, or goes on.
LEMMA TakeStep == ASSUME page \in [Client -> Nat], NEW c \in Client, Take(c) PROVE page' \in [Client -> Nat]
BY DEF Take

\* Other results of the packets change nothing else of the plan.
LEMMA AllowedStep ==
    ASSUME packets = [planned |-> TRUE, evidence |-> packets.evidence, allowed |-> packets.allowed],
           NEW allowed, packets' = [packets EXCEPT !.allowed = allowed]
    PROVE  packets' = [planned |-> TRUE, evidence |-> packets'.evidence, allowed |-> packets'.allowed]
<1>1. PICK e, a : packets = [planned |-> TRUE, evidence |-> e, allowed |-> a]
  OBVIOUS
<1>2. packets' = [planned |-> TRUE, evidence |-> e, allowed |-> allowed]
  BY <1>1
<1>3. packets'.evidence = e /\ packets'.allowed = allowed
  BY <1>2
<1>. QED  BY <1>2, <1>3

LEMMA CountsStep == ASSUME IInv, [Next]_vars PROVE CountsOK'
<1>. USE SizeAssumption
<1>1. edition \in Nat /\ base \in 0..edition /\ session \in 0..MaxSessions /\ edition \in 0..MaxEditions
  BY PartsAreAll DEF CountsOK
<1>2. ASSUME UNCHANGED <<session, base>>,
             UNCHANGED edition \/ (edition < MaxEditions /\ edition' = edition + 1)
      PROVE  CountsOK'
  BY <1>1, <1>2 DEF CountsOK
<1>3. ASSUME NEW c \in Client, Begin(c) PROVE CountsOK'
  <2>1. session < MaxSessions /\ session' = session + 1 /\ base' = edition /\ edition' = edition
    BY <1>3 DEF Begin
  <2>. QED  BY <1>1, <2>1 DEF CountsOK
<1>4. ASSUME NEW by, Store(by)
      PROVE  UNCHANGED edition \/ (edition < MaxEditions /\ edition' = edition + 1)
  BY <1>4 DEF Store
<1>5. ASSUME NEW c \in Client, Write(c) \/ AgentWrite(c) \/ PacketWrite(c) PROVE CountsOK'
  BY <1>2, <1>4, <1>5 DEF Write, AgentWrite, PacketWrite
<1>6. ASSUME HostExit \/ OutsideWrite \/ \E c \in Client : Discard(c) PROVE CountsOK'
  BY <1>2, <1>6 DEF HostExit, OutsideWrite, Discard
<1>7. ASSUME UNCHANGED <<edition, session, base>> PROVE CountsOK'
  BY <1>2, <1>7
<1>. QED
  BY <1>3, <1>5, <1>6, <1>7
  DEF Next, vars, Show, Apply, Review, ReviewRejected, ReviewContext, Preview, AgentReview, Plan, PacketResult

LEMMA FlagsStep == ASSUME IInv, [Next]_vars PROVE FlagsOK'
<1>1. FlagsOK
  BY PartsAreAll
<1>2. ASSUME running' = running \/ running' = FALSE,
             active' = active \/ active' = FALSE \/ active' = TRUE
      PROVE  FlagsOK'
  BY <1>1, <1>2, Zenon DEF FlagsOK
<1>3. ASSUME NEW by, Store(by) PROVE active' = active \/ active' = FALSE
  BY <1>3, Zenon DEF Store, Ends
<1>4. ASSUME NEW c \in Client, Write(c) \/ AgentWrite(c) \/ PacketWrite(c) PROVE FlagsOK'
  BY <1>2, <1>3, <1>4, Zenon DEF Write, AgentWrite, PacketWrite
<1>5. ASSUME NEW c \in Client, Begin(c) \/ Discard(c) PROVE FlagsOK'
  BY <1>2, <1>5, Zenon DEF Begin, Discard, Ends
<1>6. ASSUME HostExit \/ OutsideWrite PROVE FlagsOK'
  BY <1>2, <1>6, Zenon DEF HostExit, OutsideWrite, Ends
<1>7. ASSUME UNCHANGED <<running, active>> PROVE FlagsOK'
  BY <1>2, <1>7, Zenon
<1>. QED
  BY <1>4, <1>5, <1>6, <1>7
  DEF Next, vars, Show, Apply, Review, ReviewRejected, ReviewContext, Preview, AgentReview, Plan, PacketResult

LEMMA JudgedStep == ASSUME IInv, [Next]_vars PROVE JudgedOK'
<1>1. JudgedOK
  BY PartsAreAll
<1>2. ASSUME UNCHANGED <<proposal, dispositions, presented, judged, acknowledged>> PROVE JudgedOK'
  BY <1>1, <1>2, UnchangedStep
<1>3. ASSUME NEW c \in Client, Begin(c) PROVE JudgedOK'
  <2>1. Elements(Affected[Nothing]) = {} /\ Elements(Context[Nothing]) = {}
    BY BatchAssumption DEF Elements
  <2>2. dispositions' \in [{} -> Judgements] /\ DOMAIN dispositions' = {}
    BY <1>3 DEF Begin
  <2>4. acknowledged' = [n \in {} |-> acknowledged'[n]]
    BY <1>3 DEF Begin
  <2>3. operations' = Nothing /\ skip' = FALSE /\ presented' = {}
    BY <1>3 DEF Begin
  <2>. QED  BY <2>1, <2>2, <2>3, <2>4, BatchAssumption DEF JudgedOK, Reviewed, Upstream
<1>4. ASSUME NEW c \in Client, NEW batch \in Proposal, NEW skipped \in BOOLEAN, Apply(c, batch, skipped)
      PROVE  JudgedOK'
  BY <1>1, <1>4, RebuildStep DEF Apply
<1>5. ASSUME NEW c \in Client, NEW given \in Judging(DOMAIN dispositions),
             NEW context \in SUBSET Upstream(operations, skip), Review(c, given, context)
      PROVE  JudgedOK'
  <2>1. PICK nodes \in SUBSET DOMAIN dispositions : given \in [nodes -> Judgements]
    BY DEF Judging
  <2>. QED  BY <1>1, <1>5, <2>1, RecordedStep DEF Review
<1>6. ASSUME NEW c \in Client, NEW given \in Judging(DOMAIN dispositions), ReviewRejected(c, given)
      PROVE  JudgedOK'
  <2>1. PICK nodes \in SUBSET DOMAIN dispositions : given \in [nodes -> Judgements]
    BY DEF Judging
  <2>2. Recorded(given) /\ UNCHANGED <<proposal, presented, acknowledged>>
    BY <1>6 DEF ReviewRejected
  <2>3. presented' = presented \cup {}
    BY <2>2
  <2>4. acknowledged' = Over([n \in {} |-> Lineage[operations][n]], acknowledged)
    <3>1. acknowledged = [n \in DOMAIN acknowledged |-> acknowledged[n]]
      BY <1>1 DEF JudgedOK
    <3>. QED  BY <2>2, <3>1 DEF Over
  <2>5. {} \in SUBSET Upstream(operations, skip)
    OBVIOUS
  <2>. QED  BY <1>1, <2>1, <2>2, <2>3, <2>4, <2>5, RecordedStep
<1>. QED
  BY <1>2, <1>3, <1>4, <1>5, <1>6
  DEF Next, vars, review, HostExit, OutsideWrite, Show, Discard, Write, AgentWrite, PacketWrite,
      ReviewContext, Preview, AgentReview, Plan, PacketResult

LEMMA RequestsStep == ASSUME IInv, [Next]_vars PROVE RequestsOK'
<1>1. RequestsOK
  BY PartsAreAll
<1>. DEFINE SupplementalOK == supplemental \in Supplements \cup {<<>>}
            PacketsOK == \/ packets = NoPackets
                         \/ ~skip /\ packets = [planned |-> TRUE, evidence |-> packets.evidence,
                                               allowed |-> packets.allowed]
            PageOK == page \in [Client -> Nat]
<1>2. SupplementalOK'
  <2>1. supplemental' = supplemental \/ supplemental' = <<>> \/ supplemental' \in Supplements
    BY DEF Next, vars, review, HostExit, OutsideWrite, Begin, Show, Discard, Write, AgentWrite, PacketWrite,
           Apply, Review, ReviewRejected, ReviewContext, Preview, AgentReview, Plan, PacketResult
  <2>. QED  BY <1>1, <2>1 DEF RequestsOK
<1>3. PacketsOK'
  <2>1. PacketsOK
    BY <1>1 DEF RequestsOK
  <2>2. ASSUME UNCHANGED <<packets, proposal>> PROVE PacketsOK'
    BY <2>1, <2>2 DEF proposal
  <2>3. ASSUME Forget PROVE PacketsOK'
    BY <2>3 DEF Forget, NoPackets
  <2>4. ASSUME NEW c \in Client, NEW refined \in BOOLEAN, Plan(c, refined) PROVE PacketsOK'
    <3>1. ~skip /\ skip' = skip
      BY <2>4 DEF Plan, proposal
    <3>2. CASE packets = NoPackets
      BY <2>4, <3>1, <3>2 DEF Plan
    <3>3. CASE packets # NoPackets /\ refined
      <4>1. packets' = [packets EXCEPT !.allowed = FALSE]
        BY <2>4, <3>3 DEF Plan
      <4>2. packets = [planned |-> TRUE, evidence |-> packets.evidence, allowed |-> packets.allowed]
        BY <2>1, <3>3
      <4>. QED  BY <3>1, <4>1, <4>2, AllowedStep
    <3>4. CASE packets # NoPackets /\ ~refined
      BY <2>1, <2>4, <3>1, <3>4 DEF Plan
    <3>. QED  BY <3>2, <3>3, <3>4
  <2>5. ASSUME NEW c \in Client, NEW allowed \in BOOLEAN, PacketResult(c, allowed) PROVE PacketsOK'
    <3>1. packets.planned /\ packets' = [packets EXCEPT !.allowed = allowed] /\ skip' = skip
      BY <2>5 DEF PacketResult, proposal
    <3>2. ~NoPackets.planned
      BY DEF NoPackets
    <3>3. ~skip /\ packets = [planned |-> TRUE, evidence |-> packets.evidence, allowed |-> packets.allowed]
      BY <2>1, <3>1, <3>2
    <3>. QED  BY <3>1, <3>3, AllowedStep
  <2>6. ASSUME NEW c \in Client, NEW given, NEW context, Review(c, given, context) PROVE PacketsOK'
    BY <2>2, <2>3, <2>6 DEF Review, approval
  <2>. HIDE DEF PacketsOK
  <2>. QED
    BY <2>2, <2>3, <2>4, <2>5, <2>6
    DEF Next, vars, approval, HostExit, OutsideWrite, Begin, Show, Discard, Write, AgentWrite, PacketWrite,
        Apply, ReviewRejected, ReviewContext, Preview, AgentReview
<1>4. PageOK'
  <2>1. PageOK
    BY <1>1 DEF RequestsOK
  <2>2. ASSUME NEW c \in Client, Take(c) PROVE PageOK'
    BY <2>1, <2>2, TakeStep
  <2>3. ASSUME NEW c \in Client, NEW offset \in {0, page[c]}, Preview(c, offset) PROVE PageOK'
    <3>. DEFINE end == offset + PageSize
    <3>1. end \in Nat
      BY <2>1, SizeAssumption
    <3>2. page' = [page EXCEPT ![c] = end] \/ page' = [page EXCEPT ![c] = 0]
      <4>. DEFINE last == IF end < Len(ReviewItems) THEN end ELSE Len(ReviewItems)
      <4>1. page' = [page EXCEPT ![c] = IF last < Len(ReviewItems) THEN last ELSE 0]
        BY <2>3 DEF Preview
      <4>2. CASE end < Len(ReviewItems)
        BY <4>1, <4>2
      <4>3. CASE ~(end < Len(ReviewItems))
        <5>1. last = Len(ReviewItems)
          BY <4>3
        <5>2. Len(ReviewItems) \in Nat
          BY PartsAreAll, ItemsAreSequence, IsSeqFacts DEF JudgedOK, RequestsOK
        <5>. HIDE DEF last
        <5>3. ~(last < Len(ReviewItems))
          BY <5>1, <5>2
        <5>. QED  BY <4>1, <5>3
      <4>. QED  BY <4>2, <4>3
    <3>. HIDE DEF end
    <3>. QED  BY <2>1, <3>1, <3>2
  <2>4. ASSUME UNCHANGED page PROVE PageOK'
    BY <2>1, <2>4
  <2>. HIDE DEF PageOK
  <2>. QED
    BY <2>2, <2>3, <2>4
    DEF Next, vars, request, HostExit, OutsideWrite, Begin, Show, Discard, Write, AgentWrite, PacketWrite,
        Apply, Review, ReviewRejected, ReviewContext, AgentReview, Plan, PacketResult
<1>. QED  BY <1>2, <1>3, <1>4 DEF RequestsOK

LEMMA IInvStep == ASSUME IInv, [Next]_vars PROVE IInv'
<1>1. CountsOK' /\ FlagsOK' /\ JudgedOK' /\ RequestsOK'
  BY CountsStep, FlagsStep, JudgedStep, RequestsStep
<1>. QED
  BY <1>1 DEF IInv, TypeOK, JudgementsStand, ContextStands, CountsOK, FlagsOK, JudgedOK, RequestsOK

LEMMA IInvHolds == Spec => []IInv
<1>1. IInv /\ [Next]_vars => IInv'
  BY IInvStep
<1>. QED  BY InitIInv, <1>1, PTL DEF Spec

\* The session's parts fit each other, for all batches and clients (Session, application.py:40-66).
THEOREM TypeCorrect == Spec => []TypeOK
<1>1. IInv => TypeOK
  BY DEF IInv
<1>. QED  BY IInvHolds, <1>1, PTL

\* Whatever batches replace each other, and whichever items of a request are refused, a judgement
\* in force is on the current evidence (Session.rebuild, Application.review).
THEOREM JudgementsHold == Spec => []JudgementsStand
<1>1. IInv => JudgementsStand
  BY DEF IInv
<1>. QED  BY IInvHolds, <1>1, PTL

\* Likewise acknowledged context is acknowledged with its current lineage.
THEOREM ContextHolds == Spec => []ContextStands
<1>1. IInv => ContextStands
  BY DEF IInv
<1>. QED  BY IInvHolds, <1>1, PTL

-----------------------------------------------------------------------------
(* What is saved, when a refused change.review records nothing. *)

\* What was shown, planned or decided was so for the review as it stands.
ApprovalStands ==
    /\ seen \subseteq DOMAIN ReviewItems
    /\ shown = [i \in seen |-> ReviewItems[i]]
    /\ packets = NoPackets \/ packets.evidence = ReviewItems
    /\ decision = NoDecision \/ decision.evidence = ReviewItems

AInv == IInv /\ ApprovalStands

LEMMA ItemsFacts ==
    ASSUME IInv
    PROVE  /\ Len(ReviewItems) \in Nat /\ DOMAIN ReviewItems = 1 .. Len(ReviewItems)
           /\ ReviewItems = [i \in DOMAIN ReviewItems |-> ReviewItems[i]]
<1>1. IsSeq(ReviewItems)
  BY ItemsAreSequence, PartsAreAll DEF JudgedOK, RequestsOK
<1>. QED  BY <1>1, IsSeqFacts DEF IsSeq

\* The number that is compared says that all items have been shown.
LEMMA CompleteIsAll ==
    ASSUME AInv, Complete
    PROVE  seen = DOMAIN ReviewItems /\ shown = ReviewItems
<1>. DEFINE n == Len(ReviewItems)
<1>1. n \in Nat /\ DOMAIN ReviewItems = 1 .. n
  BY ItemsFacts DEF AInv
<1>2. IsFiniteSet(1 .. n) /\ Cardinality(1 .. n) = n
  <2>1. 0 \in Int /\ n \in Int /\ 1 \in Int
    BY <1>1
  <2>2. IsFiniteSet(1 .. n) /\ Cardinality(1 .. n) = IF 1 > n THEN 0 ELSE n - 1 + 1
    BY <2>1, FS_Interval
  <2>. QED  BY <1>1, <2>2
<1>3. seen \subseteq 1 .. n /\ Cardinality(seen) = n
  BY <1>1 DEF AInv, ApprovalStands, Complete
<1>. HIDE DEF n
<1>4. seen = 1 .. n
  BY <1>2, <1>3, FS_Subset
<1>5. shown = [i \in DOMAIN ReviewItems |-> ReviewItems[i]]
  BY <1>1, <1>4 DEF AInv, ApprovalStands
<1>. QED  BY <1>1, <1>4, <1>5, ItemsFacts DEF AInv

LEMMA ItemsStay ==
    ASSUME UNCHANGED <<operations, skip, dispositions, supplemental>>
    PROVE  ReviewItems' = ReviewItems
BY DEF ReviewItems, Items, Operations

LEMMA ForgottenStands == ASSUME Forget PROVE ApprovalStands'
<1>1. seen' = {} /\ shown' = <<>> /\ packets' = NoPackets /\ decision' = NoDecision
  BY DEF Forget
<1>2. <<>> = [i \in {} |-> ReviewItems'[i]]
  OBVIOUS
<1>. QED  BY <1>1, <1>2 DEF ApprovalStands, NoPackets, NoDecision

LEMMA InitApproval == Init => ApprovalStands
<1>1. <<>> = [i \in {} |-> ReviewItems[i]]
  OBVIOUS
<1>. QED  BY <1>1 DEF Init, ApprovalStands

\* A request that changes neither the review nor what was approved of it.
LEMMA ApprovalStays ==
    ASSUME ApprovalStands,
           UNCHANGED <<operations, skip, dispositions, supplemental, seen, shown, decision, packets>>
    PROVE  ApprovalStands'
<1>1. ReviewItems' = ReviewItems
  BY ItemsStay
<1>. QED  BY <1>1 DEF ApprovalStands, NoPackets, NoDecision

LEMMA PreviewStep ==
    ASSUME AInv, NEW c \in Client, NEW offset \in {0, page[c]}, Preview(c, offset)
    PROVE  ApprovalStands'
<1>. DEFINE n == Len(ReviewItems)
            last == IF offset + PageSize < n THEN offset + PageSize ELSE n
            new == (offset + 1) .. last
<1>1. offset \in Nat /\ PageSize \in Nat
  BY PartsAreAll, SizeAssumption DEF AInv, RequestsOK
<1>2. n \in Nat /\ DOMAIN ReviewItems = 1 .. n
  BY ItemsFacts DEF AInv
<1>3. new \subseteq DOMAIN ReviewItems
  BY <1>1, <1>2
<1>4. ReviewItems' = ReviewItems /\ packets' = packets /\ decision' = decision
  BY ItemsStay DEF Preview, proposal, review
<1>5. seen' = seen \cup new /\ shown' = Over([i \in new |-> ReviewItems[i]], shown)
  BY DEF Preview
<1>. HIDE DEF new
<1>6. shown' = [i \in new \cup seen |-> ReviewItems[i]]
  <2>1. shown = [i \in seen |-> ReviewItems[i]]
    BY DEF AInv, ApprovalStands
  <2>2. DOMAIN shown = seen /\ \A i \in seen : shown[i] = ReviewItems[i]
    BY <2>1
  <2>3. shown' = [i \in new \cup seen |-> IF i \in new THEN ReviewItems[i] ELSE shown[i]]
    BY <1>5, <2>2 DEF Over
  <2>. QED  BY <2>2, <2>3
<1>7. shown' = [i \in seen' |-> ReviewItems'[i]]
  BY <1>4, <1>5, <1>6
<1>. QED  BY <1>3, <1>4, <1>5, <1>7 DEF AInv, ApprovalStands, NoPackets, NoDecision

\* A refused change.review that recorded nothing changed nothing.
LEMMA RejectedStep ==
    ASSUME AInv, PartialReviews = FALSE, NEW c \in Client, NEW given, ReviewRejected(c, given)
    PROVE  ApprovalStands'
<1>1. given = <<>> /\ DOMAIN given = {}
  BY DEF ReviewRejected
<1>2. dispositions = [n \in DOMAIN dispositions |-> dispositions[n]]
  BY PartsAreAll DEF AInv, JudgedOK
<1>3. dispositions' = dispositions
  BY <1>1, <1>2 DEF ReviewRejected, Recorded, Over
<1>. QED  BY <1>3, ApprovalStays DEF AInv, ReviewRejected, proposal, approval

LEMMA PlanStep ==
    ASSUME AInv, NEW c \in Client, NEW refined \in BOOLEAN, Plan(c, refined)
    PROVE  ApprovalStands'
<1>1. ReviewItems' = ReviewItems /\ UNCHANGED <<seen, shown>>
  BY ItemsStay DEF Plan, proposal, review
<1>2. decision' = NoDecision \/ decision' = decision
  BY DEF Plan
<1>3. packets'.evidence = ReviewItems
  <2>1. CASE packets = NoPackets
    BY <2>1 DEF Plan
  <2>2. CASE packets # NoPackets
    <3>1. packets = [planned |-> TRUE, evidence |-> packets.evidence, allowed |-> packets.allowed]
      BY <2>2, PartsAreAll DEF AInv, RequestsOK
    <3>2. PICK a : packets = [planned |-> TRUE, evidence |-> ReviewItems, allowed |-> a]
      BY <2>2, <3>1 DEF AInv, ApprovalStands
    <3>3. packets' = [packets EXCEPT !.allowed = FALSE] \/ packets' = packets
      BY <2>2 DEF Plan
    <3>. QED  BY <3>2, <3>3
  <2>. QED  BY <2>1, <2>2
<1>4. NoDecision' = NoDecision
  BY DEF NoDecision
<1>. QED  BY <1>1, <1>2, <1>3, <1>4 DEF AInv, ApprovalStands

LEMMA ResultStep ==
    ASSUME AInv, NEW c \in Client, NEW allowed \in BOOLEAN, PacketResult(c, allowed)
    PROVE  ApprovalStands'
<1>1. ReviewItems' = ReviewItems /\ UNCHANGED <<seen, shown, decision>>
  BY ItemsStay DEF PacketResult, proposal, review
<1>2. packets # NoPackets
  BY DEF PacketResult, NoPackets
<1>3. packets = [planned |-> TRUE, evidence |-> packets.evidence, allowed |-> packets.allowed]
  BY <1>2, PartsAreAll DEF AInv, RequestsOK
<1>4. PICK a : packets = [planned |-> TRUE, evidence |-> ReviewItems, allowed |-> a]
  BY <1>2, <1>3 DEF AInv, ApprovalStands
<1>5. packets'.evidence = ReviewItems
  BY <1>4 DEF PacketResult
<1>6. NoDecision' = NoDecision
  BY DEF NoDecision
<1>. QED  BY <1>1, <1>5, <1>6 DEF AInv, ApprovalStands

LEMMA DecisionStep ==
    ASSUME AInv, NEW c \in Client, NEW verdict, AgentReview(c, verdict)
    PROVE  ApprovalStands'
<1>1. ReviewItems' = ReviewItems /\ UNCHANGED <<seen, shown, packets>>
  BY ItemsStay DEF AgentReview, proposal, review
<1>2. shown = ReviewItems
  BY CompleteIsAll DEF AgentReview
<1>3. decision'.evidence = shown
  BY DEF AgentReview
<1>4. NoPackets' = NoPackets
  BY DEF NoPackets
<1>. QED  BY <1>1, <1>2, <1>3, <1>4 DEF AInv, ApprovalStands

\* The packets presented the review they were planned for.
LEMMA PacketWriteStep ==
    ASSUME AInv, NEW c \in Client, PacketWrite(c)
    PROVE  ApprovalStands' /\ shown' = ReviewItems /\ packets.evidence = ReviewItems
<1>1. ReviewItems' = ReviewItems /\ UNCHANGED <<decision, packets>>
  BY ItemsStay DEF PacketWrite, proposal, review
<1>2. packets # NoPackets
  BY DEF PacketWrite, NoPackets
<1>3. packets.evidence = ReviewItems
  BY <1>2 DEF AInv, ApprovalStands
<1>4. seen' = DOMAIN ReviewItems /\ shown' = ReviewItems
  BY <1>3 DEF PacketWrite
<1>5. shown' = [i \in seen' |-> ReviewItems'[i]]
  BY <1>1, <1>4, ItemsFacts DEF AInv
<1>6. NoDecision' = NoDecision /\ NoPackets' = NoPackets
  BY DEF NoDecision, NoPackets
<1>. QED  BY <1>1, <1>3, <1>4, <1>5, <1>6 DEF AInv, ApprovalStands

LEMMA ApprovalStep ==
    ASSUME AInv, PartialReviews = FALSE, [Next]_vars
    PROVE  ApprovalStands'
<1>1. ASSUME UNCHANGED <<proposal, dispositions, supplemental, approval>> PROVE ApprovalStands'
  BY <1>1, ApprovalStays DEF AInv, proposal, approval
<1>2. ASSUME NEW c \in Client, NEW given, NEW context, Review(c, given, context) PROVE ApprovalStands'
  BY <1>1, <1>2, ForgottenStands DEF Review
<1>3. ASSUME Forget PROVE ApprovalStands'
  BY <1>3, ForgottenStands
<1>. QED
  BY <1>1, <1>2, <1>3, PreviewStep, RejectedStep, PlanStep, ResultStep, DecisionStep, PacketWriteStep
  DEF Next, vars, review, HostExit, OutsideWrite, Begin, Show, Discard, Write, AgentWrite, Apply, ReviewContext

\* A session is saved only by a request to save it that finds it ready.
LEMMA SavedByWrite ==
    ASSUME [Next]_vars, Saves
    PROVE  \E c \in Client :
               \/ Write(c) /\ outcome'.by = "write"
               \/ AgentWrite(c) /\ outcome'.by = IF skip THEN "write" ELSE "agent"
               \/ PacketWrite(c) /\ Ready /\ outcome'.by = "packets"
<1>1. active' # active
  BY DEF Saves
<1>2. ~(active' = FALSE /\ outcome'.how = "discarded")
  BY DEF Saves
<1>3. ASSUME NEW by, Store(by) PROVE outcome'.by = by
  BY <1>1, <1>3 DEF Store, Ends
<1>4. ASSUME NEW c \in Client, Write(c) PROVE outcome'.by = "write"
  BY <1>3, <1>4 DEF Write
<1>5. ASSUME NEW c \in Client, AgentWrite(c) PROVE outcome'.by = IF skip THEN "write" ELSE "agent"
  BY <1>3, <1>5 DEF AgentWrite
<1>6. ASSUME NEW c \in Client, PacketWrite(c) PROVE Ready /\ outcome'.by = "packets"
  <2>1. Ready /\ Store("packets")
    BY <1>1, <1>6 DEF PacketWrite
  <2>. QED  BY <1>3, <2>1
<1>7. ~HostExit
  BY <1>1, <1>2 DEF HostExit, Ends
<1>8. \A c \in Client : ~Begin(c) /\ ~Discard(c)
  BY <1>1, <1>2 DEF Begin, Discard, Ends, Saves
<1>9. ~UNCHANGED active
  BY <1>1
<1>. QED
  BY <1>4, <1>5, <1>6, <1>7, <1>8, <1>9
  DEF Next, vars, OutsideWrite, Show, Apply, Review, ReviewRejected, ReviewContext, Preview, AgentReview,
      Plan, PacketResult

LEMMA SavedStep ==
    ASSUME AInv, [Next]_vars, Saves
    PROVE  /\ edition = base /\ operations \in Valid
           /\ Missing = {} /\ \A n \in DOMAIN dispositions : dispositions[n] # "pending"
           /\ shown' = ReviewItems
<1>1. PICK c \in Client : Write(c) \/ AgentWrite(c) \/ (PacketWrite(c) /\ Ready)
  BY SavedByWrite
<1>2. Current(c) /\ Ready
  BY <1>1 DEF Write, AgentWrite, PacketWrite
<1>3. \A n \in DOMAIN dispositions : dispositions[n] # "pending"
  <2>1. DOMAIN dispositions = Reviewed(operations, skip)
    BY PartsAreAll DEF AInv, JudgedOK
  <2>. QED  BY <1>2, <2>1 DEF Ready, Pending
<1>4. shown' = ReviewItems
  <2>1. CASE Write(c) \/ AgentWrite(c)
    BY <2>1, CompleteIsAll DEF Write, AgentWrite, approval
  <2>2. CASE PacketWrite(c)
    BY <2>2, PacketWriteStep
  <2>. QED  BY <1>1, <2>1, <2>2
<1>. QED  BY <1>2, <1>3, <1>4 DEF Current, Ready

LEMMA AllowedSavedStep ==
    ASSUME AInv, [Next]_vars, Saves
    PROVE  CASE outcome'.by = "agent"   -> decision.evidence = ReviewItems
             [] outcome'.by = "packets" -> packets.evidence = ReviewItems
             [] OTHER -> TRUE
<1>1. PICK c \in Client :
          \/ Write(c) /\ outcome'.by = "write"
          \/ AgentWrite(c) /\ outcome'.by = IF skip THEN "write" ELSE "agent"
          \/ PacketWrite(c) /\ Ready /\ outcome'.by = "packets"
  BY SavedByWrite
<1>2. CASE outcome'.by = "agent"
  <2>1. AgentWrite(c) /\ ~skip
    BY <1>1, <1>2
  <2>2. decision.verdict = "allow"
    BY <2>1 DEF AgentWrite, AgentAllows
  <2>3. decision # NoDecision
    BY <2>2 DEF NoDecision
  <2>4. decision.evidence = ReviewItems
    BY <2>3 DEF AInv, ApprovalStands
  <2>. QED  BY <1>2, <2>4
<1>3. CASE outcome'.by = "packets"
  <2>1. packets.evidence = ReviewItems
    BY <1>1, <1>3, PacketWriteStep
  <2>. QED  BY <1>3, <2>1
<1>4. CASE outcome'.by # "agent" /\ outcome'.by # "packets"
  BY <1>4
<1>. QED  BY <1>2, <1>3, <1>4

LEMMA AInvHolds == ASSUME PartialReviews = FALSE PROVE Spec => []AInv
<1>1. AInv /\ [Next]_vars => AInv'
  BY ApprovalStep, IInvStep DEF AInv
<1>2. Init => AInv
  BY InitIInv, InitApproval DEF AInv
<1>. QED  BY <1>1, <1>2, PTL DEF Spec

\* Unless a refused change.review leaves good items behind, what is saved has been presented item
\* by item as it stands, judged, acknowledged, and begun from the stored project, for all batches,
\* page sizes and clients (Application.write, agent_write).
THEOREM SavedAsReviewedHolds == ASSUME PartialReviews = FALSE PROVE Spec => SavedAsReviewed
<1>1. AInv /\ [Next]_vars =>
          (Saves => /\ edition = base /\ operations \in Valid
                    /\ Missing = {} /\ \A n \in DOMAIN dispositions : dispositions[n] # "pending"
                    /\ DOMAIN shown' = DOMAIN ReviewItems
                    /\ \A i \in DOMAIN ReviewItems : shown'[i] = ReviewItems[i])
  BY SavedStep
<1>. QED  BY <1>1, AInvHolds, PTL DEF Spec, SavedAsReviewed

\* With the same reservation, what agent-write saves is what the agent, or the packets, allowed.
THEOREM AgentSavedAsAllowedHolds == ASSUME PartialReviews = FALSE PROVE Spec => AgentSavedAsAllowed
<1>1. AInv /\ [Next]_vars =>
          (Saves => CASE outcome'.by = "agent"   -> decision.evidence = ReviewItems
                      [] outcome'.by = "packets" -> packets.evidence = ReviewItems
                      [] OTHER -> TRUE)
  BY AllowedSavedStep
<1>. QED  BY <1>1, AInvHolds, PTL DEF Spec, AgentSavedAsAllowed

=============================================================================
