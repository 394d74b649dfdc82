----------------------------- MODULE ReviewSession -----------------------------
(***************************************************************************)
(* One reviewed change session of an NDJSON host: Application and Session  *)
(* (application.py).                                                       *)
(*                                                                         *)
(* Requests are executed one at a time, but several clients of the host    *)
(* (an author, a reviewer) prepare them from what they read earlier.  Each *)
(* carries the reference its client holds, and a request whose reference   *)
(* is not the session's own is refused.  Other programs may change the     *)
(* stored project at any time.                                             *)
(*                                                                         *)
(* What a batch of operations affects is a constant here: it is a function *)
(* of the base graph and the batch (Session._analyze).  A fingerprint is   *)
(* represented by what it is a fingerprint of.                             *)
(***************************************************************************)
EXTENDS Naturals, Sequences, FiniteSets

CONSTANTS
    Client,              \* who sends requests to the host
    Node,                \* the nodes some batch affects, or brings as context
    Proposal,            \* batches of operations
    Nothing,             \* the empty batch
    Affected,            \* [Proposal -> Seq(Node)], in order of node ID
    Direct,              \* [Proposal -> SUBSET Node]
    Context,             \* [Proposal -> Seq(Node)], in order of node ID
    Evidence,            \* [Proposal -> [Node -> current and proposed node]]
    Lineage,             \* [Proposal -> [Node -> current and proposed node, and lineages]]
    Valid,               \* batches with a valid proposed graph that satisfies the rules
    Supplements,         \* the sequences of further evidence clients may register
    PageSize,            \* limit of change.preview
    MaxSessions,         \* bound on sessions begun
    MaxEditions,         \* bound on changes of the stored project
    PartialReviews       \* a refused change.review may hold good items before the refused one

ASSUME BatchAssumption == /\ Nothing \in Proposal
                          /\ Affected \in [Proposal -> Seq(Node)]
                          /\ Context \in [Proposal -> Seq(Node)]
                          /\ Direct \in [Proposal -> SUBSET Node]
                          /\ Valid \subseteq Proposal
                          /\ Affected[Nothing] = <<>> /\ Context[Nothing] = <<>>
ASSUME SizeAssumption  == /\ PageSize \in Nat \ {0}
                          /\ MaxSessions \in Nat /\ MaxEditions \in Nat
                          /\ PartialReviews \in BOOLEAN
ASSUME SupplementAssumption == \A s \in Supplements : s \in Seq({s[i] : i \in DOMAIN s})

VARIABLES
    edition,        \* the stored project: how often it has changed
    running,        \* the host has not been told to exit
    active,         \* a session is open
    session,        \* its sessionId; the last one's when none is open
    base,           \* the edition it began from
    operations,     \* its batch
    skip,           \* skip_dependencies
    dispositions,   \* of the affected nodes
    presented,      \* presented_context
    supplemental,   \* registered further evidence
    seen,           \* preview_seen: positions of review items
    decision,       \* agent_decision
    packets,        \* packet_review: the evidence it was planned for, and all packets allow
    held,           \* the reference each client holds
    page,           \* where its cursor for that reference points
    (* History, never read by an action's guard. *)
    judged,         \* the evidence each disposition was given on
    acknowledged,   \* the lineage each context node was acknowledged with
    shown,          \* the item last shown at each position in seen
    outcome         \* how the last session ended, and by which command

request == <<held, page>>
proposal == <<operations, skip>>
review  == <<dispositions, presented, supplemental, judged, acknowledged>>
approval == <<seen, shown, decision, packets>>
vars    == <<edition, running, active, session, base, proposal, review, approval, request, outcome>>

NoDecision == [verdict |-> "none"]
NoPackets  == [planned |-> FALSE]
Open       == [how |-> "open", by |-> "nobody"]

Elements(s) == {s[i] : i \in DOMAIN s}

\* Like @@ of TLC, which the proof system cannot expand.
Over(new, old) == [x \in DOMAIN new \cup DOMAIN old |-> IF x \in DOMAIN new THEN new[x] ELSE old[x]]

\* What the session would show a client as its reference.
Reference == [session |-> session, base |-> base, operations |-> operations, skip |-> skip,
              dispositions |-> dispositions, presented |-> presented,
              supplemental |-> supplemental]

\* Dependency review covers the affected nodes; a skipped one covers none.
Reviewed(batch, skipped) == IF skipped THEN {} ELSE Elements(Affected[batch])
Upstream(batch, skipped) == IF skipped THEN {} ELSE Elements(Context[batch])

\* The exact evidence, in order.  The operations stand for everything that
\* depends on the batch alone: edge changes, diagnostics and rule evidence.
Item(kind, about, value) == [kind |-> kind, about |-> about, value |-> value]
Operations(batch) ==
    IF batch = Nothing THEN <<>> ELSE <<Item("operations", batch, batch)>>
Items(batch, skipped, kinds, further) ==
    IF skipped THEN Operations(batch)
    ELSE LET nodes   == Affected[batch]
             context == Context[batch]
         IN Operations(batch)
              \o [i \in DOMAIN nodes |-> Item("affected", nodes[i], Evidence[batch][nodes[i]])]
              \o [i \in DOMAIN context |-> Item("context", context[i], Lineage[batch][context[i]])]
              \o [i \in DOMAIN nodes |-> Item("disposition", nodes[i], kinds[nodes[i]])]
              \o [i \in DOMAIN further |-> Item("supplemental", batch, further[i])]
ReviewItems == Items(operations, skip, dispositions, supplemental)

Pending  == {n \in Reviewed(operations, skip) : dispositions[n] = "pending"}
Missing  == Upstream(operations, skip) \ presented
Ready    == operations \in Valid /\ Pending = {} /\ Missing = {}
\* The code compares how many were presented.
Complete == ReviewItems # <<>> /\ Cardinality(seen) = Len(ReviewItems)

Init == /\ edition = 0 /\ running = TRUE
        /\ active = FALSE /\ session = 0 /\ base = 0
        /\ operations = Nothing /\ skip = FALSE
        /\ dispositions = <<>> /\ presented = {} /\ supplemental = <<>>
        /\ judged = <<>> /\ acknowledged = <<>>
        /\ seen = {} /\ shown = <<>>
        /\ decision = NoDecision /\ packets = NoPackets
        /\ held = [c \in Client |-> Reference] /\ page = [c \in Client |-> 0]
        /\ outcome = Open
-------------------------------------------------------------------------------
(* Opening, reading and changing the session. *)

\* The request names the open session exactly, and nobody changed the project.
Current(c) == active /\ running /\ edition = base /\ held[c] = Reference

\* The client takes the reference the response carries.  A cursor is bound to
\* the reference it was given under.
Take(c) == /\ held' = [held EXCEPT ![c] = Reference']
           /\ page' = IF Reference' = held[c] THEN page ELSE [page EXCEPT ![c] = 0]

\* Mutants: what was shown, or planned, survives a change of the review.
ForgetApproval == decision' = NoDecision /\ packets' = NoPackets /\ UNCHANGED <<seen, shown>>
ForgetPreview  == seen' = {} /\ shown' = <<>> /\ decision' = NoDecision /\ UNCHANGED packets

\* Whatever was presented or decided was so for the review as it stood.
Forget == seen' = {} /\ shown' = <<>> /\ decision' = NoDecision /\ packets' = NoPackets

\* Mutants of Kept and KeptContext: the evidence is not compared; nor is it
\* asked whether the node still is context.
KeptNodes(batch, skipped) ==
    IF skip # skipped THEN {} ELSE Reviewed(batch, skipped) \cap DOMAIN dispositions
KeptLineages(batch, skipped) ==
    IF skip # skipped THEN {} ELSE Upstream(batch, skipped) \cap presented

\* Session.rebuild: a judgement is kept while its node has the same evidence.
Kept(batch, skipped) ==
    IF skip # skipped THEN {}
    ELSE {n \in Reviewed(batch, skipped) \cap DOMAIN dispositions :
             Evidence[batch][n] = Evidence[operations][n]}
KeptContext(batch, skipped) ==
    IF skip # skipped THEN {}
    ELSE {n \in Upstream(batch, skipped) \cap presented :
             Lineage[batch][n] = Lineage[operations][n]}
Rebuild(batch, skipped) ==
    /\ operations' = batch /\ skip' = skipped
    /\ dispositions' = [n \in Reviewed(batch, skipped) |->
                           IF n \in Kept(batch, skipped) THEN dispositions[n] ELSE "pending"]
    /\ judged' = [n \in Kept(batch, skipped) \cap DOMAIN judged |-> judged[n]]
    /\ presented' = KeptContext(batch, skipped)
    /\ acknowledged' = [n \in KeptContext(batch, skipped) |-> acknowledged[n]]

Begin(c) ==
    /\ running /\ ~active /\ session < MaxSessions
    /\ active' = TRUE /\ session' = session + 1 /\ base' = edition
    /\ operations' = Nothing /\ skip' = FALSE
    /\ dispositions' = <<>> /\ presented' = {} /\ supplemental' = <<>>
    /\ judged' = <<>> /\ acknowledged' = <<>>
    /\ Forget
    /\ outcome' = Open
    /\ UNCHANGED <<edition, running>>
    /\ Take(c)

\* change.show needs only the session's ID.
Show(c) ==
    /\ active /\ running /\ held[c] # Reference
    /\ UNCHANGED <<edition, running, active, session, base, proposal, review, approval, outcome>>
    /\ Take(c)

\* change.apply, change.patch and change.expand: the batch is replaced.
Apply(c, batch, skipped) ==
    /\ Current(c)
    /\ skipped => batch # Nothing
    /\ Rebuild(batch, skipped)
    /\ supplemental' = <<>>
    /\ Forget
    /\ UNCHANGED <<edition, running, active, session, base, outcome>>
    /\ Take(c)

-------------------------------------------------------------------------------
(* Reviewing. *)

\* Only a node of the batch can have been updated by it.
Judgements == {"pending", "noChange", "updated"}
Admissible(given) == \A n \in DOMAIN given : given[n] = "updated" => n \in Direct[operations]
Recorded(given) ==
    /\ dispositions' = Over(given, dispositions)
    /\ judged' = Over([n \in DOMAIN given |-> Evidence[operations][n]], judged)

Review(c, given, context) ==
    /\ Current(c) /\ ~skip
    /\ Admissible(given)
    /\ Recorded(given)
    /\ presented' = presented \cup context
    /\ acknowledged' = Over([n \in context |-> Lineage[operations][n]], acknowledged)
    /\ IF <<dispositions, presented>>' = <<dispositions, presented>>
       THEN UNCHANGED approval
       ELSE Forget
    /\ UNCHANGED <<edition, running, active, session, base, proposal, supplemental, outcome>>
    /\ Take(c)

\* An item of the request is refused: those before it have been recorded, and
\* the client, who gets an error, keeps its reference.
ReviewRejected(c, given) ==
    /\ given # <<>> => PartialReviews
    /\ Current(c) /\ ~skip
    /\ Admissible(given)
    /\ Recorded(given)
    /\ UNCHANGED <<edition, running, active, session, base, proposal, presented, supplemental,
                   acknowledged, approval, request, outcome>>

\* change.review-context replaces the further evidence.
ReviewContext(c, further) ==
    /\ Current(c) /\ ~skip
    /\ supplemental' = further
    /\ Forget
    /\ UNCHANGED <<edition, running, active, session, base, proposal, dispositions, presented,
                   judged, acknowledged, outcome>>
    /\ Take(c)

\* A page of change.preview, from the start or from the client's cursor.
Preview(c, offset) ==
    /\ Current(c)
    /\ LET last == IF offset + PageSize < Len(ReviewItems) THEN offset + PageSize
                                                           ELSE Len(ReviewItems)
       IN /\ seen' = seen \cup (offset + 1)..last
          /\ shown' = Over([i \in (offset + 1)..last |-> ReviewItems[i]], shown)
          /\ page' = [page EXCEPT ![c] = IF last < Len(ReviewItems) THEN last ELSE 0]
    /\ UNCHANGED <<edition, running, active, session, base, proposal, review, decision, packets,
                   held, outcome>>

\* agent-review: a second, different decision is refused.
AgentReview(c, verdict) ==
    /\ Current(c) /\ Ready /\ Complete
    /\ LET candidate == [verdict |-> verdict, binding |-> Reference, evidence |-> shown]
       IN /\ decision = NoDecision
          /\ decision' = candidate
    /\ UNCHANGED <<edition, running, active, session, base, proposal, review, seen, shown, packets,
                   request, outcome>>

\* review.plan; refining it starts its packets over and drops a decision.
Plan(c, refined) ==
    /\ Current(c) /\ ~skip /\ Ready /\ ReviewItems # <<>>
    /\ packets' = IF packets = NoPackets
                  THEN [planned |-> TRUE, evidence |-> ReviewItems, allowed |-> FALSE]
                  ELSE IF refined THEN [packets EXCEPT !.allowed = FALSE] ELSE packets
    /\ decision' = IF refined THEN NoDecision ELSE decision
    /\ UNCHANGED <<edition, running, active, session, base, proposal, review, seen, shown,
                   request, outcome>>

\* review.result: all packets and the synthesis come to allow, or no longer do.
PacketResult(c, allowed) ==
    /\ Current(c) /\ packets.planned
    /\ packets' = [packets EXCEPT !.allowed = allowed]
    /\ UNCHANGED <<edition, running, active, session, base, proposal, review, seen, shown, decision,
                   request, outcome>>

-------------------------------------------------------------------------------
(* Ending the session. *)

Ends(how, by) == active' = FALSE /\ outcome' = [how |-> how, by |-> by]

\* Application.write, once its checks have passed.  The store compares the
\* project with the base once more; the session outlives a refusal or failure.
Store(by) ==
    \/ /\ edition < MaxEditions /\ edition' = edition + 1 /\ Ends("written", by)
    \/ /\ Ends("unpublished", by) /\ UNCHANGED edition
    \/ /\ edition < MaxEditions /\ edition' = edition + 1    \* another program was faster,
                                                             \* or saved but not read back
       /\ UNCHANGED <<active, outcome>>
    \/ UNCHANGED <<edition, active, outcome>>                \* busy or failed

Write(c) ==
    /\ Current(c) /\ Ready /\ Complete
    /\ Store("write")
    /\ UNCHANGED <<running, session, base, proposal, review, approval, request>>

\* agent-write after a decision of the reviewing agent.
AgentAllows == decision.verdict = "allow" /\ decision.binding = Reference
AgentWrite(c) ==
    /\ Current(c) /\ Ready /\ Complete
    /\ ~skip => ~packets.planned /\ AgentAllows
    /\ Store(IF skip THEN "write" ELSE "agent")
    /\ UNCHANGED <<running, session, base, proposal, review, approval, request>>

\* agent-write under a packet plan: the packets presented the evidence.
PacketWrite(c) ==
    /\ Current(c) /\ ~skip /\ packets.planned /\ packets.allowed
    /\ seen' = DOMAIN ReviewItems /\ shown' = packets.evidence
    /\ IF Ready THEN Store("packets") ELSE UNCHANGED <<edition, active, outcome>>
    /\ UNCHANGED <<running, session, base, proposal, review, decision, packets, request>>

Discard(c) ==
    /\ Current(c)
    /\ Ends("discarded", "nobody")
    /\ UNCHANGED <<edition, running, session, base, proposal, review, approval, request>>

\* Application.close: the host exits and its sessions go with it.
HostExit ==
    /\ running /\ running' = FALSE
    /\ IF active THEN Ends("discarded", "nobody") ELSE UNCHANGED <<active, outcome>>
    /\ UNCHANGED <<edition, session, base, proposal, review, approval, request>>

\* Another program saves a change of the project.
OutsideWrite ==
    /\ edition < MaxEditions /\ edition' = edition + 1
    /\ UNCHANGED <<running, active, session, base, proposal, review, approval, request, outcome>>

Judging(nodes) == UNION {[given -> Judgements] : given \in SUBSET nodes}

Next ==
    \/ HostExit \/ OutsideWrite
    \/ \E c \in Client :
        \/ Begin(c) \/ Show(c) \/ Discard(c)
        \/ Write(c) \/ AgentWrite(c) \/ PacketWrite(c)
        \/ \E batch \in Proposal, skipped \in BOOLEAN : Apply(c, batch, skipped)
        \/ \E given \in Judging(DOMAIN dispositions) :
             \/ \E context \in SUBSET Upstream(operations, skip) : Review(c, given, context)
             \/ ReviewRejected(c, given)
        \/ \E further \in Supplements : ReviewContext(c, further)
        \/ \E offset \in {0, page[c]} : Preview(c, offset)
        \/ \E verdict \in {"allow", "block"} : AgentReview(c, verdict)
        \/ \E flag \in BOOLEAN : Plan(c, flag) \/ PacketResult(c, flag)

Spec == Init /\ [][Next]_vars

\* What a client that wants the session gone can rely on: its own requests are
\* eventually made and answered, and nobody asks the host to exit.
FairSpec == Spec /\ \A c \in Client : WF_vars(Show(c)) /\ SF_vars(Discard(c))
-------------------------------------------------------------------------------
(* What must be true. *)

\* The session's parts fit each other: dispositions are of the nodes under review, a node that
\* is not pending was judged, acknowledged context is context, nothing is planned for a skipped
\* review (Session, application.py:40-66).
TypeOK ==
    /\ edition \in 0..MaxEditions /\ base \in 0..edition /\ session \in 0..MaxSessions
    /\ running \in BOOLEAN /\ active \in BOOLEAN /\ skip \in BOOLEAN
    /\ operations \in Proposal /\ supplemental \in Supplements \cup {<<>>}
    /\ dispositions \in [Reviewed(operations, skip) -> Judgements]
    /\ \A n \in DOMAIN dispositions : dispositions[n] # "pending" => n \in DOMAIN judged
    /\ presented \subseteq Upstream(operations, skip) /\ acknowledged = [n \in presented |-> acknowledged[n]]
    /\ \/ packets = NoPackets
       \/ ~skip /\ packets = [planned |-> TRUE, evidence |-> packets.evidence, allowed |-> packets.allowed]
    /\ page \in [Client -> Nat]

\* A judgement in force was given on the node's current evidence, however often
\* the batch was replaced in between (Session.rebuild keeps and drops them).
JudgementsStand ==
    \A n \in DOMAIN dispositions :
        dispositions[n] # "pending" => judged[n] = Evidence[operations][n]

\* Acknowledged scope context is acknowledged with its current lineage.
ContextStands ==
    \A n \in presented : acknowledged[n] = Lineage[operations][n]

Saves == active /\ outcome'.how \in {"written", "unpublished"} /\ ~active'

\* A session is saved onto the project it began from, and only with every item
\* of the review, exactly as it stands then, presented since its last change;
\* with every affected node judged and all its context acknowledged
\* (Application.write; docs/cli_usage.md, change.write).
SavedAsReviewed ==
    [][Saves => /\ edition = base /\ operations \in Valid
                /\ Missing = {} /\ \A n \in DOMAIN dispositions : dispositions[n] # "pending"
                /\ DOMAIN shown' = DOMAIN ReviewItems
                /\ \A i \in DOMAIN ReviewItems : shown'[i] = ReviewItems[i]]_vars

\* What agent-write saves is what the agent was shown when it allowed it: by
\* its own decision, or by the packets' results (Application.agent_write).
AgentSavedAsAllowed ==
    [][Saves => CASE outcome'.by = "agent"   -> decision.evidence = ReviewItems
                  [] outcome'.by = "packets" -> packets.evidence = ReviewItems
                  [] OTHER -> TRUE]_vars

\* docs/cli_usage.md:200: change.discard abandons the in-memory proposal.
SessionEnds == active ~> ~active
===============================================================================
