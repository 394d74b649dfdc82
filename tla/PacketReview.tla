----------------------------- MODULE PacketReview -----------------------------
(***************************************************************************)
(* The review of a change in packets (PacketReview in review_packets.py,   *)
(* with the commands of application.py that use it).  Each branch packet   *)
(* is judged; then the synthesis, which shows the results of the branches. *)
(*                                                                         *)
(* A fingerprint is what it is a fingerprint of.  A result is given with a *)
(* binding, which names the current plan and the current items or is       *)
(* refused, so what a request does depends on the review alone: clients    *)
(* differ in the cursors they hold.  Exported files are left out.          *)
(***************************************************************************)
EXTENDS Naturals, Sequences, FiniteSets, Functions

CONSTANTS
    Proposal,        \* the exact proposals, with their evidence, a session may have
    Synthesis,       \* the name of a packet
    Evidence(_),     \* the ordinals of a proposal's evidence
    First(_),        \* the ownership a plan of a proposal starts with: the ordinals of each packet
    Items(_, _, _),  \* of a proposal and an ownership, the items of a packet, except results
    Result,          \* well-formed results, records with a decision
    Client, PageSize,
    MaxPackets       \* bound on the packets that are divided further

Terminal == {r \in Result : r.decision \in {"allow", "block"}}

\* The packets that own an ordinal.
Owners(o, n) == {p \in DOMAIN o : n \in o[p]}

ASSUME ReviewAssumption ==
    /\ PageSize \in Nat \ {0}
    /\ \A p \in Proposal : Synthesis \in DOMAIN First(p) /\ DOMAIN First(p) \subseteq Seq(Nat)

\* partition puts each ordinal into one packet; there are finitely many.
ASSUME OwnershipAssumption ==
    \A p \in Proposal : /\ \A q \in DOMAIN First(p) : IsFiniteSet(First(p)[q])
                        /\ \A n \in Evidence(p) : \E q \in DOMAIN First(p) : Owners(First(p), n) = {q}

VARIABLES
    proposal,        \* what the session proposes, a part of its reference
    ownership,       \* packets and what they own; no packets before there is a plan
    results,         \* the result of each packet, if it has one
    cached,          \* cached_items: the items of each packet, if they have been asked for
    seen,            \* the positions presented of each packet, each with the items it is one of
    cursor,          \* the page each client would go on with, if any
    (* History, never read by an action's guard. *)
    delivered,       \* the items of each packet that clients were given
    blocked          \* the packets that were blocked

review == <<ownership, results, cached, seen, delivered, blocked>>
vars   == <<proposal, review, cursor>>

Packets == DOMAIN ownership
Planned == Packets # {}

Init == /\ proposal \in Proposal
        /\ ownership = [p \in {} |-> {}] /\ results = [p \in {} |-> {}] /\ cached = [p \in {} |-> {}]
        /\ seen = [p \in {} |-> {}] /\ delivered = [p \in {} |-> {}] /\ blocked = {}
        /\ cursor = [c \in Client |-> {}]

\* rebind: all starts over, with this ownership.
Rebind(o) == /\ ownership' = o /\ blocked' = {}
             /\ results' = [p \in DOMAIN o |-> {}] /\ cached' = [p \in DOMAIN o |-> {}]
             /\ seen' = [p \in DOMAIN o |-> {}] /\ delivered' = [p \in DOMAIN o |-> {}]

Allows(p) == \E r \in results[p] : r.decision = "allow"
BranchesAllowed == \A p \in Packets \ {Synthesis} : Allows(p)
Complete == Planned /\ BranchesAllowed /\ Allows(Synthesis)

BranchResults == [p \in Packets \ {Synthesis} |-> results[p]]

\* The results of the branches count as one item.
Fresh(p) == IF p = Synthesis THEN Append(Items(proposal, ownership, p), <<"results", BranchResults>>)
                             ELSE Items(proposal, ownership, p)
PacketItems(p) == IF cached[p] = {} THEN Fresh(p) ELSE CHOOSE items \in cached[p] : TRUE
Remembered(p)  == [cached EXCEPT ![p] = {PacketItems(p)}]

Presented(p, items) == Cardinality({s \in seen[p] : s[1] = items}) = Len(items)

-----------------------------------------------------------------------------
(* Requests. *)

\* Application.apply, review and review_context drop the plan; the proposal may come back.
Revise(p) == /\ proposal' = p /\ Rebind([q \in {} |-> {}])
             /\ UNCHANGED cursor

\* review.plan, also when its refinements are refused.
Plan == /\ ~Planned /\ Rebind(First(proposal))
        /\ UNCHANGED <<proposal, cursor>>

\* Mutant: the parts need only lie within the packet.
SubdividesLoosely(o, p, groups) ==
    /\ p \in DOMAIN o \ {Synthesis}
    /\ \A i \in DOMAIN groups : groups[i] # {} /\ groups[i] \subseteq o[p] /\ Append(p, i) \notin DOMAIN o \ {p}

\* refine: the parts of a branch are not empty, have new names and own each of its ordinals once.
Subdivides(o, p, groups) ==
    /\ p \in DOMAIN o \ {Synthesis}
    /\ \A i \in DOMAIN groups : groups[i] # {} /\ groups[i] \subseteq o[p] /\ Append(p, i) \notin DOMAIN o \ {p}
    /\ \A n \in o[p] : \E i \in DOMAIN groups : {j \in DOMAIN groups : n \in groups[j]} = {i}

\* The parts of a packet are named after it; a part may be divided again.
Refined(o, p, groups) ==
    [q \in (DOMAIN o \ {p}) \cup {Append(p, i) : i \in DOMAIN groups} |->
        IF q \in DOMAIN o \ {p} THEN o[q] ELSE groups[q[Len(q)]]]

\* review.plan with a refinement into two (several are made one after the other), or with an
\* empty list: the review of the same plan starts over.
ToRefine == IF Planned THEN ownership ELSE First(proposal)
Refine(p, groups) ==
    /\ Cardinality(DOMAIN ToRefine) < MaxPackets
    /\ \E n \in groups[1] : \A m \in groups[2] : n <= m
    /\ Subdivides(ToRefine, p, groups)
    /\ Rebind(Refined(ToRefine, p, groups))
    /\ UNCHANGED <<proposal, cursor>>
Restart == /\ Rebind(ToRefine)
           /\ UNCHANGED <<proposal, cursor>>

\* The pages of some items, and that they have been given to a client.
Numbered(items, range) == {<<items, i>> : i \in range}
Give(p, items, range) ==
    /\ seen' = [seen EXCEPT ![p] = @ \cup Numbered(items, range)]
    /\ delivered' = [delivered EXCEPT ![p] = @ \cup {items[i] : i \in range}]

Readable(p) == p \in Packets /\ (p = Synthesis => BranchesAllowed)
Place(p, items, offset) == [proposal |-> proposal, ownership |-> ownership, packet |-> p, items |-> items, offset |-> offset]

\* review.packet, from the start or from a cursor of exactly this packet.
Page(c, p, fresh) ==
    /\ Readable(p)
    /\ LET items == PacketItems(p)
           start == IF fresh THEN 0 ELSE (CHOOSE place \in cursor[c] : TRUE).offset
           last  == IF start + PageSize < Len(items) THEN start + PageSize ELSE Len(items)
       IN  /\ ~fresh => \E place \in cursor[c] : place = Place(p, items, place.offset)
           /\ Give(p, items, (start + 1) .. last)
           /\ cursor' = [cursor EXCEPT ![c] = {Place(p, items, n) : n \in {last} \cap 0 .. Len(items) - 1}]
    /\ cached' = Remembered(p)
    /\ UNCHANGED <<proposal, ownership, results, blocked>>

\* review.export reads all the pages.
Export(p) ==
    /\ Readable(p)
    /\ Give(p, PacketItems(p), DOMAIN PacketItems(p))
    /\ cached' = Remembered(p)
    /\ UNCHANGED <<proposal, ownership, results, blocked, cursor>>

\* Mutant: what was read before the failure counts.
Counted(before, after) == after
\* What counts as presented, after an export fails that had it counted.
Restored(before, after) == before

\* It fails after some pages: what it has read is forgotten again.
ExportFails(p, n) ==
    /\ Readable(p) /\ n \in DOMAIN PacketItems(p)
    /\ seen' = Restored(seen, [seen EXCEPT ![p] = @ \cup Numbered(PacketItems(p), 1 .. n)])
    /\ cached' = Remembered(p)
    /\ UNCHANGED <<proposal, ownership, results, delivered, blocked, cursor>>

\* A result that is refused, or a page of a bad cursor, may have had the items made.
Refused(p) ==
    /\ p \in Packets
    /\ cached' = Remembered(p)
    /\ UNCHANGED <<proposal, ownership, results, seen, delivered, blocked, cursor>>

\* Mutants: a later result replaces any other; the items of the synthesis are kept.
Replaceable(previous, result) == TRUE
KeptItems(p, items) == items

Recordable(previous, result) == \A r \in previous : r \in Terminal => r = result
\* The items cached after a result: those of the synthesis show the results of the branches.
Invalidated(p, items) == IF p = Synthesis THEN items ELSE [items EXCEPT ![Synthesis] = {}]

\* review.result, with the binding of the current items.
Record(p, result) ==
    /\ Readable(p)
    /\ Presented(p, PacketItems(p))
    /\ Recordable(results[p], result)
    /\ results' = IF p = Synthesis THEN [results EXCEPT ![p] = {result}]
                  ELSE [results EXCEPT ![p] = {result}, ![Synthesis] = {}]
    /\ cached' = Invalidated(p, Remembered(p))
    /\ blocked' = IF result.decision = "block" THEN blocked \cup {p} ELSE blocked
    /\ UNCHANGED <<proposal, ownership, seen, delivered, cursor>>

Next ==
    \/ \E p \in Proposal : Revise(p)
    \/ Plan
    \/ Restart
    \/ \E p \in DOMAIN ToRefine : \E part, rest \in SUBSET ToRefine[p] : Refine(p, <<part, rest>>)
    \/ \E p \in Packets :
          \/ \E c \in Client, fresh \in BOOLEAN : Page(c, p, fresh)
          \/ Export(p)
          \/ \E n \in DOMAIN PacketItems(p) : ExportFails(p, n)
          \/ Refused(p)
          \/ \E result \in Result : Record(p, result)

Spec == Init /\ [][Next]_vars

-----------------------------------------------------------------------------
(* Properties. *)

TypeOK == /\ proposal \in Proposal
          /\ Planned => Synthesis \in Packets
          /\ DOMAIN results = Packets /\ DOMAIN cached = Packets /\ DOMAIN seen = Packets /\ DOMAIN delivered = Packets
          /\ \A p \in Packets : results[p] \in {{}} \cup {{r} : r \in Result}

\* A packet has a result only if every item it holds now, and for the synthesis the results
\* of the branches as they are now, was given to a client under this plan (record, packet_items).
JudgedAsShown ==
    \A p \in Packets : results[p] # {} => \A i \in DOMAIN Fresh(p) : Fresh(p)[i] \in delivered[p]

\* When everything allows, each ordinal of the evidence was given to a client, in the one packet
\* that owns it, and the synthesis with the result of each branch (complete, partition, refine).
WholeReviewShown ==
    Complete =>
      /\ \A n \in Evidence(proposal) :
            \E p \in Packets : <<"owned", n>> \in delivered[p] /\ Owners(ownership, n) = {p}
      /\ <<"results", BranchResults>> \in delivered[Synthesis]

\* What was presented counts only if it was: also after an export that failed (export_packet).
PresentedWasGiven ==
    \A p \in Packets : \A s \in seen[p] : s[2] \in DOMAIN s[1] /\ s[1][s[2]] \in delivered[p]

\* The result of a branch that allows or blocks stands until the review starts over (record).
BranchesStand ==
    [][\A p \in Packets \ {Synthesis} : results[p] \cap Terminal # {} =>
          \/ p \in Packets' /\ results'[p] = results[p]
          \/ \A q \in Packets' : results'[q] = {} /\ seen'[q] = {}]_vars

\* A packet that was blocked does not come to allow before the review starts over.
BlocksStand == \A p \in blocked \cap Packets : ~Allows(p)
===============================================================================
