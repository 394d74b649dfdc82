---------------------------- MODULE MCPacketReview ----------------------------
(***************************************************************************)
(* Two proposals: one whose evidence falls into two branches and the       *)
(* synthesis, and one that has a single branch.                            *)
(***************************************************************************)
EXTENDS PacketReview, TLC, SequencesExt

MCProposal  == {"two", "one"}
MCSynthesis == <<>>
MCFirst(p)  == IF p = "two" THEN <<>> :> {3, 6} @@ <<0>> :> {1, 4, 5} @@ <<1>> :> {2}
                            ELSE <<>> :> {3} @@ <<0>> :> {1, 2}
MCEvidence(p) == IF p = "two" THEN 1 .. 6 ELSE 1 .. 3

\* Ordinals 1 and 3 are operations; a branch shows those of the synthesis too.  Some context
\* follows what a packet owns.
Shared(o, p) == IF p = Synthesis THEN {} ELSE o[Synthesis] \cap {1, 3}
MCItems(c, o, p) ==
    LET Listed(kind, S) == [i \in 1 .. Cardinality(S) |-> <<kind, SetToSortSeq(S, <)[i]>>]
    IN  Listed("owned", o[p]) \o Listed("shared", Shared(o, p)) \o <<<<"context", c>>>>

MCResult == {[decision |-> d] : d \in {"allow", "block", "needs-context"}}
===============================================================================
