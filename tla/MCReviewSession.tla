---------------------------- MODULE MCReviewSession ----------------------------
(* A purpose p with children a and b, and a reviewed edge from a to b. *)
EXTENDS ReviewSession, TLC

\* "edit" replaces a, "other" replaces b, "broken" removes b's only scope edge.
MCNode     == {"a", "b", "p"}
MCProposal == {"nothing", "edit", "other", "broken"}
MCNothing  == "nothing"
MCAffected == [x \in MCProposal |->
    CASE x = "nothing" -> <<>>
      [] x = "edit"    -> <<"a", "b">>
      [] x = "other"   -> <<"b">>
      [] x = "broken"  -> <<"b", "p">>]
MCDirect   == [x \in MCProposal |->
    CASE x = "edit" -> {"a"} [] x = "other" -> {"b"} [] OTHER -> {}]
MCContext  == [x \in MCProposal |-> IF x \in {"edit", "other"} THEN <<"p">> ELSE <<>>]
\* b is affected by each batch, changed by one.
MCEvidence == [x \in MCProposal |-> [n \in MCNode |->
    IF <<x, n>> \in {<<"edit", "a">>, <<"other", "b">>} THEN "changed" ELSE "unchanged"]]
\* p is the scope of a and b, or of b alone.
MCLineage  == [x \in MCProposal |-> [n \in MCNode |-> IF x = "other" THEN "of b" ELSE "of a, b"]]
MCValid    == {"nothing", "edit", "other"}
MCSupplements == {<<>>, <<"edge">>}

Clients == Permutations(Client)
===============================================================================
