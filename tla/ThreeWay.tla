------------------------------- MODULE ThreeWay -------------------------------
(***************************************************************************)
(* Plans made from several graphs without changing any: the three-way      *)
(* merge of two graphs that grew from one base (merge.py) and the chunks   *)
(* of a bulk import (bulk.py).  A plan is applied later, through a         *)
(* reviewed change.                                                        *)
(***************************************************************************)
EXTENDS ReviewGraph

\* Mutant: our change wins.
SelectedOurs(b, o, t) == IF o = b THEN {t} ELSE {o}

\* What both sides make of an entity: the side that changed it, or whatever they agree on.
Selected(b, o, t) == IF o = t THEN {o} ELSE IF o = b THEN {t} ELSE IF t = b THEN {o} ELSE {}

Category(b, o, t) == IF b = {} THEN "addedDifferently"
                     ELSE IF o = {} \/ t = {} THEN "deletedAndModified" ELSE "modifiedDifferently"

AllIds(base, ours, theirs, entity) == UNION {DOMAIN g[entity] : g \in {base, ours, theirs}}
CrossKind(base, ours, theirs) == AllIds(base, ours, theirs, "nodes") \cap AllIds(base, ours, theirs, "edges")

\* _merge_kind: the merged records, each optional, and the conflicts, of one kind of entity.
MergeKind(base, ours, theirs, entity) ==
    LET ids == AllIds(base, ours, theirs, entity) \ CrossKind(base, ours, theirs)
        B(id) == ValueAt(base[entity], id)
        O(id) == ValueAt(ours[entity], id)
        T(id) == ValueAt(theirs[entity], id)
        kept == {id \in ids : \E v \in Selected(B(id), O(id), T(id)) : v # {}}
    IN  [records   |-> [id \in kept |-> CHOOSE v \in UNION Selected(B(id), O(id), T(id)) : TRUE],
         conflicts |-> {<<Category(B(id), O(id), T(id)), id>> : id \in {i \in ids : Selected(B(i), O(i), T(i)) = {}}}]

\* Metadata cannot be merged: it must be the same in all three.
MetadataConflicts(base, ours, theirs) ==
    IF base.purpose = ours.purpose /\ ours.purpose = theirs.purpose THEN {} ELSE {<<"projectMetadataChanged", 0>>}

MergeProjects(base, ours, theirs) ==
    LET nodes  == MergeKind(base, ours, theirs, "nodes")
        edges  == MergeKind(base, ours, theirs, "edges")
        merged == [purpose |-> base.purpose, nodes |-> nodes.records, edges |-> edges.records]
        conflicts == MetadataConflicts(base, ours, theirs) \cup nodes.conflicts \cup edges.conflicts
                        \cup {<<"entityKindChanged", id>> : id \in CrossKind(base, ours, theirs)}
    IN  IF conflicts # {} THEN [status |-> "conflicted", conflicts |-> conflicts]
        ELSE [status |-> IF IsValid(merged) THEN "clean" ELSE "invalid",
              merged |-> merged, operations |-> OperationsBetween(ours, merged)]

-----------------------------------------------------------------------------
(* plan_bulk: a manifest is a sequence of operations for distinct entities. *)

\* Mutant: a chunk that is not the last stops one operation early.
ChunkShort(manifest, size, start) ==
    SubSeq(manifest, start + 1, IF start + size < Len(manifest) THEN start + size - 1 ELSE Len(manifest))
Chunk(manifest, size, start) == SubSeq(manifest, start + 1, IF start + size < Len(manifest) THEN start + size ELSE Len(manifest))

Starts(manifest, size) == {k * size : k \in 0 .. Len(manifest)} \cap 0 .. Len(manifest) - 1

\* The graph after so many chunks, while each chunk is admitted and forms a valid graph.  There
\* are at most as many chunks as operations; those past the end are empty.
Checkpoints(g, manifest, size) ==
    LET after[k \in 0 .. Len(manifest)] ==
            IF k = 0 THEN {g}
            ELSE {h \in UNION {ProjectGraph(x, Chunk(manifest, size, (k - 1) * size)) : x \in after[k - 1]} : IsValid(h)}
    IN  after

\* The chunk a cursor points at, and where the next cursor points; refused unless all chunks
\* form checkpoints, the entities are distinct and the cursor is one of this manifest.
PlanBulk(g, manifest, size, start) ==
    IF /\ start \in Starts(manifest, size)
       /\ Cardinality({manifest[i].id : i \in DOMAIN manifest}) = Len(manifest)
       /\ Checkpoints(g, manifest, size)[Len(manifest)] # {}
    THEN {[operations |-> Chunk(manifest, size, start),
           next |-> {n \in {start + size} : n < Len(manifest)}]}
    ELSE {}
=============================================================================
