--------------------------- MODULE ReviewedDocument ---------------------------
(***************************************************************************)
(* What managed publication promises about one project document, with no   *)
(* processes, files or leases: the document holds one complete version, a  *)
(* reviewed snapshot is accepted together with the version it was reviewed *)
(* against, an accepted snapshot is owed until the document becomes it,    *)
(* and the document becomes it only from exactly that version.             *)
(***************************************************************************)
CONSTANTS Version,     \* names of document contents
          Original     \* the content before anything happens

VARIABLES doc,         \* the content of the document
          owed,        \* accepted snapshots the document has never held
          parent       \* what each accepted snapshot was reviewed against

vars == <<doc, owed, parent>>

Init == /\ doc = Original
        /\ owed = {}
        /\ parent = [v \in Version |-> Original]

\* A reviewed snapshot becomes durable.
Accept(v, b) == /\ owed = {}
                /\ owed' = {v}
                /\ parent' = [parent EXCEPT ![v] = b]
                /\ UNCHANGED doc

\* The document becomes an owed snapshot, from the version it was reviewed
\* against and no other.
Publish(v) == /\ v \in owed
              /\ doc = parent[v]
              /\ doc' = v
              /\ owed' = owed \ {v}
              /\ UNCHANGED parent

\* Somebody edits the file, or exports another project over it.
Replace(v) == /\ doc' = v
              /\ v \notin owed
              /\ UNCHANGED <<owed, parent>>

Next == \/ \E v \in Version, b \in Version \cup {Original} : Accept(v, b)
        \/ \E v \in Version : Publish(v)
        \/ \E v \in Version : Replace(v)

Spec == Init /\ [][Next]_vars
===============================================================================
