----------------------------- MODULE MCPublication -----------------------------
(* Small instances of Publication, and its refinement of ReviewedDocument. *)
EXTENDS Publication

Promise == INSTANCE ReviewedDocument WITH
    Original <- 0,
    doc      <- document.version,
    owed     <- {v \in Owed : scratch.recovery = v},
    parent   <- [v \in Version |-> IF v \in committed THEN reviewed[v].parent ELSE 0]

\* The files and leases implement the abstract promise: a durable snapshot is
\* owed until it is published, and only over the version it was reviewed against
\* (ProjectFiles.write, retry_export, Publisher.publish).
PromiseKept == Promise!Spec
===============================================================================
