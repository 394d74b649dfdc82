\* Under the rules the findings show to be needed, no reviewed work is lost, and what is retained gets published.
CONSTANTS
    None = None
    Proc = {p1, h1}
    Host = {h1}
    MaxVersion = 3
    MaxFaults = 1
    IOFaults = {"refused", "torn"}
    ReuseUnpublished = FALSE
    RetryRaces = FALSE
    EditRaces = FALSE
SPECIFICATION FairSpec
INVARIANTS NoReviewedLoss FailedNeverPublished BareCandidateIsPublished
PROPERTIES NoLostUpdate PromiseKept CommandsEnd RetryPublishes
