\* A live host begins again, and saves, while it keeps an unpublished snapshot.
CONSTANTS
    None = None
    Proc = {h1}
    Host = {h1}
    MaxVersion = 2
    MaxFaults = 1
    IOFaults = {"refused"}
    ReuseUnpublished = TRUE
    RetryRaces = FALSE
    EditRaces = FALSE
SPECIFICATION Spec
INVARIANT NoReviewedLoss
CHECK_DEADLOCK FALSE
