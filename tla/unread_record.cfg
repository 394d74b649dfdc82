\* A host saves again after one recovery record was cut short, and the second save is not published.
CONSTANTS
    None = None
    Proc = {h1}
    Host = {h1}
    MaxVersion = 3
    MaxFaults = 1
    IOFaults = {"torn"}
    ReuseUnpublished = FALSE
    RetryRaces = FALSE
    EditRaces = FALSE
SPECIFICATION Spec
PROPERTY RetainedIsReadable
CHECK_DEADLOCK FALSE
