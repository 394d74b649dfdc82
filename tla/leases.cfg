\* No rule on the operators: races, reuse of a host and every kind of I/O fault.
CONSTANTS
    None = None
    Proc = {p1, p2, h1}
    Host = {h1}
    MaxVersion = 2
    MaxFaults = 2
    IOFaults = {"refused", "torn", "unsynced"}
    ReuseUnpublished = TRUE
    RetryRaces = TRUE
    EditRaces = TRUE
SPECIFICATION Spec
INVARIANTS TypeOK OneWriter
PROPERTIES ScratchOnlyByHolder ReportsTrue
