SPECIFICATION Spec
CONSTANTS
  Client = {c1, c2}
  Path = {"db", "copy"}
  Start <- MCStart
  New <- MCNew
  Batches <- MCBatches
  Satisfies <- MCSatisfies
SYMMETRY MCSymmetry
INVARIANTS StoredIsSound LoadsAreWhole LegalBatchesApply
PROPERTY CommitsReplaceTheirBase
CHECK_DEADLOCK FALSE
