SPECIFICATION FairSpec
CONSTANTS
  Client = {author}
  Node <- MCNode
  Proposal <- MCProposal
  Nothing <- MCNothing
  Affected <- MCAffected
  Direct <- MCDirect
  Context <- MCContext
  Evidence <- MCEvidence
  Lineage <- MCLineage
  Valid <- MCValid
  Supplements <- MCSupplements
  PageSize = 4
  MaxSessions = 1
  MaxEditions = 1
  PartialReviews = FALSE
PROPERTIES SessionEnds
CHECK_DEADLOCK FALSE
