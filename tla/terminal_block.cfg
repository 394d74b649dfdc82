SPECIFICATION Spec
CONSTANTS
  Proposal <- MCProposal
  Synthesis <- MCSynthesis
  Evidence <- MCEvidence
  First <- MCFirst
  Items <- MCItems
  Result <- MCResult
  Client = {c1}
  PageSize = 2
  MaxPackets = 4
INVARIANT BlocksStand
CHECK_DEADLOCK FALSE
