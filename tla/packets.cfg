SPECIFICATION Spec
CONSTANTS
  Proposal <- MCProposal
  Synthesis <- MCSynthesis
  Evidence <- MCEvidence
  First <- MCFirst
  Items <- MCItems
  Result <- MCResult
  Client = {c1}
  PageSize = 2
  MaxPackets = 4
INVARIANTS JudgedAsShown PresentedWasGiven WholeReviewShown
PROPERTY BranchesStand
CHECK_DEADLOCK FALSE
