SPECIFICATION Spec
CONSTANTS
  Base <- Bases
  Edit <- Edits
  TheirEdit <- TheirEdits
  MaxMine = 3
  MaxTheirs = 1
  Parsed <- MCParsed
INVARIANTS ValidIsScopeTree ClosuresAgree OrderDoesNotMatter ImpactCovers ExplanationsHold PacketsFollowScope PacketsShowContext MergeTakesBothSides ChunksCompose PathsAreShortest ScopeReadsAreComplete ConditionsMatch VerdictsAreExplained InconclusiveWhenUndefined
CHECK_DEADLOCK FALSE
