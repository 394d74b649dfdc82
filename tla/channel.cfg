SPECIFICATION Spec
CONSTANTS
  Request <- MCRequest
  Saves <- MCSaves
  MaxSent = 3
  MaxFaults = 2
INVARIANTS RunAsSent ReadInOrder
PROPERTY ResponsesArrive
CHECK_DEADLOCK FALSE
