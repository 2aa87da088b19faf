SPECIFICATION MissionSpec
CONSTANTS
  n1 = n1  n2 = n2  d1 = d1
  Nodes = {n1, n2}
  MissionIds = {d1}
  None = None
  Ambiguity = TRUE
  MaxTerm = 2
INVARIANTS DispatchedOnce WorkIsTracked OutcomeIsReal
PROPERTIES ImplementsWorkItems
SYMMETRY NodeSymmetry
CHECK_DEADLOCK FALSE
