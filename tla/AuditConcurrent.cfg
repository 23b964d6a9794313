SPECIFICATION Spec
CONSTANTS
  Workers = {w1, w2, w3}
  MaxEvents = 4
  MaxDay = 1
  Nobody = Nobody
INVARIANTS
  PredecessorIsCommitted
SYMMETRY WorkerSymmetry
CHECK_DEADLOCK FALSE
