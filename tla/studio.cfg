CONSTANTS
  t1 = t1
  c1 = c1
  c2 = c2
  c3 = c3
  Threads <- OneThread
  Calls <- ThreeCalls
  Edits <- AllEdits
  Checkpointer = "sqlite"
  AllowFallback = FALSE
  MaxFaults = 1
SPECIFICATION Spec
SYMMETRY CallSymmetry
CHECK_DEADLOCK FALSE
INVARIANTS TypeOK OutcomeLogged SerialInv EndedAgrees MissingIsNeverReviewed
PROPERTIES TimestampsKept
