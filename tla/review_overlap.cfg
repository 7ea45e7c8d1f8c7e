CONSTANTS
  t1 = t1
  c1 = c1
  c2 = c2
  c3 = c3
  Threads <- OneThread
  Calls <- ThreeCalls
  Edits <- RetriedEdits
  Checkpointer = "sqlite"
  AllowFallback = TRUE
  MaxFaults = 1
  Uploads <- Contract
  Overlap = TRUE
SPECIFICATION Spec
SYMMETRY CallSymmetry
CHECK_DEADLOCK FALSE
INVARIANTS GraphInv LifecycleInv PausedIsAudited InboxExact
PROPERTIES TimestampsKept
