CONSTANTS
  t1 = t1
  c1 = c1
  c2 = c2
  c3 = c3
  Threads <- OneThread
  Calls <- ThreeCalls
  Edits <- BadEdits
  Checkpointer = "sqlite"
  AllowFallback = FALSE
  MaxFaults = 1
  Uploads <- AllUploads
  Overlap = FALSE
SPECIFICATION Spec
CHECK_DEADLOCK FALSE
INVARIANT InboxSurvivesFaults
