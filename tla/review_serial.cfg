CONSTANTS
  t1 = t1
  c1 = c1
  c2 = c2
  c3 = c3
  Threads <- OneThread
  Calls <- ThreeCalls
  Edits <- BadEdits
  Checkpointer = "sqlite"
  AllowFallback = FALSE
  MaxFaults = 1
  Uploads <- AllUploads
  Overlap = FALSE
SPECIFICATION FairSpec
CHECK_DEADLOCK FALSE
INVARIANTS TypeOK StreamsAgree OutcomeLogged PausedIsAudited StatusAgrees CompletedIsWritten AnswerHonoured PolicyFailsClosed OutcomeInv
PROPERTIES TimestampsKept ClosedStaysClosed ImplementsCase EveryCallAnswered EveryRunSettles
