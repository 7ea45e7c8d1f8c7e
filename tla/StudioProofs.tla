------------------------------- MODULE StudioProofs -----------------------------
(***************************************************************************)
(* The audit trail, and what a thread is left with, when anybody calls the   *)
(* graph: used threads, missing files, answers nobody has looked at.  The    *)
(* steps of the graph are those of the service; only the ways in and out of  *)
(* it differ, and that no two calls of a thread overlap.                     *)
(***************************************************************************)
EXTENDS ReviewStudio, GraphProofs

\* Every way into the graph and out of it keeps GraphInv, whatever the thread has been
\* through and whatever the answer is.
LEMMA CallerKeeps ==
  ASSUME GraphInv, NEW c \in Calls,
         InvokeWithPath(c) \/ InvokeWithAnswer(c) \/ Leave(c)
  PROVE  GraphInv'
<1>1. CASE InvokeWithPath(c)
  BY <1>1, StartKeeps DEF InvokeWithPath
<1>2. CASE InvokeWithAnswer(c)
  <2>1. PICK t \in Threads, a \in Answers : Resume(c, t, a)
    BY <1>2 DEF InvokeWithAnswer
  <2>2. a \in AnswersOrNone
    BY DEF AnswersOrNone
  <2> QED BY <1>2, <2>1, <2>2, ResumeKeeps DEF InvokeWithAnswer
<1>3. CASE Leave(c)
  BY <1>3, OverKeeps DEF Leave
<1> QED BY <1>1, <1>2, <1>3

\* GraphInv holds of every behaviour of the graph under direct callers.
THEOREM StudioInvariance == Spec => []GraphInv
<1>1. Init => GraphInv
  BY InitInv DEF Init
<1>2. GraphInv /\ [Next]_vars => GraphInv'
  <2> SUFFICES ASSUME GraphInv, [Next]_vars
               PROVE  GraphInv'
    OBVIOUS
  <2>1. ASSUME NEW c \in Calls, InvokeWithPath(c) \/ InvokeWithAnswer(c) \/ Leave(c)
        PROVE  GraphInv'
    BY <2>1, CallerKeeps
  <2>2. ASSUME NEW c \in Calls, NodeStep(c) \/ Save(c) \/ StatementFails(c)
        PROVE  GraphInv'
    BY <2>2, NodeStepKeeps, SaveKeeps, FaultKeeps
  <2>3. CASE Crash
    BY <2>3, CrashKeeps
  <2>4. CASE UNCHANGED vars
    BY <2>4, StutterKeeps DEF vars
  <2> QED BY <2>1, <2>2, <2>3, <2>4 DEF Next
<1> QED BY <1>1, <1>2, PTL DEF Spec

\* Every variable keeps its type under direct callers.
THEOREM StudioTypeCorrect == Spec => []TypeOK
<1>1. GraphInv => TypeOK
  BY DEF GraphInv, TypeOK
<1> QED BY <1>1, StudioInvariance, PTL

\* No saved state, report or row shows an outcome that the event table does not account
\* for, even when a used thread is invoked with another document.
THEOREM StudioOutcomeLogged == Spec => []OutcomeLogged
<1>1. GraphInv => OutcomeLogged
  BY DEF GraphInv
<1> QED BY <1>1, StudioInvariance, PTL

--------------------------------------------------------------------------------
(* One call of a thread at a time. *)

\* The ways in and out of the graph keep the calls of a thread apart, and leave an ended
\* thread told.
LEMMA CallerSerial ==
  ASSUME GraphInv, SerialInv, SettledInv, NEW c \in Calls,
         InvokeWithPath(c) \/ InvokeWithAnswer(c) \/ Leave(c)
  PROVE  SerialInv' /\ SettledInv'
<1>1. ShapeInv /\ CallOK(c) /\ inv \in [Calls -> Invocation]
  BY DEF SerialInv, GraphInv, GraphTypeOK
<1>2. CASE InvokeWithPath(c)
  <2>1. PICK t \in Threads, doc \in Documents :
          inv[c].stage = "idle" /\ ~Busy(t) /\ Start(c, t, doc)
    BY <1>2 DEF InvokeWithPath
  <2>2. ~Active(c)
    BY <2>1 DEF Active, Running
  <2>3. ShapeInv'
    BY <1>1, <2>1, ShapeStart
  <2> QED BY <2>1, <2>2, <2>3, SerialStart, SettledBegins
<1>3. CASE InvokeWithAnswer(c)
  <2>1. PICK t \in Threads, a \in Answers :
          inv[c].stage = "idle" /\ ~Busy(t) /\ Interrupted(t) /\ Resume(c, t, a)
    BY <1>3 DEF InvokeWithAnswer
  <2>2. ~Active(c) /\ \A d \in Calls : d # c /\ Active(d) => T(d) # t
    BY <2>1 DEF Active, Running, Busy
  <2>3. ShapeInv'
    BY <1>1, <2>1, ShapeResume
  <2> QED BY <2>1, <2>2, <2>3, SerialResume, SettledBegins
<1>4. CASE Leave(c)
  <2>1. /\ inv[c].stage \in {"returned", "raised"} /\ unsaved[c] = {}
        /\ inv' = [inv EXCEPT ![c] = Over(c, "done")]
        /\ UNCHANGED <<storeVars, ckptVars, faults>>
    BY <1>4 DEF Leave
  <2>2. ShapeInv'
    BY <1>1, <2>1, ShapeOver
  <2> QED BY <2>1, <2>2, SerialOver, SettledOver
<1> QED BY <1>2, <1>3, <1>4

\* What a call knows of its thread, and what it leaves behind, hold of every behaviour of
\* the graph under direct callers.
THEOREM StudioSerialInvariance == Spec => [](GraphInv /\ SerialInv /\ SettledInv)
<1>1. Init => SerialInv /\ SettledInv
  BY SerialInit, SettledInit DEF Init
<1>2. GraphInv /\ SerialInv /\ SettledInv /\ [Next]_vars => SerialInv' /\ SettledInv'
  <2> SUFFICES ASSUME GraphInv, SerialInv, SettledInv, [Next]_vars
               PROVE  SerialInv' /\ SettledInv'
    OBVIOUS
  <2>1. ASSUME NEW c \in Calls, InvokeWithPath(c) \/ InvokeWithAnswer(c) \/ Leave(c)
        PROVE  SerialInv' /\ SettledInv'
    BY <2>1, CallerSerial
  <2>2. ASSUME NEW c \in Calls, NodeStep(c) \/ Save(c) \/ StatementFails(c)
        PROVE  SerialInv' /\ SettledInv'
    BY <2>2, SerialGraphStep, SettledGraphStep
  <2>3. CASE Crash
    <3>1. ShapeInv'
      BY <2>3, ShapeCrash DEF SerialInv
    <3> QED BY <2>3, <3>1, SerialCrash, SettledCrash
  <2>4. CASE UNCHANGED vars
    BY <2>4, SerialStutter, SettledStutter DEF vars
  <2> QED BY <2>1, <2>2, <2>3, <2>4 DEF Next
<1> QED BY <1>1, <1>2, StudioInvariance, PTL DEF Spec

\* When nobody is active and nothing has failed, a thread that has ended is told the same
\* way by its state, its report and its row, and is not before a reviewer.
THEOREM StudioEndedAgrees == Spec => []EndedAgrees
<1>1. SettledInv => EndedAgrees
  <2> SUFFICES ASSUME SettledInv, faults = 0, Quiet, NEW t \in Threads, Ended(t)
               PROVE  /\ reports[t].written /\ runs[t].completed_at
                      /\ {runs[t].final_status, reports[t].final_status}
                           = {ckpt[t].values.final_status}
                      /\ ckpt[t].values.final_status # Null
                      /\ t \notin PendingReviews
    BY DEF EndedAgrees
  <2>1. Told(t, ckpt[t].values)
    BY DEF SettledInv, SettledOK, Busy, Quiet
  <2> QED BY <2>1 DEF Told, Decided, ReportTells, RowTells, PendingReviews
<1> QED BY <1>1, StudioSerialInvariance, PTL

\* A document that was never found goes from its ingestion straight to the report, with
\* the row and the report saying so, whatever its thread has been through before.
THEOREM StudioMissingIsNeverReviewed == Spec => []MissingIsNeverReviewed
<1>1. SerialInv => MissingIsNeverReviewed
  <2> SUFFICES ASSUME SerialInv, NEW c \in Calls, inv[c].document = "missing"
               PROVE  /\ inv[c].node \in {"ingest_contract", "audit_and_report", "END"}
                      /\ At(c, "audit_and_report", "finalize") =>
                           runs[T(c)].route = "audit_only"
                             /\ reports[T(c)].final_status = "failed"
    BY DEF MissingIsNeverReviewed
  <2>1. MissingOK(c) /\ WritesOK(c)
    BY DEF SerialInv, SoleCallOK
  <2> QED BY <2>1 DEF MissingOK, WritesOK, At, Running, ReportTells, V
<1> QED BY <1>1, StudioSerialInvariance, PTL

--------------------------------------------------------------------------------
(* Timestamps. *)

\* The steps that write a row.
LEMMA StudioRowWriters ==
  ASSUME [Next]_vars
  PROVE  \/ UNCHANGED runs
         \/ \E c \in Calls :
              IngestContract(c) \/ SetPending(c) \/ SetCompleted(c) \/ Finalize(c)
<1>1. ASSUME NEW c \in Calls, InvokeWithPath(c) \/ InvokeWithAnswer(c) \/ Leave(c)
      PROVE  UNCHANGED runs
  BY <1>1 DEF InvokeWithPath, Start, InvokeWithAnswer, Resume, Leave, storeVars
<1>2. ASSUME NEW c \in Calls, Save(c) \/ StatementFails(c)
      PROVE  UNCHANGED runs
  BY <1>2 DEF Save, StatementFails, storeVars
<1>3. ASSUME NEW c \in Calls, NodeStep(c)
      PROVE  \/ UNCHANGED runs
             \/ IngestContract(c) \/ SetPending(c) \/ SetCompleted(c) \/ Finalize(c)
  BY <1>3 DEF NodeStep, ParseAndChunkClauses, ExtractDetailsAndFlagRisk, CheckPolicyRules,
              AutoAdvanceStandardCases, SelectPending, Pause, SelectCompleted, Decide,
              RefuseAnswer, AuditAndReport, ReportFails, Insert, Line, Return, storeVars
<1>4. Crash \/ UNCHANGED vars => UNCHANGED runs
  BY DEF Crash, vars, storeVars
<1> QED BY <1>1, <1>2, <1>3, <1>4 DEF Next

\* No step takes a timestamp back: a review transition writes the ones it has read, and
\* while calls do not overlap those are the row's.
LEMMA StudioKeepsTimes ==
  ASSUME GraphInv, SerialInv, [Next]_vars, NEW t \in Threads
  PROVE  /\ runs[t].exists => runs'[t].exists
         /\ runs[t].interrupted_at => runs'[t].interrupted_at
         /\ runs[t].resumed_at => runs'[t].resumed_at
         /\ runs[t].completed_at => runs'[t].completed_at
<1> DEFINE Kept == /\ runs[t].exists => runs'[t].exists
                   /\ runs[t].interrupted_at => runs'[t].interrupted_at
                   /\ runs[t].resumed_at => runs'[t].resumed_at
                   /\ runs[t].completed_at => runs'[t].completed_at
<1>1. ASSUME NEW c \in Calls,
             IngestContract(c) \/ SetPending(c) \/ SetCompleted(c) \/ Finalize(c)
      PROVE  inv[c].stage \in Running /\ T(c) \in Threads /\ runs \in [Threads -> Row]
             /\ WritesOK(c)
  <2>1. inv[c].stage \in Running
    BY <1>1 DEF IngestContract, SetPending, SetCompleted, Finalize, At, Running
  <2> QED BY <2>1, SerialFacts
<1>2. ASSUME NEW c \in Calls, IngestContract(c) PROVE Kept
  <2>1. PICK u \in Threads : T(c) = u
    BY <1>1, <1>2
  <2>2. runs \in [Threads -> Row] /\ \E f, r : RegisterRun(u, f, r)
    BY <1>1, <1>2, <2>1 DEF IngestContract, IngestFound, IngestMissing
  <2> QED BY <2>2, RegisterFields
<1>3. ASSUME NEW c \in Calls, SetPending(c) \/ SetCompleted(c) PROVE Kept
  <2>1. PICK u \in Threads : T(c) = u
    BY <1>1, <1>3
  <2> DEFINE status == IF inv[c].stage = "set_pending" THEN "pending" ELSE "completed"
             read == inv[c].read
  <2>2. UpdateReviewStatus(u, status, read)
    BY <1>3, <2>1 DEF SetPending, SetCompleted, At
  <2>3. read.interrupted_at = runs[u].interrupted_at /\ read.resumed_at = runs[u].resumed_at
    BY <1>1, <1>3, <2>1 DEF WritesOK, SetPending, SetCompleted, At
  <2> HIDE DEF status, read
  <2>4. runs \in [Threads -> Row]
    BY <1>1, <1>3
  <2>5. /\ \A x \in Threads : x # u => runs'[x] = runs[x]
        /\ runs'[u].exists = runs[u].exists /\ runs'[u].completed_at = runs[u].completed_at
        /\ read.interrupted_at => runs'[u].interrupted_at
        /\ read.resumed_at => runs'[u].resumed_at
    BY <2>2, <2>4, TransitionFields
  <2> QED BY <2>3, <2>5
<1>4. ASSUME NEW c \in Calls, Finalize(c) PROVE Kept
  <2>1. PICK u \in Threads : T(c) = u
    BY <1>1, <1>4
  <2>2. FinalizeRun(u, V(c)) /\ runs[u].exists /\ runs \in [Threads -> Row]
    BY <1>1, <1>4, <2>1 DEF Finalize, At, WritesOK
  <2> QED BY <2>2, FinalizeFields
<1> QED BY <1>2, <1>3, <1>4, StudioRowWriters

\* interrupted_at, resumed_at and completed_at are never taken back, on threads used any
\* number of times.
THEOREM StudioTimestampsKept == Spec => TimestampsKept
<1> DEFINE Kept == \A t \in Threads :
                     /\ runs[t].exists => runs'[t].exists
                     /\ runs[t].interrupted_at => runs'[t].interrupted_at
                     /\ runs[t].resumed_at => runs'[t].resumed_at
                     /\ runs[t].completed_at => runs'[t].completed_at
<1>1. GraphInv /\ SerialInv /\ SettledInv /\ [Next]_vars => [Kept]_runs
  BY StudioKeepsTimes
<1> QED BY <1>1, StudioSerialInvariance, PTL DEF Spec, TimestampsKept
================================================================================
