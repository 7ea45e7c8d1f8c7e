------------------------------- MODULE ReviewSafety ------------------------------
(***************************************************************************)
(* What the review service is to guarantee, stated over ReviewApi.           *)
(***************************************************************************)
EXTENDS ReviewApi, GraphSafety

--------------------------------------------------------------------------------
(* Answers and outcomes. *)

Resumed(c) == http[c].asked # Null /\ http[c].code = 200

\* A response that calls a run completed comes after everything was written: the thread
\* has ended, and its state, its report, its row and the response name one outcome.
CompletedIsWritten ==
  \A c \in Calls :
    LET t == T(c) IN
    http[c].code = 200 /\ http[c].status = "completed" =>
      /\ Ended(t)
      /\ runs[t].completed_at
      /\ reports[t].written
      /\ {ckpt[t].values.final_status, runs[t].final_status, reports[t].final_status}
           = {http[c].final_status}

\* A reviewer who gets a 200 gets the outcome of the decision they sent.
AnswerHonoured ==
  \A c \in Calls :
    faults = 0 /\ Resumed(c) => /\ http[c].decision = http[c].asked
                                /\ http[c].final_status = Verdict(http[c].asked)

\* A thread is resumed once: DEPLOYMENT.md and the 404's own text say a second
\* POST /api/resume of a thread gets a 404.
ResumedOnce ==
  \A c1, c2 \in Calls : c1 # c2 /\ Resumed(c1) /\ Resumed(c2) => T(c1) # T(c2)

\* Once a thread's end is saved nothing of that run changes any more: no row, event,
\* line, report or checkpoint.
ClosedStaysClosed ==
  [][\A t \in Threads :
       Ended(t) => UNCHANGED <<runs[t], events[t], log[t], reports[t], ckpt[t]>>]_vars

\* "Missing policy or invalid policy pack: fail closed into audit": a run whose policy
\* evaluation failed is never put before a reviewer and never approved.
PolicyFailsClosed ==
  \A t \in Threads :
    "policy_failed" \in Types(t) =>
      /\ Types(t) \cap {"human_review_pending", "auto_approved"} = {}
      /\ ckpt[t].values.final_status \in {"failed", Null}

\* "Model/API failure: fall back to the heuristic extractor when enabled, otherwise fail
\* closed into audit" (spec/02-system-design.md): no review after a failed extraction.
ExtractionFailsClosed ==
  \A t \in Threads :
    "extraction_failed" \in Types(t) =>
      Types(t) \cap {"human_review_pending", "auto_approved"} = {}

\* "Parser failure: mark document as needs_manual_parse": no run is given up without it.
EveryRunMarked ==
  \A c \in Calls : faults = 0 /\ http[c].code = 500 => runs[T(c)].final_status # Null

\* "100% of runs emit a decision trace and report" (spec/03-proof-to-contract-eval.md): a
\* run that a reviewer has decided gets its report.
EveryDecisionReported ==
  faults = 0 /\ Quiet =>
    \A t \in Threads : "human_review_completed" \in Types(t) => reports[t].written

\* No statement failed, the process did not stop, and no resume was answered with a 500.
Smooth == faults = 0 /\ \A c \in Calls : http[c].asked # Null => http[c].code # 500

\* With nobody active the inbox of GET /api/pending-reviews lists exactly the threads
\* that POST /api/resume accepts, if nothing went wrong.
InboxExact == Smooth /\ Quiet => PendingReviews = {t \in Threads : Interrupted(t)}

\* With nobody active and nothing gone wrong, GET /api/runs says what the audit store says:
\* interrupted for the runs of the inbox, completed with the row's final status for those
\* that were finalised.  The endpoint puts its answer together from both stores; what it says
\* while a run is under way is not covered.
StatusAgrees ==
  Smooth /\ Quiet =>
    \A t \in Threads :
      /\ RunStatus(t).status = "interrupted" <=> t \in PendingReviews
      /\ RunStatus(t).status = "completed" <=> runs[t].completed_at
      /\ runs[t].completed_at => RunStatus(t).final_status = runs[t].final_status

--------------------------------------------------------------------------------
(* The case a thread stands for, from its saved checkpoints and the decisions resumes  *)
(* asked for.  Every way to the end leads through audit_and_report.                   *)

PhaseOf(k) ==
  CASE k.next = "NONE" -> "none"
    [] k.paused -> "awaiting"
    [] k.next = "audit_and_report" -> "settled"
    [] k.next = "END" -> "closed"
    [] OTHER -> "screening"

OutcomeSoFar(k) ==
  IF PhaseOf(k) \in {"settled", "closed"} THEN k.values.final_status ELSE Null

Asked(t) == {http[c].asked : c \in {d \in Calls : T(d) = t}} \ {Null}

Case == INSTANCE ReviewCase WITH
  phase <- [t \in Threads |-> PhaseOf(ckpt[t])],
  outcome <- [t \in Threads |-> OutcomeSoFar(ckpt[t])],
  submitted <- [t \in Threads |-> Asked(t)]

\* The service implements ReviewCase, over crashes and failed statements, as long as the
\* calls of one thread do not overlap: one outcome per thread, given by the program or by
\* a submitted decision, never changed.
ImplementsCase == Case!CaseSpec

--------------------------------------------------------------------------------
(* Progress. *)

\* Every request is answered unless the process stops under it.
EveryCallAnswered ==
  \A c \in Calls : Active(c) ~> (http[c].code # 0 \/ inv[c].stage = "dead")

\* A run ends up with a report, in front of a reviewer, or with its caller told of an
\* error; only a stop of the process leaves it in between.
EveryRunSettles ==
  \A t \in Threads :
    runs[t].exists ~> \/ Interrupted(t)
                      \/ reports[t].written /\ runs[t].completed_at
                      \/ \E c \in Calls : T(c) = t /\ (http[c].code = 500 \/ inv[c].stage = "dead")
================================================================================
