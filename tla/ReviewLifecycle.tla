----------------------------- MODULE ReviewLifecycle -----------------------------
(***************************************************************************)
(* The life of a thread of the review service: one call of run_contract      *)
(* makes it and may put it before a reviewer; calls of resume_contract, any  *)
(* number and in any order, take it from there.  These are the invariants,   *)
(* each inductive with those before it, behind what ReviewSafety promises of *)
(* the inbox, the timestamps and a failed policy evaluation.                 *)
(***************************************************************************)
EXTENDS ReviewSafety

\* A call of resume_contract that has found the thread interrupted.
Resumes(c) == http[c].asked # Null

\* No other call is about c's thread.
Alone(c) == \A d \in Calls \ {c} : T(d) # T(c)

Untouched(t) ==
  /\ runs[t] = NoRow /\ events[t] = {} /\ log[t] = {} /\ reports[t] = NoReport
  /\ ckpt[t] = NoCheckpoint

PendingLogged(t) == \E e \in log[t] : e.type = "human_review_pending"

\* The thread has been put before a reviewer, and its row is that of one.
PutForward(t) ==
  /\ runs[t].exists /\ runs[t].interrupted_at /\ PendingLogged(t)
  /\ runs[t].review_status = "pending" \/ runs[t].resumed_at

\* Checkpoint k of thread t comes after a review.
Reviewed(t, k) ==
  /\ k.next \in {"audit_and_report", "END"}
  /\ k.values.review_status = "completed"
  /\ runs[t].resumed_at

--------------------------------------------------------------------------------
(* A call of run_contract. *)

\* The run is marked as pending, and its call about to log that, or to pause.
Marking(c) == Writing(c, {"human_review_pending"}) \/ inv[c].stage = "interrupt"

RunnerOK(c) ==
  LET i == inv[c]
      t == T(c)
  IN  /\ i.answer = NoAnswer /\ i.stage # "checked"
      /\ \A k \in unsaved[c] : k.id > ckpt[t].id
      /\ \A k \in unsaved[c] : k.paused =>
           PutForward(t) /\ \A other \in unsaved[c] : other.id <= k.id
      /\ ckpt[t].paused \/ ~Alone(c) => unsaved[c] = {}
      /\ i.stage \in Running \cup {"raised"} =>
           /\ Alone(c) /\ ~ckpt[t].paused /\ \A k \in unsaved[c] : ~k.paused
           /\ ~runs[t].resumed_at
      /\ i.stage \in Running /\ ~At(c, "ingest_contract", "body") => runs[t].exists
      /\ i.stage \in Running /\ Marking(c) =>
           /\ runs[t].interrupted_at /\ runs[t].review_status = "pending"
           /\ i.stage = "interrupt" => PendingLogged(t)
      /\ i.stage \in Running /\ ~Marking(c) => runs[t].review_status # "pending"
      /\ i.stage = "raised" => faults > 0 \/ runs[t].review_status # "pending"
      /\ i.stage \in Running =>
           V(c).review_status # "pending" /\ i.result.review_status # "pending"
      /\ i.stage = "set_pending" => ~i.read.resumed_at
      /\ i.stage = "return" => i.node # "human_review"

--------------------------------------------------------------------------------
(* A call of resume_contract. *)

\* Call c has seen to it that the row says the review was resumed.
PastResumed(c) ==
  LET i == inv[c] IN
  \/ i.stage \in {"set_pending", "decide"}
  \/ Writing(c, {"human_review_resumed", "human_review_completed"})
  \/ i.stage = "return"
  \/ i.node \in {"audit_and_report", "END"}

ResumerOK(c) ==
  LET i == inv[c]
      t == T(c)
  IN  /\ t \in Threads /\ PutForward(t)
      /\ Active(c) =>
           /\ i.answer # NoAnswer
           /\ ckpt[t].paused \/ Reviewed(t, ckpt[t])
           /\ \A k \in unsaved[c] : ~k.paused /\ Reviewed(t, k)
           /\ i.stage = "checked" => unsaved[c] = {}
      /\ i.stage \in Running \cup {"returned"} =>
           /\ i.node \in {"human_review", "audit_and_report", "END"}
           /\ PastResumed(c) => runs[t].resumed_at
           /\ i.stage = "returned" => i.node = "END"
           /\ i.node \in {"audit_and_report", "END"} =>
                /\ V(c).review_status = "completed"
                /\ ~ckpt[t].paused \/ \E k \in unsaved[c] : k.id > ckpt[t].id
           /\ \/ Writing(c, {"human_review_completed", "report_written"})
              \/ i.stage \in {"return", "finalize"}
              => i.result.review_status = "completed"
      /\ i.stage = "set_pending" => i.read.resumed_at
      /\ i.stage = "set_completed" => i.read.interrupted_at

--------------------------------------------------------------------------------
(* All of them. *)

RoleOK(c) ==
  /\ inv[c].stage = "idle" => T(c) = Null /\ ~Resumes(c)
  /\ Active(c) \/ inv[c].stage = "idle" => http[c].code = 0
  /\ Active(c) /\ ~Resumes(c) => RunnerOK(c)
  /\ Resumes(c) => ResumerOK(c)

\* One call of run_contract a thread.
OneRunner ==
  \A c, d \in Calls : c # d /\ T(c) = T(d) /\ T(c) # Null => Resumes(c) \/ Resumes(d)

ThreadOK(t) ==
  /\ (\A c \in Calls : T(c) # t) => Untouched(t)
  /\ ckpt[t].paused => PutForward(t)

\* The inductive invariant behind PausedIsAudited and TimestampsKept.
LifecycleInv ==
  /\ ShapeInv
  /\ \A c \in Calls : RoleOK(c)
  /\ OneRunner
  /\ \A t \in Threads : ThreadOK(t)

--------------------------------------------------------------------------------
(* The inbox. *)

\* Call c is going to finalise its thread's row, or to pause.
Owing(c) ==
  /\ inv[c].stage \in Running
  /\ Resumes(c) => ~At(c, "audit_and_report", "return")

\* The thread waits for a reviewer, or will once its checkpoints are saved.
Awaits(t) ==
  Interrupted(t) \/ \E c \in Calls : T(c) = t /\ \E k \in unsaved[c] : k.paused

\* A thread that waits has a row that is pending, unless somebody is at it; and a row that
\* is pending has a thread that waits or somebody to see to it.
InboxOK(t) ==
  /\ Awaits(t) =>
       \/ runs[t].review_status = "pending"
       \/ \E c \in Calls : T(c) = t /\ Resumes(c) /\ Active(c) /\ inv[c].stage # "checked"
  /\ runs[t].review_status = "pending" =>
       \/ \E c \in Calls : T(c) = t /\ (Owing(c) \/ (Resumes(c) /\ inv[c].stage = "raised"))
       \/ /\ Awaits(t)
          /\ \A c \in Calls : T(c) = t /\ Resumes(c) => inv[c].stage = "checked"

\* The inductive invariant behind InboxExact.
InboxInv == Smooth => \A t \in Threads : InboxOK(t)

--------------------------------------------------------------------------------
(* A policy evaluation that fails. *)

\* Call c has not got to the policy's decision.
BeforePolicy(c) ==
  \/ inv[c].node \in {"ingest_contract", "parse_and_chunk_clauses",
                      "extract_details_and_flag_risk"}
  \/ /\ inv[c].node = "check_policy_rules"
     /\ inv[c].stage \in {"body", "insert"} \/ inv[c].event.type = "policy_evaluated"

\* Call c, of a thread whose policy evaluation has failed, goes on to the report.
FailsClosed(c) ==
  /\ \A k \in unsaved[c] : k.values.final_status \in {"failed", Null}
  /\ inv[c].stage \in Running =>
       /\ inv[c].node \in {"check_policy_rules", "audit_and_report"}
       /\ inv[c].node = "check_policy_rules" =>
            /\ inv[c].stage \in {"line", "return"}
            /\ inv[c].event.type = "policy_failed"
            /\ inv[c].result.final_status = "failed"
            /\ inv[c].result.route = "audit_only"
       /\ inv[c].node = "audit_and_report" =>
            /\ V(c).final_status = "failed"
            /\ inv[c].stage # "body" => inv[c].result = V(c)

PolicyHolds(t) ==
  "policy_failed" \in Types(t) =>
    /\ Types(t) \cap {"human_review_pending", "auto_approved"} = {}
    /\ ckpt[t].values.final_status \in {"failed", Null}
    /\ \A c \in Calls : T(c) = t => FailsClosed(c)

\* The call has put together what its node is to return.
Returning(c) == inv[c].stage \in {"insert", "line", "return"}

PolicyCallOK(c) ==
  LET i == inv[c]
      t == T(c)
  IN  i.stage \in Running /\ ~Resumes(c) =>
        /\ BeforePolicy(c) =>
             /\ Types(t) \cap {"human_review_pending", "auto_approved", "policy_failed"} = {}
             /\ ckpt[t].values.final_status \in {"failed", Null}
             /\ \A k \in unsaved[c] : k.values.final_status \in {"failed", Null}
             /\ V(c).final_status \in {"failed", Null}
             /\ Returning(c) =>
                  \/ i.result.final_status \in {"failed", Null}
                  \/ i.node = "parse_and_chunk_clauses" /\ i.result.parse_status # "parsed"
        /\ i.node = "check_policy_rules" =>
             /\ Types(t) \cap {"human_review_pending", "auto_approved"} = {}
             /\ Returning(c) /\ i.event.type = "policy_failed" =>
                  i.result.final_status = "failed" /\ i.result.route = "audit_only"

\* The inductive invariant behind PolicyFailsClosed.
PolicyInv ==
  /\ \A t \in Threads : PolicyHolds(t)
  /\ \A c \in Calls : PolicyCallOK(c)
================================================================================
