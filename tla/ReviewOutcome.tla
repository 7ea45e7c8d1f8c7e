------------------------------ MODULE ReviewOutcome ------------------------------
(***************************************************************************)
(* The review service when the calls of a thread do not overlap and the      *)
(* checkpoints survive a restart: how a thread comes to its outcome, one     *)
(* checkpoint after the other, and how the answers to its callers tell it.   *)
(* These are the inductive invariants, each with those before it, behind     *)
(* ClosedStaysClosed, CompletedIsWritten, ImplementsCase, AnswerHonoured and *)
(* StatusAgrees.                                                             *)
(***************************************************************************)
EXTENDS ReviewLifecycle, ReviewSerial

--------------------------------------------------------------------------------
(* The end of a thread. *)

\* A call that still is at a thread that has ended has nothing left to do.
EndOK(c) == Active(c) /\ Ended(T(c)) => inv[c].node = "END" /\ unsaved[c] = {}

\* A call that has returned before the end of its thread has left it to a reviewer.
PauseOK(c) ==
  inv[c].stage = "returned" /\ inv[c].node # "END" =>
    Interrupted(T(c)) \/ \E k \in unsaved[c] : k.paused

RespondedOK(c) ==
  http[c].code = 200 /\ http[c].status = "completed" =>
    /\ T(c) \in Threads /\ Ended(T(c))
    /\ http[c].final_status = ckpt[T(c)].values.final_status

\* The inductive invariant behind ClosedStaysClosed and CompletedIsWritten.
ClosedInv ==
  /\ \A c \in Calls : EndOK(c) /\ PauseOK(c) /\ RespondedOK(c)
  /\ \A t \in Threads : Ended(t) => Told(t, ckpt[t].values)

--------------------------------------------------------------------------------
(* The way to the outcome. *)

\* The saved checkpoint of c's thread and those c is still to save.
Trail(c) == unsaved[c] \cup {ckpt[T(c)]}

\* Checkpoint k of thread t may come right after x.
Follows(t, x, k) ==
  LET f == k.values.final_status IN
  CASE PhaseOf(k) = "awaiting" -> PhaseOf(x) = "screening"
    [] PhaseOf(k) = "settled" ->
         \/ PhaseOf(x) = "screening" /\ f \in Case!Automatic
         \/ PhaseOf(x) = "awaiting" /\ \E d \in Asked(t) : f = Verdict(d)
    [] PhaseOf(k) = "closed" -> PhaseOf(x) = "settled" /\ f = x.values.final_status
    [] OTHER -> PhaseOf(x) \in {"none", "screening"}

\* The trail is in order, and the node a call runs is the one its newest checkpoint names.
TrailOK(c) ==
  Active(c) =>
    /\ \A k \in unsaved[c] : k.answer = NoAnswer
    /\ \A k \in unsaved[c], x \in Trail(c) :
         /\ x.id < k.id
         /\ \A y \in unsaved[c] : y.id <= x.id \/ y.id >= k.id
         => Follows(T(c), x, k)
    /\ inv[c].stage \in Running =>
         \A x \in Trail(c) : (\A y \in unsaved[c] : y.id <= x.id) =>
           /\ x.next = inv[c].node /\ x.values = V(c)
           /\ x.paused <=> Resumes(c) /\ inv[c].node = "human_review"

\* What call c is about to settle its thread with: an outcome of the program's own, or
\* that of a decision somebody has asked for.
SettlesOK(c) ==
  LET i == inv[c] IN
  /\ Resumes(c) /\ i.stage \in Running \cup {"checked"} => i.answer.decision \in Asked(T(c))
  /\ /\ i.stage \in Running /\ Concluding(c)
     /\ NextNode(i.node, i.result) = "audit_and_report"
     => IF Resumes(c) THEN \E d \in Asked(T(c)) : i.result.final_status = Verdict(d)
        ELSE i.result.final_status \in Case!Automatic

\* The inductive invariant behind ImplementsCase.
CaseInv ==
  /\ \A c \in Calls : TrailOK(c) /\ SettlesOK(c)
  /\ \A t \in Threads : ckpt[t].answer # NoAnswer => ckpt[t].answer.decision \in Asked(t)

--------------------------------------------------------------------------------
(* Whose decision it is. *)

Carries(v, d) == v.decision = d /\ v.final_status = Verdict(d)

\* A resume works with its own answer, or with an older one that failed and will fail.
HonestOK(c) ==
  LET i == inv[c]
      k == ckpt[T(c)]
      d == http[c].asked
  IN  Resumes(c) =>
        /\ i.stage = "checked" => i.answer.decision = d
        /\ Active(c) /\ i.stage # "checked" =>
             i.node \in {"human_review", "audit_and_report", "END"}
        /\ Active(c) /\ i.node = "human_review" =>
             /\ unsaved[c] = {} /\ k.paused /\ k.values = V(c)
             /\ k.answer \in {NoAnswer, i.answer}
             /\ i.answer.decision = d \/ EditsFail(c)
             /\ i.stage = "raised" => EditsFail(c)
             /\ i.stage \in Running /\ Concluding(c) => Carries(i.result, d)
        /\ Active(c) /\ i.node \in {"audit_and_report", "END"} =>
             /\ Carries(V(c), d)
             /\ ~k.paused \/ unsaved[c] # {}
        /\ http[c].code = 200 => Carries(http[c], d)

\* An answer that LangGraph has recorded with an interrupt, and no call is at work with,
\* is one that failed.
RecordedOK(t) ==
  Interrupted(t) /\ ckpt[t].answer # NoAnswer =>
    \/ \E c \in Calls : T(c) = t /\ Active(c) /\ Resumes(c) /\ inv[c].stage # "checked"
    \/ ckpt[t].answer.edits = "unusable"

\* The inductive invariant behind AnswerHonoured.
HonestInv ==
  faults = 0 => /\ \A c \in Calls : HonestOK(c)
                /\ \A t \in Threads : RecordedOK(t)

--------------------------------------------------------------------------------
(* What is left of a thread. *)

\* A run that gives up without an outcome does so while it reads its document.
RunOK(c) ==
  LET i == inv[c] IN
  ~Resumes(c) /\ Active(c) =>
    /\ i.document # "missing"
    /\ V(c).printable /\ (Concluding(c) => i.result.printable)
    /\ i.stage = "raised" => i.node = "parse_and_chunk_clauses"
    /\ i.node \in {"ingest_contract", "parse_and_chunk_clauses"} =>
         /\ V(c).final_status = Null /\ runs[T(c)].final_status = Null
         /\ \A x \in Trail(c) : x.values.final_status = Null
         /\ i.node = "ingest_contract" /\ Concluding(c) => i.result.final_status = Null

\* With nobody at it, a thread has ended, or waits, or has no outcome.
RestOK(t) ==
  \/ Busy(t) \/ \E c \in Calls : T(c) = t /\ Resumes(c) /\ http[c].code = 500
  \/ Ended(t) \/ Interrupted(t)
  \/ ckpt[t].values.final_status = Null /\ runs[t].final_status = Null

\* A row is completed by the last step of its thread's last node.
CompletesOK(t) ==
  runs[t].completed_at =>
    \/ Ended(t)
    \/ \E c \in Calls : /\ T(c) = t
                        /\ At(c, "audit_and_report", "return") \/ At(c, "END", "returned")

\* The inductive invariant behind StatusAgrees.
RestInv ==
  faults = 0 => /\ \A c \in Calls : RunOK(c)
                /\ \A t \in Threads : RestOK(t) /\ CompletesOK(t)

--------------------------------------------------------------------------------
OutcomeInv == ClosedInv /\ CaseInv /\ HonestInv /\ RestInv
================================================================================
