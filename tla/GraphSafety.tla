------------------------------- MODULE GraphSafety ------------------------------
(***************************************************************************)
(* What the workflow is to guarantee of the audit store and the saved        *)
(* threads, whoever calls the graph.                                         *)
(***************************************************************************)
EXTENDS ReviewGraph

Quiet == \A c \in Calls : ~Active(c)
Ended(t) == ckpt[t].next = "END"
Types(t) == {e.type : e \in events[t]}

--------------------------------------------------------------------------------
(* The audit trail. *)

\* Call e.by is between the two writes of append_event for event e of thread t.
BetweenWrites(e, t) ==
  LET i == inv[e.by] IN
  i.stage = "line" /\ i.thread = t /\ i.event.type = e.type /\ i.event.info = e.info

\* The two event streams of append_event: a line of events.jsonl always has its row in
\* table events, and a row without its line is one some call is about to write, unless
\* a fault came between the two.
StreamsAgree ==
  \A t \in Threads :
    /\ log[t] \subseteq events[t]
    /\ \A e \in events[t] \ log[t] : faults > 0 \/ BetweenWrites(e, t)

\* The events of a run, E, account for a final status f with review decision d.
Accounts(E, f, d) ==
  CASE f = "failed" ->
         \E e \in E : e.type \in {"ingest_failed", "extraction_failed", "policy_failed"}
    [] f = "needs_manual_parse" -> \E e \in E : e.type = "parse_unsupported"
    [] f = "approved_automatically" ->
         d = "auto_approve" /\ \E e \in E : e.type = "auto_approved"
    [] OTHER -> \E e \in E :
                  e.type = "human_review_completed" /\ e.info = d /\ Verdict(d) = f

\* Channel values that show an outcome only if the events E account for it.
Backed(E, v) == v.final_status # Null => Accounts(E, v.final_status, v.decision)

\* No outcome without its event: whatever final status the saved state of a thread, its
\* report or its row shows, the event table says how it came about, faults and overlapping
\* calls included.  (register_run writes "failed" into a row before append_event says
\* why, so a row is asked for every other status.)
OutcomeLogged ==
  \A t \in Threads :
    /\ Backed(events[t], ckpt[t].values)
    /\ reports[t].written => Backed(events[t], reports[t])
    /\ runs[t].final_status \notin {"failed", Null} =>
         \E d \in Words \cup {"auto_approve", Null} :
           Accounts(events[t], runs[t].final_status, d)

\* interrupted_at, resumed_at and completed_at of a run (audit.py keeps what it finds,
\* "or now") are never taken back, whatever register_run, finalize_run and the review
\* transitions of several calls overwrite.
TimestampsKept ==
  [][\A t \in Threads :
       /\ runs[t].exists => runs'[t].exists
       /\ runs[t].interrupted_at => runs'[t].interrupted_at
       /\ runs[t].resumed_at => runs'[t].resumed_at
       /\ runs[t].completed_at => runs'[t].completed_at]_runs

\* A thread that waits for a reviewer says so in the audit store too: the run was marked
\* as interrupted and both streams have human_review_pending, before anybody can answer.
PausedIsAudited ==
  \A t \in Threads :
    Interrupted(t) =>
      /\ runs[t].interrupted_at
      /\ \E e \in log[t] : e.type = "human_review_pending"

--------------------------------------------------------------------------------
(* The reviewers' inbox. *)

\* Faults or not, with nobody active every thread that waits for a reviewer is in the
\* inbox of GET /api/pending-reviews: what REVIEW.md promises of the endpoint.
InboxSurvivesFaults ==
  Quiet => \A t \in Threads : Interrupted(t) => t \in PendingReviews

\* When nobody is active and nothing failed, a thread that has ended is told the same way
\* by its state, its report and its row, and is no longer before a reviewer.
EndedAgrees ==
  faults = 0 /\ Quiet => \A t \in Threads : Ended(t) =>
    /\ reports[t].written /\ runs[t].completed_at
    /\ {runs[t].final_status, reports[t].final_status} = {ckpt[t].values.final_status}
    /\ ckpt[t].values.final_status # Null
    /\ t \notin PendingReviews

--------------------------------------------------------------------------------
(* The inductive invariant: what each call carries between the store and the           *)
(* checkpoints keeps StreamsAgree and OutcomeLogged going.                             *)

\* An active call has a thread; an event about to be written is one, and its row is
\* there before its line; values, update and unsaved checkpoints are backed by the
\* thread's events, the update as soon as the event that comes with it is written.
CallOK(c) ==
  LET i == inv[c]
      E == events[i.thread]
  IN  /\ Active(c) =>
           /\ i.thread \in Threads
           /\ Backed(E, i.values)
           /\ i.stage \in Running \ {"insert"} => Backed(E, i.result)
      /\ i.stage = "insert" => Backed(E \cup {Written(c)}, i.result)
      /\ i.stage = "line" => Written(c) \in E
      /\ i.stage \in {"insert", "line"} => i.event.type \in EventTypes
      /\ i.stage \in {"idle", "checked"} => unsaved[c] = {}
      /\ \A k \in unsaved[c] : i.thread \in Threads /\ Backed(E, k.values)

GraphInv ==
  /\ StoreTypeOK /\ CkptTypeOK /\ GraphTypeOK
  /\ \A c \in Calls : CallOK(c)
  /\ StreamsAgree
  /\ OutcomeLogged
--------------------------------------------------------------------------------
(* The shape of a call and of the checkpoints: how stage, node and event of a call go  *)
(* together, and that ids tell checkpoints apart.                                      *)

\* The events each node may append.
EventsOf(node) ==
  CASE node = "ingest_contract" -> {"ingested", "ingest_failed"}
    [] node = "parse_and_chunk_clauses" -> {"parsed", "parse_unsupported"}
    [] node = "extract_details_and_flag_risk" -> {"extracted", "extraction_failed"}
    [] node = "check_policy_rules" -> {"policy_evaluated", "policy_failed"}
    [] node = "auto_advance_standard_cases" -> {"auto_approved"}
    [] node = "human_review" ->
         {"human_review_pending", "human_review_resumed", "human_review_completed"}
    [] node = "audit_and_report" -> {"report_written"}
    [] OTHER -> {}

\* Call c is writing an event of one of these types.
Writing(c, types) == inv[c].stage \in {"insert", "line"} /\ inv[c].event.type \in types

\* A call that is past the answer to its interrupt.
PastAnswer(c) ==
  \/ inv[c].stage \in {"set_completed", "decide"}
  \/ Writing(c, {"human_review_resumed", "human_review_completed"})

ShapeOK(c) ==
  LET i == inv[c] IN
  /\ i.stage \in Running => i.node \in Nodes
  /\ i.stage \in {"insert", "line"} => i.event.type \in EventsOf(i.node)
  /\ i.stage \in {"set_pending", "interrupt", "set_completed", "decide"} =>
       i.node = "human_review"
  /\ i.stage = "finalize" => i.node = "audit_and_report"
  /\ i.stage = "returned" => i.node \in {"human_review", "END"}
  /\ PastAnswer(c) => i.answer # NoAnswer
  /\ unsaved[c] # {} => Active(c)

\* Checkpoints of call c that are still to be saved.
UnsavedOK(c) ==
  /\ \A k \in unsaved[c] : k.id <= clock /\ k.next # "NONE" /\ (k.paused => k.next = "human_review")
  /\ \A k1, k2 \in unsaved[c] : k1.id = k2.id => k1 = k2

SavedOK(t) ==
  /\ ckpt[t].id <= clock
  /\ ckpt[t].paused => ckpt[t].next = "human_review"

ShapeInv ==
  /\ \A c \in Calls : ShapeOK(c) /\ UnsavedOK(c)
  /\ \A t \in Threads : SavedOK(t)
================================================================================
