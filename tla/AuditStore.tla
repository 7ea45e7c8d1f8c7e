------------------------------- MODULE AuditStore ------------------------------
(***************************************************************************)
(* audit.py: the SQLite tables runs and events, the JSONL event stream and  *)
(* the Markdown reports.  Every statement runs on a connection of its own   *)
(* and commits by itself, so each operator here is one atomic step and      *)
(* anything that needs two of them can be cut in between.  A timestamp      *)
(* column is only set or NULL.  initialize_audit_store, which every         *)
(* operation calls first, changes nothing once the tables are there.        *)
(***************************************************************************)
EXTENDS ReviewState

VARIABLES runs,        \* the rows of table runs
          events,      \* the rows of table events, per run
          log,         \* the lines of events.jsonl, per run
          reports      \* <run_id>.md, per run
storeVars == <<runs, events, log, reports>>

EventTypes ==
  {"ingested", "ingest_failed", "parsed", "parse_unsupported", "extracted",
   "extraction_failed", "policy_evaluated", "policy_failed", "auto_approved",
   "human_review_pending", "human_review_resumed", "human_review_completed",
   "report_written"}
Infos == Words \cup FinalStatuses \cup {Null}

\* An event: its type, the decision or final status in its payload, and the call
\* that wrote it in place of the autoincremented id (a call runs a node at most
\* once, so it writes an event of one type at most once).
Event == [type : EventTypes, info : Infos, by : Calls]

Row == [exists : BOOLEAN, review_status : ReviewStatuses \cup {Null},
        final_status : FinalStatuses \cup {Null}, route : Routes \cup {Null},
        interrupted_at : BOOLEAN, resumed_at : BOOLEAN, completed_at : BOOLEAN]

NoRow == [exists |-> FALSE, review_status |-> Null, final_status |-> Null,
          route |-> Null, interrupted_at |-> FALSE, resumed_at |-> FALSE,
          completed_at |-> FALSE]

Report == [written : BOOLEAN, final_status : FinalStatuses \cup {Null},
           decision : Words \cup {"auto_approve", Null}]
NoReport == [written |-> FALSE, final_status |-> Null, decision |-> Null]

StoreTypeOK ==
  /\ runs \in [Threads -> Row]
  /\ events \in [Threads -> SUBSET Event]
  /\ log \in [Threads -> SUBSET Event]
  /\ reports \in [Threads -> Report]

StoreInit ==
  /\ runs = [t \in Threads |-> NoRow]
  /\ events = [t \in Threads |-> {}]
  /\ log = [t \in Threads |-> {}]
  /\ reports = [t \in Threads |-> NoReport]

--------------------------------------------------------------------------------
Coalesce(x, y) == IF x # Null THEN x ELSE y
DefaultReviewStatus(v) == Coalesce(v.review_status, "not_required")

\* INSERT ... ON CONFLICT(run_id) DO UPDATE: on a row that is already there every
\* column but the timestamps takes the new value unless that is NULL.
RegisterRun(t, final, route) ==
  LET old == runs[t]
      new == [exists |-> TRUE, review_status |-> "not_required",
              final_status |-> Coalesce(final, old.final_status),
              route |-> Coalesce(route, old.route),
              interrupted_at |-> old.interrupted_at,
              resumed_at |-> old.resumed_at,
              completed_at |-> old.completed_at]
  IN  runs' = [runs EXCEPT ![t] = new]

\* Seeded fault: the transaction of the INSERT is never committed.
InsertUncommitted(t, e) == UNCHANGED events

\* append_event, first half: the row of table events, committed.
InsertEvent(t, e) == events' = [events EXCEPT ![t] = @ \cup {e}]

\* append_event, second half: the line of events.jsonl.
AppendLine(t, e) == log' = [log EXCEPT ![t] = @ \cup {e}]

\* The SELECT of _transition_review_status: whether it goes on to its UPDATE.
WillTransition(t, status) == runs[t].exists /\ runs[t].review_status # status

\* Seeded fault: the UPDATE leaves out the timestamps the SELECT had found.
UpdateForgettingTimes(t, status, read) ==
  runs' = [runs EXCEPT ![t] =
             [@ EXCEPT !.review_status = status,
                       !.interrupted_at = (status = "pending"),
                       !.resumed_at = (status = "completed")]]

\* The UPDATE of _transition_review_status, from the timestamps its SELECT read.
UpdateReviewStatus(t, status, read) ==
  runs' = [runs EXCEPT ![t] =
             [@ EXCEPT !.review_status = status,
                       !.interrupted_at = read.interrupted_at \/ status = "pending",
                       !.resumed_at = read.resumed_at \/ status = "completed"]]

\* Seeded fault: final_status is left out of the SET list.
FinalizeForgettingStatus(t, v) ==
  runs' = [runs EXCEPT ![t] =
             [@ EXCEPT !.review_status = DefaultReviewStatus(v), !.route = v.route,
                       !.completed_at = @ \/ runs[t].exists]]

\* finalize_run: an UPDATE, so a run that was never registered stays absent.  The
\* thread's state has neither interrupted_at nor resumed_at: both columns are kept.
FinalizeRun(t, v) ==
  LET old == runs[t]
  IN  runs' = [runs EXCEPT ![t] =
                 IF old.exists
                 THEN [old EXCEPT !.review_status = DefaultReviewStatus(v),
                                  !.final_status = v.final_status,
                                  !.route = v.route,
                                  !.completed_at = TRUE]
                 ELSE old]

\* write_report: the file is replaced as a whole.
WriteReport(t, v) ==
  reports' = [reports EXCEPT ![t] =
                [written |-> TRUE, final_status |-> v.final_status,
                 decision |-> v.decision]]

\* list_pending_reviews: the reviewers' inbox.
PendingReviews == {t \in Threads : runs[t].exists /\ runs[t].review_status = "pending"}
================================================================================
