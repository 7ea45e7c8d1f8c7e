------------------------------ MODULE ReviewGraph ------------------------------
(***************************************************************************)
(* nodes.py and graph.py: one invocation of the compiled graph per call,    *)
(* each in a worker thread of its own.  A call runs a node as a sequence of *)
(* stages, one per statement that touches shared state:                     *)
(*   body         the node up to its first write                            *)
(*   set_pending, set_completed   the two UPDATEs of human_review           *)
(*   insert, line the two writes of append_event                            *)
(*   interrupt    interrupt() and, once it returns, the SELECT after it     *)
(*   decide       the rest of human_review, once the answer is there        *)
(*   finalize     the last write of audit_and_report                        *)
(*   return       the node has returned; the loop takes its update          *)
(* A call that has left the graph is "returned" or "raised".                *)
(***************************************************************************)
EXTENDS AuditStore, Checkpoints

CONSTANTS AllowFallback,   \* ALLOW_HEURISTIC_FALLBACK, and the provider is a text
          MaxFaults        \* bound: failed statements and crashes of the process

ASSUME GraphAssumption == AllowFallback \in BOOLEAN /\ MaxFaults \in Nat

VARIABLES inv,      \* the invocation each call is running, volatile
          faults    \* how many faults have happened

Stages == {"idle", "checked", "body", "set_pending", "set_completed", "insert", "line",
           "interrupt", "decide", "finalize", "return", "returned", "raised",
           "done", "dead"}

\* values: the channels as the node sees them; result: the channels after its
\* update; event: the event append_event is writing; read: the timestamps the
\* SELECT of _transition_review_status found; answer: what the call resumes with.
Invocation ==
  [stage : Stages, node : Places, thread : Threads \cup {Null},
   document : Documents \cup {Null}, answer : AnswersOrNone,
   values : Values, result : Values,
   event : [type : EventTypes \cup {Null}, info : Infos],
   read : [interrupted_at : BOOLEAN, resumed_at : BOOLEAN]]

NoInvocation ==
  [stage |-> "idle", node |-> "NONE", thread |-> Null, document |-> Null,
   answer |-> NoAnswer, values |-> NoValues, result |-> NoValues,
   event |-> [type |-> Null, info |-> Null],
   read |-> [interrupted_at |-> FALSE, resumed_at |-> FALSE]]

GraphInit == inv = [c \in Calls |-> NoInvocation] /\ faults = 0

GraphTypeOK == inv \in [Calls -> Invocation] /\ faults \in 0..MaxFaults

Running == {"body", "set_pending", "set_completed", "insert", "line", "interrupt",
            "decide", "finalize", "return"}
\* The process has not answered this call yet.
Active(c) == inv[c].stage \in Running \cup {"checked", "returned", "raised"}

At(c, node, stage) == inv[c].node = node /\ inv[c].stage = stage
V(c) == inv[c].values
T(c) == inv[c].thread

Go(c, stage) == inv' = [inv EXCEPT ![c].stage = stage]

\* What is left of a call that is over.
Over(c, stage) == [NoInvocation EXCEPT !.stage = stage, !.thread = T(c)]

\* The node calls append_event and is then to return an update that makes the
\* channels `result`.
Emit(c, type, info, result) ==
  inv' = [inv EXCEPT ![c] = [@ EXCEPT !.stage = "insert", !.result = result,
                                      !.event = [type |-> type, info |-> info]]]

Busy(t) == \E c \in Calls : T(c) = t /\ Active(c)

\* A thread's pending interrupt, as graph.get_state shows it.
Interrupted(t) == ckpt[t].paused

--------------------------------------------------------------------------------
(* The edges of graph.py. *)

\* Seeded fault: the edge trusts that there is a document.
AfterIngestAlways(v) == "parse_and_chunk_clauses"

AfterIngest(v) ==
  IF v.final_status = "failed" THEN "audit_and_report" ELSE "parse_and_chunk_clauses"

\* Seeded fault: a document that cannot be parsed ends the run on the spot.
AfterParseToEnd(v) ==
  IF v.parse_status # "parsed" THEN "END" ELSE "extract_details_and_flag_risk"

AfterParse(v) ==
  IF v.parse_status # "parsed" THEN "audit_and_report"
  ELSE "extract_details_and_flag_risk"

\* Seeded fault: everything but auto_advance goes to the reviewer.
AfterPolicyElseReview(v) ==
  IF v.route = "auto_advance" THEN "auto_advance_standard_cases" ELSE "human_review"

AfterPolicy(v) ==
  CASE v.route = "auto_advance" -> "auto_advance_standard_cases"
    [] v.route = "human_review" -> "human_review"
    [] OTHER -> "audit_and_report"

\* Seeded fault: a reviewed run ends without its report.
NextNodeNoReport(node, v) ==
  CASE node = "ingest_contract" -> AfterIngest(v)
    [] node = "parse_and_chunk_clauses" -> AfterParse(v)
    [] node = "extract_details_and_flag_risk" -> "check_policy_rules"
    [] node = "check_policy_rules" -> AfterPolicy(v)
    [] node \in {"human_review", "audit_and_report"} -> "END"
    [] OTHER -> "audit_and_report"

NextNode(node, v) ==
  CASE node = "ingest_contract" -> AfterIngest(v)
    [] node = "parse_and_chunk_clauses" -> AfterParse(v)
    [] node = "extract_details_and_flag_risk" -> "check_policy_rules"
    [] node = "check_policy_rules" -> AfterPolicy(v)
    [] node = "audit_and_report" -> "END"
    [] OTHER -> "audit_and_report"

--------------------------------------------------------------------------------
(* append_event, then whatever the node does after it. *)

Written(c) == [type |-> inv[c].event.type, info |-> inv[c].event.info, by |-> c]

Insert(c) ==
  /\ inv[c].stage = "insert"
  /\ InsertEvent(T(c), Written(c))
  /\ Go(c, "line")
  /\ UNCHANGED <<runs, log, reports, ckptVars, faults>>

AfterEvent(type) ==
  CASE type = "human_review_pending" -> "interrupt"
    [] type = "human_review_resumed" -> "decide"
    [] type = "report_written" -> "finalize"
    [] OTHER -> "return"

Line(c) ==
  /\ inv[c].stage = "line"
  /\ AppendLine(T(c), Written(c))
  /\ Go(c, AfterEvent(inv[c].event.type))
  /\ UNCHANGED <<runs, events, reports, ckptVars, faults>>

--------------------------------------------------------------------------------
(* The nodes before the policy's decision. *)

\* An existing file; the node leaves final_status and route as the thread has them.
IngestFound(c) ==
  /\ inv[c].document # "missing"
  /\ RegisterRun(T(c), Null, Null)
  /\ Emit(c, "ingested", Null,
          [V(c) EXCEPT !.parse_status = "pending", !.review_status = "not_required"])

IngestMissing(c) ==
  /\ inv[c].document = "missing"
  /\ RegisterRun(T(c), "failed", "audit_only")
  /\ Emit(c, "ingest_failed", Null,
          [V(c) EXCEPT !.final_status = "failed", !.route = "audit_only",
                       !.review_status = "not_required"])

IngestContract(c) ==
  /\ At(c, "ingest_contract", "body")
  /\ IngestFound(c) \/ IngestMissing(c)
  /\ UNCHANGED <<events, log, reports, ckptVars, faults>>

\* Only UnsupportedDocumentError is caught: any other error of a reader leaves the
\* node, and the invocation.  (The node's first test, final_status = "failed", never
\* holds here: the edge after ingest_contract has already looked.)
ParseAndChunkClauses(c) ==
  /\ At(c, "parse_and_chunk_clauses", "body")
  /\ \/ /\ inv[c].document = "readable"
        /\ Emit(c, "parsed", Null, [V(c) EXCEPT !.parse_status = "parsed"])
     \/ /\ inv[c].document = "unsupported"
        /\ Emit(c, "parse_unsupported", Null,
                [V(c) EXCEPT !.parse_status = "needs_manual_parse",
                             !.route = "audit_only",
                             !.final_status = "needs_manual_parse"])
     \/ /\ inv[c].document = "unreadable"
        /\ Go(c, "raised")
  /\ UNCHANGED <<storeVars, ckptVars, faults>>

\* What a failed extraction or a failed policy evaluation returns.
FailedValues(c) == [V(c) EXCEPT !.final_status = "failed", !.route = "audit_only"]

\* A model may call the clauses anything.  If it fails, the heuristic extractor takes
\* its place where that is allowed, and cannot fail; otherwise the node gives up.
ExtractDetailsAndFlagRisk(c) ==
  /\ At(c, "extract_details_and_flag_risk", "body")
  /\ \/ \E x \in Extractions :
          Emit(c, "extracted", Null, [V(c) EXCEPT !.extractions = x, !.printable = TRUE])
     \/ /\ ~AllowFallback
        /\ Emit(c, "extraction_failed", Null, FailedValues(c))
  /\ UNCHANGED <<storeVars, ckptVars, faults>>

\* Seeded fault: a route the graph does not know.
EvaluatePolicyRenamed(x) == IF x = "clean" THEN "auto_pass" ELSE "human_review"

\* evaluate_policy: nothing extracted is not eligible for auto-pass either.
EvaluatePolicy(x) == IF x = "clean" THEN "auto_advance" ELSE "human_review"

\* The policy pack loads and is evaluated, or either of the two raises.
CheckPolicyRules(c) ==
  /\ At(c, "check_policy_rules", "body")
  /\ \/ Emit(c, "policy_evaluated", Null,
             [V(c) EXCEPT !.route = EvaluatePolicy(V(c).extractions)])
     \/ Emit(c, "policy_failed", Null, FailedValues(c))
  /\ UNCHANGED <<storeVars, ckptVars, faults>>

\* Seeded fault: the automatic approval writes no event.
AutoAdvanceSilently(c) ==
  /\ At(c, "auto_advance_standard_cases", "body")
  /\ inv' = [inv EXCEPT ![c].stage = "return",
                        ![c].result = [V(c) EXCEPT !.final_status = "approved_automatically",
                                                   !.decision = "auto_approve"]]
  /\ UNCHANGED <<storeVars, ckptVars, faults>>

AutoAdvanceStandardCases(c) ==
  /\ At(c, "auto_advance_standard_cases", "body")
  /\ Emit(c, "auto_approved", Null,
          [V(c) EXCEPT !.final_status = "approved_automatically",
                       !.review_status = "not_required",
                       !.decision = "auto_approve"])
  /\ UNCHANGED <<storeVars, ckptVars, faults>>

--------------------------------------------------------------------------------
(* human_review.  A resumed node runs again from its first line. *)

\* The SELECT of mark_review_pending or mark_review_completed, and where to go on.
SelectStatus(c, status, update, otherwise) ==
  inv' = [inv EXCEPT ![c] =
            [@ EXCEPT !.stage = IF WillTransition(T(c), status) THEN update ELSE otherwise,
                      !.read = [interrupted_at |-> runs[T(c)].interrupted_at,
                                resumed_at |-> runs[T(c)].resumed_at]]]

\* Seeded fault: the node interrupts before it has marked the run.
InterruptFirst(c) ==
  /\ At(c, "human_review", "body")
  /\ Go(c, "interrupt")
  /\ UNCHANGED <<storeVars, ckptVars, faults>>

SelectPending(c) ==
  /\ At(c, "human_review", "body")
  /\ SelectStatus(c, "pending", "set_pending", "interrupt")
  /\ UNCHANGED <<storeVars, ckptVars, faults>>

SetPending(c) ==
  /\ At(c, "human_review", "set_pending")
  /\ UpdateReviewStatus(T(c), "pending", inv[c].read)
  /\ Emit(c, "human_review_pending", Null, V(c))
  /\ UNCHANGED <<events, log, reports, ckptVars, faults>>

\* interrupt() with no answer to return: the invocation ends, the thread is paused.
Pause(c) ==
  /\ At(c, "human_review", "interrupt")
  /\ inv[c].answer = NoAnswer
  /\ MakeCheckpoint(c, "human_review", V(c), TRUE)
  /\ Go(c, "returned")
  /\ UNCHANGED <<storeVars, faults>>

\* interrupt() returns the answer, and the SELECT of mark_review_completed.
SelectCompleted(c) ==
  /\ At(c, "human_review", "interrupt")
  /\ inv[c].answer # NoAnswer
  /\ SelectStatus(c, "completed", "set_completed", "decide")
  /\ KeepAnswer(T(c), inv[c].answer)
  /\ UNCHANGED <<storeVars, faults>>

SetCompleted(c) ==
  /\ At(c, "human_review", "set_completed")
  /\ UpdateReviewStatus(T(c), "completed", inv[c].read)
  /\ Emit(c, "human_review_resumed", Null, V(c))
  /\ UNCHANGED <<events, log, reports, ckptVars, faults>>

\* _normalize_review_response checks the decision of an object, not of plain text.
Accepted(answer) == answer.form = "text" \/ answer.decision \in Decisions

\* Edits find clauses by their id: where nothing was extracted they change nothing, but an id
\* no dictionary can look up raises there, too.
EditsFail(c) == inv[c].answer.edits = "unusable"

Edited(c) ==
  IF V(c).extractions = Null THEN {V(c)}
  ELSE CASE inv[c].answer.edits = "some" ->
              {[V(c) EXCEPT !.extractions = x] : x \in Extractions}
         [] inv[c].answer.edits = "unprintable" -> {[V(c) EXCEPT !.printable = FALSE]}
         [] OTHER -> {V(c)}

\* Seeded fault: rejections are not told apart from approvals.
VerdictWithoutReject(decision) ==
  IF decision = "edit" THEN "approved_with_edits" ELSE "approved_by_reviewer"

Verdict(decision) ==
  CASE decision = "reject" -> "rejected_by_reviewer"
    [] decision = "edit" -> "approved_with_edits"
    [] OTHER -> "approved_by_reviewer"

\* Seeded fault: the decision's key is misspelt, and its default taken.
DecideByDefault(c) ==
  /\ At(c, "human_review", "decide")
  /\ Emit(c, "human_review_completed", "approve",
          [V(c) EXCEPT !.decision = "approve", !.review_status = "completed",
                       !.final_status = Verdict("approve")])
  /\ UNCHANGED <<storeVars, ckptVars, faults>>

Decide(c) ==
  /\ At(c, "human_review", "decide")
  /\ Accepted(inv[c].answer) /\ ~EditsFail(c)
  /\ \E v \in Edited(c) :
       LET d == inv[c].answer.decision
       IN  Emit(c, "human_review_completed", d,
                [v EXCEPT !.decision = d, !.review_status = "completed",
                          !.final_status = Verdict(d)])
  /\ UNCHANGED <<storeVars, ckptVars, faults>>

\* The answer or its edits raise: the invocation ends, the thread is as it was, the row
\* says completed.
RefuseAnswer(c) ==
  /\ At(c, "human_review", "decide")
  /\ ~Accepted(inv[c].answer) \/ EditsFail(c)
  /\ Go(c, "raised")
  /\ UNCHANGED <<storeVars, ckptVars, faults>>

--------------------------------------------------------------------------------
(* audit_and_report, and the loop around the nodes. *)

AuditAndReport(c) ==
  /\ At(c, "audit_and_report", "body")
  /\ V(c).printable
  /\ WriteReport(T(c), V(c))
  /\ Emit(c, "report_written", V(c).final_status, V(c))
  /\ UNCHANGED <<runs, events, log, ckptVars, faults>>

\* write_report raises before it has written anything.
ReportFails(c) ==
  /\ At(c, "audit_and_report", "body")
  /\ ~V(c).printable
  /\ Go(c, "raised")
  /\ UNCHANGED <<storeVars, ckptVars, faults>>

Finalize(c) ==
  /\ At(c, "audit_and_report", "finalize")
  /\ FinalizeRun(T(c), V(c))
  /\ Go(c, "return")
  /\ UNCHANGED <<events, log, reports, ckptVars, faults>>

\* The loop takes the node's update, follows the edge and makes a checkpoint.
Return(c) ==
  LET v == inv[c].result
      next == NextNode(inv[c].node, v)
  IN  /\ inv[c].stage = "return"
      /\ MakeCheckpoint(c, next, v, FALSE)
      /\ inv' = [inv EXCEPT ![c] =
                   [@ EXCEPT !.node = next, !.values = v,
                             !.stage = IF next = "END" THEN "returned" ELSE "body"]]
      /\ UNCHANGED <<storeVars, faults>>

Save(c) ==
  /\ T(c) # Null
  /\ SaveCheckpoint(c, T(c))
  /\ UNCHANGED <<storeVars, inv, faults>>

--------------------------------------------------------------------------------
(* How an invocation begins. *)

\* invoke with an input: on a thread that has run before, the channels keep their
\* values, and only the input's own keys are replaced.
Start(c, t, document) ==
  LET v == ckpt[t].values
  IN  /\ inv' = [inv EXCEPT ![c] =
                   [NoInvocation EXCEPT !.stage = "body", !.node = "ingest_contract",
                                        !.thread = t, !.document = document,
                                        !.values = v]]
      /\ MakeCheckpoint(c, "ingest_contract", v, FALSE)
      /\ UNCHANGED <<storeVars, faults>>

\* invoke with Command(resume=...): the loop goes on from the newest saved checkpoint,
\* whatever it is by now; on a thread that has ended there is nothing to run.
Resume(c, t, answer) ==
  LET k == ckpt[t]
  IN  /\ inv' = [inv EXCEPT ![c] =
                   [NoInvocation EXCEPT
                      !.stage = IF k.next = "END" THEN "returned" ELSE "body",
                      !.node = k.next, !.thread = t, !.values = k.values,
                      !.answer = IF k.answer = NoAnswer THEN answer ELSE k.answer]]
      /\ UNCHANGED <<storeVars, ckptVars, faults>>

--------------------------------------------------------------------------------
(* Faults. *)

\* The stages at which a call is about to touch the audit store.
Touching(c) ==
  \/ inv[c].stage \in {"set_pending", "set_completed", "insert", "line", "finalize"}
  \/ inv[c].stage = "interrupt" /\ inv[c].answer # NoAnswer
  \/ /\ inv[c].stage = "body"
     /\ inv[c].node \in {"ingest_contract", "human_review", "audit_and_report"}

\* extract_details_and_flag_risk and check_policy_rules append their good event inside
\* the try: a failure of append_event there counts as a failure of the node.
Caught(c) ==
  /\ inv[c].stage \in {"insert", "line"}
  /\ inv[c].event.type \in {"extracted", "policy_evaluated"}

\* A statement on the audit store raises (database locked, disk full).
StatementFails(c) ==
  /\ faults < MaxFaults
  /\ faults' = faults + 1
  /\ Touching(c)
  /\ \/ /\ Caught(c)
        /\ Emit(c, IF inv[c].event.type = "extracted" THEN "extraction_failed"
                   ELSE "policy_failed", Null, FailedValues(c))
        /\ UNCHANGED ckptVars
     \/ /\ ~Caught(c)
        /\ Go(c, "raised")
        /\ IF inv[c].stage = "interrupt" THEN KeepAnswer(T(c), inv[c].answer)
           ELSE UNCHANGED ckptVars
  /\ UNCHANGED storeVars

\* The process stops and is started again: every invocation is gone.
Crash ==
  /\ faults < MaxFaults
  /\ faults' = faults + 1
  /\ \E c \in Calls : Active(c)
  /\ inv' = [c \in Calls |-> IF Active(c) THEN Over(c, "dead") ELSE inv[c]]
  /\ LoseUnsaved
  /\ UNCHANGED storeVars

NodeStep(c) ==
  \/ IngestContract(c) \/ ParseAndChunkClauses(c) \/ ExtractDetailsAndFlagRisk(c)
  \/ CheckPolicyRules(c) \/ AutoAdvanceStandardCases(c)
  \/ SelectPending(c) \/ SetPending(c) \/ Pause(c) \/ SelectCompleted(c)
  \/ SetCompleted(c) \/ Decide(c) \/ RefuseAnswer(c)
  \/ AuditAndReport(c) \/ ReportFails(c) \/ Finalize(c) \/ Insert(c) \/ Line(c) \/ Return(c)
================================================================================
