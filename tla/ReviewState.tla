------------------------------ MODULE ReviewState ------------------------------
(***************************************************************************)
(* The data shared by every component: the channels of a graph thread       *)
(* (state.py), the enumerations of models.py, and a reviewer's answer.      *)
(* Clause texts, names, paths and identifiers are left out: nothing the     *)
(* workflow decides depends on them.  A thread identifier is also the run   *)
(* identifier (api/main.py, "thread_id and run_id are intentionally the     *)
(* same UUID").                                                             *)
(***************************************************************************)
EXTENDS Naturals

CONSTANTS Threads,     \* thread ids, which are run ids too
          Calls,       \* callers of the graph; each invokes it at most once
          Edits        \* the edits reviewers send along with a decision

Null == "NULL"      \* Python's None, an absent dictionary key, SQL's NULL

\* A thread id is a string, not None.
ASSUME ThreadsAssumption == Null \notin Threads

FinalStatuses ==
  {"approved_automatically", "approved_by_reviewer", "approved_with_edits",
   "rejected_by_reviewer", "needs_manual_parse", "failed"}
Routes == {"auto_advance", "human_review", "audit_only"}
ReviewStatuses == {"not_required", "pending", "completed"}

\* The nodes of the graph; END once nothing is left to run, NONE before anything ran.
Nodes == {"ingest_contract", "parse_and_chunk_clauses", "extract_details_and_flag_risk",
          "check_policy_rules", "auto_advance_standard_cases", "human_review",
          "audit_and_report"}
Places == Nodes \cup {"END", "NONE"}

\* A contract file: absent; of a form the parser refuses (no clause, a PDF without
\* text); one on which a reader library raises its own error (bytes that are not
\* UTF-8, a corrupt DOCX or PDF); or readable.
Documents == {"missing", "unsupported", "unreadable", "readable"}

\* What the extracted clauses are to the policy: every clause low-risk, confident
\* and complete, or not.  Null when nothing was extracted.
Extractions == {"clean", "risky"}

\* A reviewer's decision; "other" is any word that is none of the three.
Decisions == {"approve", "edit", "reject"}
Words == Decisions \cup {"other"}

\* edited_extractions and edited_risks, by what they do to the clauses at hand: nothing;
\* something that may make them anything to the policy; they cannot be applied by
\* _apply_reviewer_edits (a clause_id that is a list; or evidence_spans replaced by what has
\* no append, and a reviewer_reason); or they are applied, and write_report cannot print the
\* evidence_spans.  api/schemas.py lets all of them through.
EditKinds == {"none", "some", "unusable", "unprintable"}

ASSUME EditsAssumption == Edits \subseteq EditKinds

\* The value given to Command(resume=...): an object with a "decision" key, or plain
\* text, which brings no edits.
Answers == [form : {"object"}, decision : Words, edits : Edits]
             \cup [form : {"text"}, decision : Words, edits : {"none"}]
NoAnswer == [form |-> "none", decision |-> Null, edits |-> "none"]
AnswersOrNone == Answers \cup {NoAnswer}

\* The channels of one graph thread that some node, edge or endpoint looks at.
Values ==
  [final_status  : FinalStatuses \cup {Null},
   route         : Routes \cup {Null},
   review_status : ReviewStatuses \cup {Null},
   parse_status  : {"pending", "parsed", "needs_manual_parse", Null},
   extractions   : Extractions \cup {Null},
   printable     : BOOLEAN,     \* can write_report print the evidence of all clauses
   decision      : Words \cup {"auto_approve", Null}]

NoValues ==
  [final_status |-> Null, route |-> Null, review_status |-> Null,
   parse_status |-> Null, extractions |-> Null, printable |-> TRUE,
   decision |-> Null]
================================================================================
