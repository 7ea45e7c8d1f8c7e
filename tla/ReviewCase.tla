------------------------------- MODULE ReviewCase -------------------------------
(***************************************************************************)
(* What one contract goes through, seen from outside: it is screened, then   *)
(* settled by the program, or put before a reviewer and settled by a         *)
(* decision somebody submitted, and in the end closed.  A case has one       *)
(* outcome, and keeps it.                                                    *)
(***************************************************************************)
EXTENDS ReviewState

VARIABLES phase,       \* where each thread's case stands
          outcome,     \* its final status, once settled
          submitted    \* the decisions reviewers have submitted for it
caseVars == <<phase, outcome, submitted>>

Phases == {"none", "screening", "awaiting", "settled", "closed"}
Automatic == {"approved_automatically", "needs_manual_parse", "failed"}

CaseTypeOK ==
  /\ phase \in [Threads -> Phases]
  /\ outcome \in [Threads -> FinalStatuses \cup {Null}]
  /\ submitted \in [Threads -> SUBSET Decisions]

OutcomeOf(decision) ==
  CASE decision = "approve" -> "approved_by_reviewer"
    [] decision = "edit" -> "approved_with_edits"
    [] decision = "reject" -> "rejected_by_reviewer"

CaseInit ==
  /\ phase = [t \in Threads |-> "none"]
  /\ outcome = [t \in Threads |-> Null]
  /\ submitted = [t \in Threads |-> {}]

Move(t, from, to) == phase[t] = from /\ phase' = [phase EXCEPT ![t] = to]

Open(t) == Move(t, "none", "screening") /\ UNCHANGED <<outcome, submitted>>

Ask(t) == Move(t, "screening", "awaiting") /\ UNCHANGED <<outcome, submitted>>

Submit(t, d) ==
  /\ phase[t] = "awaiting"
  /\ submitted' = [submitted EXCEPT ![t] = @ \cup {d}]
  /\ UNCHANGED <<phase, outcome>>

SettleAutomatically(t) ==
  /\ Move(t, "screening", "settled")
  /\ \E o \in Automatic : outcome' = [outcome EXCEPT ![t] = o]
  /\ UNCHANGED submitted

SettleByReviewer(t) ==
  /\ Move(t, "awaiting", "settled")
  /\ \E d \in submitted[t] : outcome' = [outcome EXCEPT ![t] = OutcomeOf(d)]
  /\ UNCHANGED submitted

Close(t) == Move(t, "settled", "closed") /\ UNCHANGED <<outcome, submitted>>

CaseNext ==
  \E t \in Threads :
    \/ Open(t) \/ Ask(t) \/ SettleAutomatically(t) \/ SettleByReviewer(t) \/ Close(t)
    \/ \E d \in Decisions : Submit(t, d)

CaseSpec == CaseInit /\ [][CaseNext]_caseVars
================================================================================
