------------------------------ MODULE PolicyRouting ------------------------------
(***************************************************************************)
(* policies.py: the route of a contract, from its extractions and a policy   *)
(* pack.  Confidences and thresholds are percentages.                        *)
(***************************************************************************)
EXTENDS Integers, Sequences

\* What evaluate_policy takes where a pack says nothing: a pack that is an empty file.
CodeDefaults == [loads |-> TRUE, review |-> 80, auto |-> 90, blocked |-> {},
                 required |-> {"clause_type", "risk_level", "summary"}]

\* policies/default_policy.yaml
DefaultPack == [CodeDefaults EXCEPT !.blocked = {"liability", "indemnity", "termination"}]

\* What there is to say against a clause.
Objections(x, pack) ==
  [confidence_below_threshold |-> x.confidence < pack.review,
   blocked_clause_type |-> x.clause_type \in pack.blocked,
   high_risk_clause_detected |-> x.risk_level = "high",
   missing_required_fields |-> \E f \in pack.required : x[f] = ""]

Reasons(x, pack) == {r \in DOMAIN Objections(x, pack) : Objections(x, pack)[r]}

AllReasons(extractions, pack) ==
  UNION {Reasons(extractions[i], pack) : i \in DOMAIN extractions}

\* Seeded fault: eligibility is what the last clause says of it.
EligibleByLast(extractions, pack) ==
  extractions # <<>> =>
    LET x == extractions[Len(extractions)] IN x.confidence >= pack.auto /\ x.risk_level = "low"

\* auto_pass_eligible at the end of the loop.
Eligible(extractions, pack) ==
  \A i \in DOMAIN extractions :
    extractions[i].confidence >= pack.auto /\ extractions[i].risk_level = "low"

\* Seeded fault: nothing extracted is nothing to object to.
EvaluateVacuous(extractions, pack) ==
  IF AllReasons(extractions, pack) = {} /\ Eligible(extractions, pack)
  THEN [route |-> "auto_advance", reasons |-> {}]
  ELSE [route |-> "human_review",
        reasons |-> AllReasons(extractions, pack) \cup {"auto_pass_not_eligible"}]

Evaluate(extractions, pack) ==
  LET reasons == AllReasons(extractions, pack)
  IN  IF reasons # {}
      THEN [route |-> "human_review", reasons |-> reasons]
      ELSE IF Eligible(extractions, pack) /\ extractions # <<>>
      THEN [route |-> "auto_advance", reasons |-> {}]
      ELSE [route |-> "human_review", reasons |-> {"auto_pass_not_eligible"}]
================================================================================
