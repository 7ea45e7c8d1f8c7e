---------------------------- MODULE ContractScreening ----------------------------
(***************************************************************************)
(* What the workflow takes a contract's way through parser, extractor,       *)
(* policy and reviewer to be: ReviewGraph chooses among these outcomes       *)
(* without looking at a clause (Documents, Extractions, EvaluatePolicy,      *)
(* Edited and EditsFail there).                                              *)
(***************************************************************************)
VARIABLES stage,         \* the node that is next, or how the contract ended
          kind,          \* of the extractions: "none", "clean" or "risky"
          route,         \* the route the thread has, "none" at first
          printable,     \* can write_report print the evidence
          may_give_up    \* may the extraction fail: no heuristic fallback, or no provider
screeningVars == <<stage, kind, route, printable, may_give_up>>

ScreeningInit ==
  /\ stage = "parse" /\ kind = "none" /\ route = "none" /\ printable = TRUE
  /\ may_give_up \in BOOLEAN

ParseScreened ==
  /\ stage = "parse"
  /\ \/ stage' = "extract" /\ UNCHANGED route
     \/ stage' = "end" /\ route' = "audit_only"
  /\ UNCHANGED <<kind, printable, may_give_up>>

ExtractScreened ==
  /\ stage = "extract"
  /\ \/ kind' \in {"clean", "risky"} /\ UNCHANGED route
     \/ may_give_up /\ route' = "audit_only" /\ UNCHANGED kind
  /\ stage' = "check"
  /\ UNCHANGED <<printable, may_give_up>>

RouteOf(k) == IF k = "clean" THEN "auto_advance" ELSE "human_review"

CheckScreened ==
  /\ stage = "check"
  /\ \/ route' = RouteOf(kind) /\ stage' = IF kind = "clean" THEN "end" ELSE "review"
     \/ route' = "audit_only" /\ stage' = "end"
  /\ UNCHANGED <<kind, printable, may_give_up>>

\* Edits may make the clauses, if there are any, anything to the policy and to the report;
\* or they may raise.
ReviewScreened ==
  /\ stage = "review"
  /\ \/ stage' = "end" /\ UNCHANGED <<kind, printable>>
     \/ /\ kind # "none"
        /\ stage' = "end" /\ kind' \in {"clean", "risky"} /\ printable' \in BOOLEAN
     \/ stage' = "raised" /\ UNCHANGED <<kind, printable>>
  /\ UNCHANGED <<route, may_give_up>>

ScreeningNext == ParseScreened \/ ExtractScreened \/ CheckScreened \/ ReviewScreened

ScreeningSpec == ScreeningInit /\ [][ScreeningNext]_screeningVars
================================================================================
