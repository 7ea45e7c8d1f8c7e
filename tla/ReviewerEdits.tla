------------------------------ MODULE ReviewerEdits ------------------------------
(***************************************************************************)
(* _apply_reviewer_edits of nodes.py.  A patch is a record of the keys the   *)
(* reviewer sent; api/schemas.py lets any through.  Extractions are in the   *)
(* order of their ids, which is also the order of the ids as text (three     *)
(* digits: up to 999 clauses).                                               *)
(***************************************************************************)
EXTENDS ClauseExtraction

\* A patch finds its clause.
Names(p, x) == "clause_id" \in DOMAIN p /\ p.clause_id = x.clause_id

\* dict.update
Update(x, p) ==
  IF Names(p, x)
  THEN [f \in DOMAIN p \cup DOMAIN x |-> IF f \in DOMAIN p THEN p[f] ELSE x[f]]
  ELSE x

\* What a risk patch may change.
RiskPart(p) == [f \in {"clause_id", "risk_level", "confidence"} \cap DOMAIN p |-> p[f]]
RiskParts(patches) == [n \in DOMAIN patches |-> RiskPart(patches[n])]

Patched(x, patches) == FoldLeft(Update, x, patches)

\* The reasons of the "Reviewer: ..." lines that risk patches append to evidence_spans.
ReviewerReasons(x, patches) ==
  {patches[n].reviewer_reason : n \in {m \in DOMAIN patches :
     Names(patches[m], x) /\ "reviewer_reason" \in DOMAIN patches[m]}}

\* These lines are a field of their own here, which an extraction has from a review.
WithReasons(x, said) ==
  [f \in DOMAIN x \cup {"reviewer_lines"} |-> IF f = "reviewer_lines" THEN said ELSE x[f]]

\* Seeded fault: the two lists are applied in the other order.
EditedRisksFirst(x, extractionPatches, riskPatches) ==
  WithReasons(Patched(Patched(x, RiskParts(riskPatches)), extractionPatches),
              ReviewerReasons(x, riskPatches))

EditedExtraction(x, extractionPatches, riskPatches) ==
  WithReasons(Patched(Patched(x, extractionPatches), RiskParts(riskPatches)),
              ReviewerReasons(x, riskPatches))

ApplyReviewerEdits(extractions, edits) ==
  [i \in DOMAIN extractions |->
     EditedExtraction(extractions[i], edits.extractions, edits.risks)]

\* "clause_id in updated" raises for what no dictionary can hold, and needs no clause for it;
\* only a list takes another "Reviewer: ..." line.
CannotApply(extractions, edits) ==
  \/ \E patches \in {edits.extractions, edits.risks} : \E n \in DOMAIN patches :
       "clause_id" \in DOMAIN patches[n] /\ patches[n].clause_id = Unhashable
  \/ \E i \in DOMAIN extractions :
       /\ ReviewerReasons(extractions[i], edits.risks) # {}
       /\ ApplyReviewerEdits(extractions, edits)[i].evidence_spans \notin {"list", "mixed"}

\* Evidence write_report can print: the first two of a list of strings, or of a text.
Joinable(x) == x.evidence_spans \in {"list", "text"}
================================================================================
