----------------------------- MODULE ContractIntake -----------------------------
(***************************************************************************)
(* One contract's way through the nodes: what parsing, extraction, policy    *)
(* and edits put into the channels of its thread.  The nodes' events, rows   *)
(* and faults are ReviewGraph's; this module is about the data there.        *)
(***************************************************************************)
EXTENDS ClauseChunking, ClauseExtraction, PolicyRouting, ReviewerEdits

CONSTANT Cases    \* a document, a provider's answer, a policy pack and a reviewer's edits

IsList(s) == Len(s) \in Nat /\ DOMAIN s = 1..Len(s)

\* The parts of a document are texts, and a text file is one; thresholds are numbers, the
\* fields a pack requires are texts, and edits are lists.
Sensible(x) ==
  /\ x.document.parts \in Seq(Seq(STRING))
  /\ x.document.kind = "text" => Len(x.document.parts) = 1
  /\ x.pack.auto \in Int /\ x.pack.review \in Int
  /\ x.pack.required \subseteq {"clause_type", "risk_level", "summary"}
  /\ IsList(x.edits.extractions) /\ IsList(x.edits.risks)

ASSUME CasesAssumption == \A x \in Cases : Sensible(x)

VARIABLES in,            \* the case at hand
          stage,         \* the node that is next, or how the contract ended
          raw_text, clauses, extractions, route, reasons,   \* channels
          by             \* llm_metadata: "model", "heuristic" or "nobody"
intakeVars == <<in, stage, raw_text, clauses, extractions, route, reasons, by>>

IntakeInit ==
  /\ in \in Cases
  /\ stage = "parse"
  /\ raw_text = <<>> /\ clauses = <<>> /\ extractions = <<>>
  /\ route = "none" /\ reasons = {} /\ by = "nobody"

NormalizedText == Normalize(ReadContract(in.document))
Parsable == ~Unsupported(in.document) /\ ChunkIntoClauses(NormalizedText) # <<>>

\* The node keeps the normalised text, and has it normalised again for the clauses.
Parse ==
  /\ stage = "parse" /\ Parsable
  /\ raw_text' = NormalizedText
  /\ clauses' = ChunkIntoClauses(NormalizedText)
  /\ stage' = "extract"
  /\ UNCHANGED <<in, extractions, route, reasons, by>>

ParseUnsupported ==
  /\ stage = "parse" /\ ~Parsable
  /\ route' = "audit_only" /\ stage' = "end"
  /\ UNCHANGED <<in, raw_text, clauses, extractions, reasons, by>>

\* Nobody extracts anything where the provider fails and the fallback is off; the edge to
\* the policy is the same.
Extract ==
  /\ stage = "extract"
  /\ LET result == ExtractContractDetails(clauses, in)
     IN  /\ by' = result.by /\ extractions' = result.extractions
         /\ route' = IF result.by = "nobody" THEN "audit_only" ELSE route
  /\ stage' = "check"
  /\ UNCHANGED <<in, raw_text, clauses, reasons>>

Check ==
  /\ stage = "check" /\ in.pack.loads
  /\ LET result == Evaluate(extractions, in.pack)
     IN  /\ route' = result.route /\ reasons' = result.reasons
         /\ stage' = IF result.route = "auto_advance" THEN "end" ELSE "review"
  /\ UNCHANGED <<in, raw_text, clauses, extractions, by>>

CheckFails ==
  /\ stage = "check" /\ ~in.pack.loads
  /\ route' = "audit_only" /\ stage' = "end"
  /\ UNCHANGED <<in, raw_text, clauses, extractions, reasons, by>>

\* The edits are applied whatever the decision is.
Review ==
  /\ stage = "review" /\ ~CannotApply(extractions, in.edits)
  /\ extractions' = ApplyReviewerEdits(extractions, in.edits)
  /\ stage' = "end"
  /\ UNCHANGED <<in, raw_text, clauses, route, reasons, by>>

ReviewRaises ==
  /\ stage = "review" /\ CannotApply(extractions, in.edits)
  /\ stage' = "raised"
  /\ UNCHANGED <<in, raw_text, clauses, extractions, route, reasons, by>>

IntakeNext ==
  Parse \/ ParseUnsupported \/ Extract \/ Check \/ CheckFails \/ Review \/ ReviewRaises

IntakeSpec == IntakeInit /\ [][IntakeNext]_intakeVars
--------------------------------------------------------------------------------
\* No word of the document (of a DOCX: of its paragraphs, since the reader asks for nothing
\* else) is lost, repeated or moved on its way into the clauses,
\* whatever blanks are around it; and a document that is refused for want of clauses has
\* no words.
NothingLost ==
  stage # "parse" /\ in.document.kind # "other" =>
    FlattenSeq([i \in DOMAIN clauses |-> InkOf(clauses[i].text)])
      = InkOf(FlattenSeq(in.document.parts))

\* start_char and end_char are where the clause is in raw_text, although they were found in
\* another copy of it, block by block; clauses with the same words get places of their own,
\* in order, and none holds a blank line.
SpansMatchText ==
  \A i \in DOMAIN clauses :
    /\ SubSeq(raw_text, clauses[i].start_char + 1, clauses[i].end_char) = clauses[i].text
    /\ BlockStarts(clauses[i].text) = {1}
    /\ \A j \in 1..(i - 1) : clauses[j].end_char < clauses[i].start_char

\* One extraction for every clause, in order, whatever the model left out, repeated or
\* made up, and whatever clauses the reviewer's patches name.
OneExtractionPerClause ==
  by # "nobody" =>
    [i \in DOMAIN extractions |-> extractions[i].clause_id] = [i \in DOMAIN clauses |-> i]

\* What the reply says last of a clause, where it says anything.
Said(i) == About(in.reply.items, clauses[i])
LastSaid(i) == in.reply.items[Max(Said(i))]
Says(item, field, Holds(_)) == field \in DOMAIN item /\ Holds(item[field])

\* spec/02-system-design.md, "Risk Routing Rules": an approval without a reviewer.  The
\* model must have said of each clause, last, that it is low-risk, and with enough
\* confidence (where it does not say how much, 65 is all it has); must not have given it a
\* blocked type, or emptied a required field.
Confident(v) == v \in in.pack.auto..100 /\ v >= in.pack.review
ApprovedByModel(i) ==
  /\ Says(LastSaid(i), "risk_level", LAMBDA v : v = "low")
  /\ Says(LastSaid(i), "confidence", Confident)
       \/ ("confidence" \notin DOMAIN LastSaid(i) /\ Confident(65))
  /\ ~Says(LastSaid(i), "clause_type", LAMBDA v : v \in in.pack.blocked)
  /\ \A f \in in.pack.required : ~Says(LastSaid(i), f, LAMBDA v : v = "")

\* Where the rules stand in for the model, a clause has none of the characters of the risk
\* terms; and if it has those of liability, indemn, termination or renewal, it has those of
\* "payment", "fee" or "invoice", too, which the table looks for first.  These need be no word
\* of payment: a liability clause that speaks of feedback, or of coffee, is approved by it.
ApprovedByRules(i) ==
  LET t == clauses[i].text
  IN  /\ \A p \in HighRiskTerms \cup MediumRiskTerms : ~Mentions(t, p)
      /\ \A w \in {"liability", "indemn", "termination", "renewal"} :
           Mentions(t, <<w>>) => \E p \in {"payment", "fee", "invoice"} : Mentions(t, <<p>>)

\* The model has answered, and its answer was not valid: extract_contract_details takes the
\* rules' extractions instead, of every clause.
ReplyDiscarded ==
  by = "heuristic" /\ CanBuildProvider(in.provider, in.env) /\ ~in.reply.fails

\* spec/02-system-design.md, "Risk Routing Rules": every approval without a reviewer is
\* justified, clause by clause, by a valid reply where it speaks of the clause, and by the
\* words of the document where the reply leaves it out or nobody has answered.  An invalid
\* reply justifies nothing (ValidationRequiresReview).
AutoAdvanceJustified ==
  route = "auto_advance" /\ ~ReplyDiscarded =>
    /\ in.pack.loads /\ clauses # <<>>
    /\ \A i \in DOMAIN clauses :
         IF by = "model" /\ Said(i) # {} THEN ApprovedByModel(i) ELSE ApprovedByRules(i)

\* spec/02-system-design.md, line 216, "Validation failure: block action and require reviewer
\* intervention": a contract is not approved without a reviewer on a reply that was not valid.
\* The code does: run invalid_reply.
ValidationRequiresReview == ReplyDiscarded => route # "auto_advance"

\* What the reviewer said last of a field is what the report gets: risk patches come after
\* extraction patches, later ones after earlier ones; a field nobody patched, and a clause
\* nobody named, stay as they were; and the "Reviewer: ..." lines in the evidence of a clause
\* are the reasons of the risk patches that name it.
SayingOf(patches, i, f) ==
  {n \in DOMAIN patches : /\ {"clause_id", f} \subseteq DOMAIN patches[n]
                          /\ patches[n].clause_id = i}
LastWord(i, f) ==
  LET risk == IF f \in {"risk_level", "confidence"} THEN SayingOf(in.edits.risks, i, f) ELSE {}
      other == SayingOf(in.edits.extractions, i, f)
  IN  CASE f = "reviewer_lines" ->
             {in.edits.risks[n].reviewer_reason : n \in SayingOf(in.edits.risks, i, "reviewer_reason")}
        [] risk # {} -> in.edits.risks[Max(risk)][f]
        [] risk = {} /\ other # {} /\ f # "reviewer_lines" -> in.edits.extractions[Max(other)][f]
        [] OTHER -> extractions[i][f]
EditsLand ==
  [][stage = "review" /\ stage' = "end" =>
       \A i \in DOMAIN extractions : \A f \in DOMAIN extractions'[i] :
         extractions'[i][f] = LastWord(i, f)]_intakeVars

\* The workflow's picture of all this (ReviewGraph chooses blindly among its outcomes) is
\* right: extraction gives up only without a fallback or a provider, the route is auto_advance exactly
\* when every clause is low-risk, confident, complete and of a type the pack does not
\* block, and edits change nothing where there are no clauses, but may raise there, too.
Clean(x) ==
  /\ x.risk_level = "low" /\ x.confidence >= in.pack.auto /\ x.confidence >= in.pack.review
  /\ x.clause_type \notin in.pack.blocked
  /\ \A f \in in.pack.required : x[f] # ""
Kind ==
  CASE extractions = <<>> -> "none"
    [] extractions # <<>> /\ (\A i \in DOMAIN extractions : Clean(extractions[i])) -> "clean"
    [] OTHER -> "risky"
Screening == INSTANCE ContractScreening WITH
  kind <- Kind,
  printable <- \A i \in DOMAIN extractions : Joinable(extractions[i]),
  may_give_up <- in.fallback \notin {"unset", "1", "true", "yes", "on"} \/ in.provider = "null"
ImplementsScreening == Screening!ScreeningSpec

--------------------------------------------------------------------------------
\* Whose extractions the thread has, as long as no reviewer has touched them.
Extracted ==
  CASE by = "model" -> /\ extractions = NormalizeExtractions(clauses, in.reply.items)
                       /\ \A i \in DOMAIN extractions : Valid(extractions[i])
    [] by = "heuristic" -> extractions = HeuristicExtractContract(clauses)
    [] OTHER -> extractions = <<>>

\* What the thread has of the document.
ParsedText ==
  IF stage # "parse" /\ Parsable
  THEN raw_text = NormalizedText /\ clauses = ChunkIntoClauses(NormalizedText)
  ELSE raw_text = <<>> /\ clauses = <<>>

\* The inductive invariant behind all of these: what a contract that has got to a node, or to
\* an approval, brings along.
IntakeInv ==
  /\ Sensible(in)
  /\ ParsedText
  /\ \A i \in DOMAIN clauses : clauses[i].clause_id = i
  /\ by # "nobody" =>
       /\ DOMAIN extractions = DOMAIN clauses
       /\ \A i \in DOMAIN extractions : extractions[i].clause_id = i
  /\ stage \in {"parse", "extract"} =>
       extractions = <<>> /\ by = "nobody" /\ route = "none"
  /\ stage \in {"extract", "check", "review"} => DOMAIN clauses # {}
  /\ stage \in {"check", "review"} => Extracted /\ route # "auto_advance"
  /\ route = "auto_advance" =>
       in.pack.loads /\ DOMAIN clauses # {} /\ Extracted /\ stage = "end" /\ Kind = "clean"
================================================================================
