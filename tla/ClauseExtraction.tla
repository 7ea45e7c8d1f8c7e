---------------------------- MODULE ClauseExtraction ----------------------------
(***************************************************************************)
(* llm.py: extractions from a model's reply, or from the words of a clause.  *)
(* A confidence is a percentage; a summary is "given" or empty; of the list  *)
(* evidence_spans only its form matters: a "list" of strings, a "mixed"      *)
(* list, a "text" (or null), or something "other".  An item of a reply is a record of the keys   *)
(* the model sent; one without a clause_id stands for an element that is no  *)
(* object, too.                                                              *)
(***************************************************************************)
EXTENDS Integers, Sequences, SequencesExt

\* How words are spelt, as sets of pairs <<part, word>> of different words: the part is
\* somewhere in the word, the word begins with it, the word ends with it.  Upper and lower
\* case are not told apart.
CONSTANTS Within, Begins, Ends

ASSUME SpellingAssumption == Begins \cup Ends \subseteq Within

Part(part, word, pairs) == part = word \/ <<part, word>> \in pairs

\* "keyword in lowered": a keyword of one word may be anywhere in a word, that is, "fee" is in
\* "feedback"; one of several words begins where a word ends and ends where a word begins.
Mentions(t, phrase) ==
  LET n == Len(phrase)
  IN  \E i \in 0..(Len(t) - n) :
        IF n = 1 THEN Part(phrase[1], t[i + 1], Within)
        ELSE /\ Part(phrase[1], t[i + 1], Ends)
             /\ Part(phrase[n], t[i + n], Begins)
             /\ \A j \in 2..(n - 1) : phrase[j] = t[i + j]

TypeKeywords ==
  << <<<<"payment">>, "payment">>, <<<<"fee">>, "payment">>, <<<<"invoice">>, "payment">>,
     <<<<"liability">>, "liability">>, <<<<"indemn">>, "indemnity">>,
     <<<<"termination">>, "termination">>, <<<<"renewal">>, "renewal">>,
     <<<<"governing", "sp", "law">>, "governing_law">>,
     <<<<"jurisdiction">>, "governing_law">>,
     <<<<"confidential">>, "confidentiality">>, <<<<"security">>, "security">> >>

HighRiskTerms ==
  {<<"unlimited", "sp", "liability">>, <<"indemnify">>, <<"hold", "sp", "harmless">>,
   <<"sole", "sp", "discretion">>, <<"automatic", "sp", "renewal">>, <<"perpetual">>}

MediumRiskTerms ==
  {<<"terminate", "sp", "for", "sp", "convenience">>, <<"penalty">>,
   <<"exclusive", "sp", "jurisdiction">>}

\* The first keyword of the table that the text has.
HeuristicType(t) ==
  LET found == {n \in DOMAIN TypeKeywords : Mentions(t, TypeKeywords[n][1])}
  IN  IF found = {} THEN "general" ELSE TypeKeywords[Min(found)][2]

\* Seeded fault: the type of a clause decides, and its terms only where it has none.
RiskByType(t) ==
  LET type == HeuristicType(t)
  IN  CASE type \in {"liability", "indemnity"} -> <<"high", 92>>
        [] type \in {"termination", "renewal"} -> <<"medium", 82>>
        [] type = "general" /\ (\E p \in HighRiskTerms : Mentions(t, p)) -> <<"high", 92>>
        [] OTHER -> <<"low", 90>>

\* risk_level and confidence
HeuristicRisk(t) ==
  LET type == HeuristicType(t)
  IN  CASE (\E p \in HighRiskTerms : Mentions(t, p)) \/ type \in {"liability", "indemnity"} ->
             <<"high", 92>>
        [] (\E p \in MediumRiskTerms : Mentions(t, p))
             \/ type \in {"termination", "renewal"} -> <<"medium", 82>>
        [] OTHER -> <<"low", 90>>

HeuristicExtractClause(c) ==
  LET risk == HeuristicRisk(c.text)
  IN  [clause_id |-> c.clause_id, clause_type |-> HeuristicType(c.text),
       summary |-> "given", risk_level |-> risk[1], confidence |-> risk[2],
       evidence_spans |-> "list"]

HeuristicExtractContract(clauses) ==
  [i \in DOMAIN clauses |-> HeuristicExtractClause(clauses[i])]

--------------------------------------------------------------------------------
(* A model's reply. *)

RiskLevels == {"low", "medium", "high"}

\* A clause_id that is a list or an object: no key of a dictionary, and no clause's number.
Unhashable == 0

\* What an item need not say.
Defaults == [clause_type |-> "general", summary |-> "given", risk_level |-> "medium",
             confidence |-> 65, evidence_spans |-> "list"]

Merged(c, item) ==
  [f \in DOMAIN Defaults \cup {"clause_id"} |->
     IF f = "clause_id" THEN c.clause_id
     ELSE IF f \in DOMAIN item THEN item[f] ELSE Defaults[f]]

\* The items about a clause, by their place in the reply.
About(items, c) == {n \in DOMAIN items : "clause_id" \in DOMAIN items[n]
                                           /\ items[n].clause_id = c.clause_id}

\* Seeded fault: the reply's items are gone through instead of the contract's clauses.
NormalizeItems(clauses, items) ==
  LET known == SelectSeq(items, LAMBDA x : "clause_id" \in DOMAIN x
                                             /\ x.clause_id \in DOMAIN clauses)
  IN  [n \in DOMAIN known |-> Merged(clauses[known[n].clause_id], known[n])]

\* by_id keeps the last of several items; a clause the model left out is not lost.
NormalizeExtractions(clauses, items) ==
  [i \in DOMAIN clauses |->
     LET about == About(items, clauses[i])
     IN  IF about = {} THEN HeuristicExtractClause(clauses[i])
         ELSE Merged(clauses[i], items[Max(about)])]

\* ClauseExtraction.model_validate
Valid(x) == x.risk_level \in RiskLevels /\ x.confidence \in 0..100 /\ x.evidence_spans = "list"

--------------------------------------------------------------------------------
(* Whose extractions a contract gets.  env: the environment variables that are set to *)
(* something; reply: what the provider answers, if it is asked.                       *)

KeyOf == [openai |-> "OPENAI_API_KEY", grok |-> "GROK_API_KEY", gemini |-> "GEMINI_API_KEY"]

CanBuildProvider(name, env) == name \in DOMAIN KeyOf /\ KeyOf[name] \in env

\* One item that is not valid, or that no dictionary can hold, makes the whole reply raise.
Usable(clauses, reply) ==
  /\ ~reply.fails
  /\ \A n \in DOMAIN reply.items :
       "clause_id" \in DOMAIN reply.items[n] => reply.items[n].clause_id # Unhashable
  /\ \A i \in DOMAIN NormalizeExtractions(clauses, reply.items) :
       Valid(NormalizeExtractions(clauses, reply.items)[i])

EnvFlag(value, default) ==
  IF value = "unset" THEN default ELSE value \in {"1", "true", "yes", "on"}

\* extract_contract_details: by whom, and what; nothing if it raises.  The provider of a
\* direct caller may be null, which has no lower(): that is outside the try.
ExtractContractDetails(clauses, in) ==
  IF CanBuildProvider(in.provider, in.env) /\ Usable(clauses, in.reply)
  THEN [by |-> "model", extractions |-> NormalizeExtractions(clauses, in.reply.items)]
  ELSE IF EnvFlag(in.fallback, TRUE) /\ in.provider # "null"
  THEN [by |-> "heuristic", extractions |-> HeuristicExtractContract(clauses)]
  ELSE [by |-> "nobody", extractions |-> <<>>]
================================================================================
