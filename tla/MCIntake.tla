-------------------------------- MODULE MCIntake --------------------------------
(***************************************************************************)
(* The contracts TLC sends through the nodes: all short documents with a     *)
(* provider that is down, a few documents with all short replies, and a few  *)
(* replies with all short lists of edits.                                    *)
(***************************************************************************)
EXTENDS ContractIntake

CONSTANTS MaxText,    \* bound: symbols of a text file
          MaxPage,    \* bound: symbols of each of two pages or paragraphs
          MaxItems,   \* bound: items of a reply
          MaxPatches  \* bound: patches of each list of a reviewer

Symbols == {"fee", "law", "sp", "nl", "cr"}
Texts(n) == UNION {[1..m -> Symbols] : m \in 0..n}
File(t) == [kind |-> "text", parts |-> <<t>>]

Down == [fails |-> TRUE, items |-> <<>>]
NoEdits == [extractions |-> <<>>, risks |-> <<>>]
Case1 == [document |-> File(<<>>), provider |-> "openai", env |-> {"OPENAI_API_KEY"},
          reply |-> Down, fallback |-> "unset", pack |-> DefaultPack, edits |-> NoEdits]

Documents ==
  {[kind |-> k, parts |-> <<t>>] : k \in {"text", "pdf"}, t \in Texts(MaxText)}
    \cup {[kind |-> k, parts |-> <<p, q>>] : k \in {"docx", "pdf", "other"},
                                             p \in Texts(MaxPage), q \in Texts(MaxPage)}
ParsingCases == {[Case1 EXCEPT !.document = d] : d \in Documents}

\* Clauses with and without the words the rules look for, and words that have them inside.
Clauses ==
  {<<"law">>, <<"fee">>, <<"fee", "sp", "liability">>, <<"indemnify">>, <<"termination">>,
   <<"fee", "nl", "hold", "sp", "harmless">>, <<"fee", "sp", "penalty">>,
   <<"hold", "nl", "harmless">>, <<"nonexclusive", "sp", "jurisdictions">>,
   <<"feedback", "sp", "liability">>, <<"liability", "sp", "law">>}

\* How the words of these contracts are spelt.
SpeltBegins ==
  {<<"indemn", "indemnify">>, <<"fee", "feedback">>, <<"jurisdiction", "jurisdictions">>}
SpeltEnds == {<<"exclusive", "nonexclusive">>}
SpeltWithin == SpeltBegins \cup SpeltEnds
TwoClauses == {File(p \o <<"nl", "nl">> \o q) : p \in Clauses, q \in Clauses}

Low(n, c) == [clause_id |-> n, risk_level |-> "low", confidence |-> c]
Items ==
  {Low(1, 90), Low(1, 89), Low(2, 95), Low(2, 80), Low(2, 79), Low(2, 101), Low(3, 95),
   [Low(1, 95) EXCEPT !.risk_level = "high"], [Low(2, 95) EXCEPT !.risk_level = "severe"],
   Low(1, 95) @@ [clause_type |-> "liability"], Low(2, 95) @@ [clause_type |-> "fee"],
   Low(2, 95) @@ [summary |-> ""], Low(1, 95) @@ [clause_type |-> ""],
   [clause_id |-> 1], Low(Unhashable, 95), [risk_level |-> "low", confidence |-> 95],
   [clause_id |-> 2, risk_level |-> "low"]}
Replies == {[fails |-> FALSE, items |-> s] : s \in BoundedSeq(Items, MaxItems)}
Packs ==
  {DefaultPack, CodeDefaults, [DefaultPack EXCEPT !.loads = FALSE],
   [DefaultPack EXCEPT !.auto = 70],
   [DefaultPack EXCEPT !.auto = 60, !.review = 60, !.required = {"summary"}]}
InvalidItems == {Low(2, 101), [Low(2, 95) EXCEPT !.risk_level = "severe"]}
ReplyCases ==
  {[Case1 EXCEPT !.document = d, !.reply = r, !.pack = p] :
     d \in {File(<<"fee", "nl", "nl", "indemnify">>), File(<<"law", "nl", "nl", "fee">>)},
     r \in Replies, p \in Packs}
InvalidReplyCases ==
  {x \in ReplyCases : \E n \in DOMAIN x.reply.items : x.reply.items[n] \in InvalidItems}
ProviderCases ==
  {[Case1 EXCEPT !.document = d, !.provider = n, !.env = e, !.reply = r, !.fallback = f] :
     d \in TwoClauses, n \in {"grok", "gemini", "other", "null"}, e \in {{}, {"GROK_API_KEY"}},
     r \in {Down, [fails |-> FALSE, items |-> <<Low(1, 95), Low(2, 90)>>]},
     f \in {"unset", "", "0", "true"}}

Patches ==
  {[clause_id |-> 1, risk_level |-> "low"], [clause_id |-> 2, confidence |-> 99],
   [clause_id |-> 1, risk_level |-> "none", reviewer_reason |-> "r"],
   [clause_id |-> 2, summary |-> "edited"], [clause_id |-> 2, evidence_spans |-> "text"],
   [clause_id |-> 1, evidence_spans |-> "other"], [clause_id |-> 3, risk_level |-> "low"],
   [risk_level |-> "low"], [clause_id |-> Unhashable, summary |-> ""],
   [clause_id |-> 2, evidence_spans |-> "mixed", reviewer_reason |-> "s"]}
Edits ==
  [extractions : BoundedSeq(Patches, MaxPatches), risks : BoundedSeq(Patches, MaxPatches)]
EditCases ==
  LET reviewed == [Case1 EXCEPT !.document = File(<<"fee", "nl", "nl", "indemnify">>)]
  IN  {[reviewed EXCEPT !.edits = e] : e \in Edits}
        \cup {[reviewed EXCEPT !.fallback = "0", !.edits.risks = <<p>>] : p \in Patches}

AllCases == ParsingCases \cup ReplyCases \cup ProviderCases \cup EditCases
================================================================================
