------------------------------ MODULE IntakeProofs ------------------------------
(***************************************************************************)
(* Theorems about a contract's way through the nodes, for any contracts,     *)
(* replies, policy packs and edits.  What a fold computes is proved by       *)
(* induction on its list, from the least element of the set of its prefixes  *)
(* for which the claim fails.                                                *)
(***************************************************************************)
EXTENDS ContractIntake, ChunkingProofs, TLAPS

--------------------------------------------------------------------------------
(* What FoldLeft makes of a list of patches. *)

\* The function that FoldLeft's definition goes through, on the prefixes of s up to n.
IsIteration(f, x, s, n) ==
  f = [u \in SUBSET (1..n) |-> IF u = {} THEN x ELSE Update(f[u \ {Max(u)}], s[Max(u)])]

\* There is such a function.
LEMMA IterationExists ==
  ASSUME NEW x, NEW s, NEW n \in Nat
  PROVE  \E f : IsIteration(f, x, s, n)
<1> DEFINE Missing == {k \in 0..n : ~\E f : IsIteration(f, x, s, k)}
<1>1. SUFFICES ASSUME Missing # {}
               PROVE  FALSE
  OBVIOUS
<1>2. PICK m \in Missing : \A k \in Missing : m <= k
  <2>1. Missing \subseteq Nat
    OBVIOUS
  <2> HIDE DEF Missing
  <2> QED BY <1>1, <2>1, LeastNat
<1>3. CASE m = 0
  <2> DEFINE f == [u \in SUBSET (1..0) |-> x]
  <2>1. \A u \in SUBSET (1..0) : u = {}
    OBVIOUS
  <2>2. IsIteration(f, x, s, 0)
    BY <2>1 DEF IsIteration
  <2> QED BY <1>3, <2>2
<1>4. CASE m # 0
  <2>1. m - 1 \in 0..n /\ m - 1 \notin Missing /\ m \in Nat \ {0}
    BY <1>2, <1>4
  <2>2. PICK f : IsIteration(f, x, s, m - 1)
    BY <2>1
  <2> DEFINE g == [u \in SUBSET (1..m) |->
                     IF m \in u THEN Update(f[u \ {m}], s[m]) ELSE f[u]]
  <2>3. ASSUME NEW u \in SUBSET (1..m)
        PROVE  g[u] = IF u = {} THEN x ELSE Update(g[u \ {Max(u)}], s[Max(u)])
    <3>1. CASE m \in u
      <4>1. Max(u) \in u /\ \A k \in u : k <= Max(u)
        BY <2>1, <3>1, MaxOf
      <4>2. Max(u) = m
        <5>1. Max(u) \in 1..m /\ m <= Max(u)
          BY <3>1, <4>1
        <5> QED BY <2>1, <5>1
      <4>3. u \ {m} \in SUBSET (1..m) /\ m \notin u \ {m}
        OBVIOUS
      <4>4. g[u \ {m}] = f[u \ {m}]
        BY <4>3
      <4>5. g[u] = Update(f[u \ {m}], s[m])
        BY <3>1
      <4> QED BY <3>1, <4>2, <4>4, <4>5
    <3>2. CASE m \notin u /\ u = {}
      <4>1. g[u] = f[{}]
        BY <3>2
      <4>2. f[{}] = x
        BY <2>2 DEF IsIteration
      <4> QED BY <3>2, <4>1, <4>2
    <3>3. CASE m \notin u /\ u # {}
      <4>1. u \in SUBSET (1..(m - 1))
        BY <2>1, <3>3
      <4>2. g[u] = f[u]
        BY <3>3
      <4>3. f[u] = Update(f[u \ {Max(u)}], s[Max(u)])
        BY <2>2, <3>3, <4>1 DEF IsIteration
      <4>4. u \ {Max(u)} \in SUBSET (1..m) /\ m \notin u \ {Max(u)}
        BY <3>3
      <4>5. g[u \ {Max(u)}] = f[u \ {Max(u)}]
        BY <4>4
      <4> QED BY <3>3, <4>2, <4>3, <4>5
    <3> QED BY <3>1, <3>2, <3>3
  <2>4. IsIteration(g, x, s, m)
    <3> DEFINE h == [u \in SUBSET (1..m) |->
                       IF u = {} THEN x ELSE Update(g[u \ {Max(u)}], s[Max(u)])]
    <3>1. \A u \in SUBSET (1..m) : g[u] = h[u]
      BY <2>3
    <3>2. g = h
      BY <3>1
    <3> QED BY <3>2 DEF IsIteration
  <2> QED BY <2>4
<1> QED BY <1>3, <1>4

\* Folding Update over a list is applying one patch after the other.
LEMMA FoldUpdate ==
  ASSUME NEW x, NEW s, NEW n \in Nat, DOMAIN s = 1..n
  PROVE  \E f : /\ f[0] = x
                /\ \A k \in 1..n : f[k] = Update(f[k - 1], s[k])
                /\ Patched(x, s) = f[n]
<1> DEFINE iter == CHOOSE f : IsIteration(f, x, s, n)
<1>1. IsIteration(iter, x, s, n)
  BY IterationExists
<1>2. Patched(x, s) = iter[1..n]
  BY DEF Patched, FoldLeft, MapThenFoldSet, IsIteration
<1> HIDE DEF iter
<1> DEFINE f == [k \in 0..n |-> iter[1..k]]
<1>3. f[0] = x
  <2>1. 1..0 = {} /\ 0 \in 0..n
    OBVIOUS
  <2>2. iter[{}] = x
    BY <1>1 DEF IsIteration
  <2> QED BY <2>1, <2>2
<1>4. ASSUME NEW k \in 1..n
      PROVE  f[k] = Update(f[k - 1], s[k])
  <2>1. 1..k \in SUBSET (1..n) /\ 1..k # {} /\ k \in 1..k /\ k \in Nat
    OBVIOUS
  <2>2. Max(1..k) \in 1..k /\ \A j \in 1..k : j <= Max(1..k)
    BY <2>1, MaxOf
  <2>3. Max(1..k) = k
    BY <2>1, <2>2
  <2>4. (1..k) \ {k} = 1..(k - 1)
    BY <2>1
  <2>5. iter[1..k] = Update(iter[(1..k) \ {Max(1..k)}], s[Max(1..k)])
    BY <1>1, <2>1 DEF IsIteration
  <2>6. iter[1..k] = Update(iter[1..(k - 1)], s[k])
    BY <2>3, <2>4, <2>5
  <2>7. k \in 0..n /\ k - 1 \in 0..n
    OBVIOUS
  <2> QED BY <2>6, <2>7
<1>5. f[n] = iter[1..n]
  OBVIOUS
<1> HIDE DEF f
<1> QED BY <1>2, <1>3, <1>4, <1>5

\* What a list of patches makes of an extraction, field by field: the patches that name it
\* and the field, the last of them wins.
Saying(s, x, g) == {n \in DOMAIN s : Names(s[n], x) /\ g \in DOMAIN s[n]}

LEMMA FoldedFields ==
  ASSUME NEW x, NEW s, NEW n \in Nat, DOMAIN s = 1..n
  PROVE  LET y == Patched(x, s)
         IN  /\ y.clause_id = x.clause_id /\ DOMAIN x \subseteq DOMAIN y
             /\ \A g :
                  IF Saying(s, x, g) = {} THEN g \in DOMAIN y => g \in DOMAIN x /\ y[g] = x[g]
                  ELSE y[g] = s[Max(Saying(s, x, g))][g]
<1>1. PICK f : /\ f[0] = x
               /\ \A k \in 1..n : f[k] = Update(f[k - 1], s[k])
               /\ Patched(x, s) = f[n]
  BY FoldUpdate
<1> DEFINE Kept(k) == f[k].clause_id = x.clause_id /\ DOMAIN x \subseteq DOMAIN f[k]
           Old(k) == \A g : (\A j \in 1..k : j \notin Saying(s, x, g)) =>
                              (g \in DOMAIN f[k] => g \in DOMAIN x /\ f[k][g] = x[g])
           New(k) == \A g : \A j \in 1..k :
                       j \in Saying(s, x, g) /\ (\A l \in (j + 1)..k : l \notin Saying(s, x, g))
                         => g \in DOMAIN f[k] /\ f[k][g] = s[j][g]
           Wrong == {k \in 0..n : ~(Kept(k) /\ Old(k) /\ New(k))}
<1>2. Kept(0) /\ Old(0) /\ New(0)
  BY <1>1
<1>3. ASSUME NEW k \in 1..n, Kept(k - 1), Old(k - 1), New(k - 1)
      PROVE  Kept(k) /\ Old(k) /\ New(k)
  <2>1. f[k] = Update(f[k - 1], s[k])
    BY <1>1
  <2>2. k \in Nat /\ k - 1 \in Nat /\ k \in DOMAIN s
    OBVIOUS
  <2>3. \A j \in 1..k : j \in 1..(k - 1) \/ j = k
    BY <2>2
  <2>4. 1..(k - 1) \subseteq 1..k /\ k \in 1..k
    BY <2>2
  <2>5. \A j \in 1..(k - 1) : k \in (j + 1)..k /\ (j + 1)..(k - 1) \subseteq (j + 1)..k
    BY <2>2
  <2>6. CASE ~Names(s[k], x)
    <3>1. f[k] = f[k - 1]
      BY <1>3, <2>1, <2>6 DEF Update, Names
    <3>2. \A g : k \notin Saying(s, x, g)
      BY <2>6 DEF Saying
    <3>3. Old(k)
      BY <1>3, <2>4, <3>1
    <3>4. New(k)
      <4>1. SUFFICES ASSUME NEW g, NEW j \in 1..k, j \in Saying(s, x, g),
                            \A l \in (j + 1)..k : l \notin Saying(s, x, g)
                     PROVE  g \in DOMAIN f[k] /\ f[k][g] = s[j][g]
        OBVIOUS
      <4>2. j \in 1..(k - 1)
        BY <2>3, <3>2, <4>1
      <4>3. \A l \in (j + 1)..(k - 1) : l \notin Saying(s, x, g)
        BY <2>5, <4>1, <4>2
      <4> QED BY <1>3, <3>1, <4>1, <4>2, <4>3
    <3> QED BY <1>3, <3>1, <3>3, <3>4
  <2>7. CASE Names(s[k], x)
    <3>1. Names(s[k], f[k - 1])
      BY <1>3, <2>7 DEF Names
    <3>2. f[k] = [g \in DOMAIN s[k] \cup DOMAIN f[k - 1] |->
                    IF g \in DOMAIN s[k] THEN s[k][g] ELSE f[k - 1][g]]
      BY <2>1, <3>1 DEF Update
    <3>3. \A g : g \in DOMAIN s[k] => g \in DOMAIN f[k] /\ f[k][g] = s[k][g]
      BY <3>2
    <3>4. \A g : g \in DOMAIN f[k] /\ g \notin DOMAIN s[k] =>
                   g \in DOMAIN f[k - 1] /\ f[k][g] = f[k - 1][g]
      BY <3>2
    <3>5. \A g : k \in Saying(s, x, g) <=> g \in DOMAIN s[k]
      BY <2>2, <2>7 DEF Saying
    <3>6. Kept(k)
      BY <1>3, <2>7, <3>2, <3>3 DEF Names
    <3>7. Old(k)
      <4>1. SUFFICES ASSUME NEW g, \A j \in 1..k : j \notin Saying(s, x, g), g \in DOMAIN f[k]
                     PROVE  g \in DOMAIN x /\ f[k][g] = x[g]
        OBVIOUS
      <4>2. g \notin DOMAIN s[k]
        BY <2>4, <3>5, <4>1
      <4>3. g \in DOMAIN f[k - 1] /\ f[k][g] = f[k - 1][g]
        BY <3>4, <4>1, <4>2
      <4> QED BY <1>3, <2>4, <4>1, <4>3
    <3>8. New(k)
      <4>1. SUFFICES ASSUME NEW g, NEW j \in 1..k, j \in Saying(s, x, g),
                            \A l \in (j + 1)..k : l \notin Saying(s, x, g)
                     PROVE  g \in DOMAIN f[k] /\ f[k][g] = s[j][g]
        OBVIOUS
      <4>2. CASE j = k
        BY <3>3, <3>5, <4>1, <4>2
      <4>3. CASE j \in 1..(k - 1)
        <5>1. g \notin DOMAIN s[k]
          BY <2>5, <3>5, <4>1, <4>3
        <5>2. \A l \in (j + 1)..(k - 1) : l \notin Saying(s, x, g)
          BY <2>5, <4>1, <4>3
        <5>3. g \in DOMAIN f[k - 1] /\ f[k - 1][g] = s[j][g]
          BY <1>3, <4>1, <4>3, <5>2
        <5> QED BY <3>2, <5>1, <5>3
      <4> QED BY <2>3, <4>2, <4>3
    <3> QED BY <3>6, <3>7, <3>8
  <2> QED BY <2>6, <2>7
<1>4. Wrong = {}
  <2>1. SUFFICES ASSUME Wrong # {}
                 PROVE  FALSE
    OBVIOUS
  <2>2. Wrong \subseteq Nat
    OBVIOUS
  <2>3. PICK k \in Wrong : \A j \in Wrong : k <= j
    <3> HIDE DEF Wrong
    <3> QED BY <2>1, <2>2, LeastNat
  <2>4. k \in 0..n /\ ~(Kept(k) /\ Old(k) /\ New(k))
    OBVIOUS
  <2>5. k # 0
    BY <1>2, <2>4
  <2>6. k \in 1..n /\ k - 1 \in 0..n /\ ~(k <= k - 1)
    BY <2>4, <2>5
  <2>7. k - 1 \notin Wrong
    BY <2>3, <2>6
  <2>8. Kept(k - 1) /\ Old(k - 1) /\ New(k - 1)
    BY <2>6, <2>7
  <2> HIDE DEF Kept, Old, New
  <2> QED BY <1>3, <2>4, <2>6, <2>8
<1>5. n \in 0..n
  OBVIOUS
<1>6. Kept(n) /\ Old(n) /\ New(n)
  <2> HIDE DEF Kept, Old, New
  <2> QED BY <1>4, <1>5
<1>7. ASSUME NEW g, Saying(s, x, g) = {}, g \in DOMAIN f[n]
      PROVE  g \in DOMAIN x /\ f[n][g] = x[g]
  BY <1>6, <1>7
<1>8. ASSUME NEW g, Saying(s, x, g) # {}
      PROVE  f[n][g] = s[Max(Saying(s, x, g))][g]
  <2> DEFINE m == Max(Saying(s, x, g))
  <2>1. Saying(s, x, g) \subseteq 1..n
    BY DEF Saying
  <2>2. m \in Saying(s, x, g) /\ \A k \in Saying(s, x, g) : k <= m
    BY <1>8, <2>1, MaxOf
  <2>3. m \in 1..n
    BY <2>1, <2>2
  <2> HIDE DEF m
  <2>4. ASSUME NEW l \in (m + 1)..n
        PROVE  l \notin Saying(s, x, g)
    <3>1. ~(l <= m)
      BY <2>3
    <3> QED BY <2>2, <3>1
  <2>5. f[n][g] = s[m][g]
    BY <1>6, <2>2, <2>3, <2>4
  <2> QED BY <2>5 DEF m
<1> QED BY <1>1, <1>6, <1>7, <1>8

--------------------------------------------------------------------------------
(* What a reviewer's edits make of an extraction. *)

\* An edited extraction has its clause and its reviewer lines; a field the reviewer patched has
\* what they said last, risk patches coming after extraction patches, and any other is as it
\* was.
LEMMA EditedFields ==
  ASSUME NEW x, NEW e, NEW r, IsList(e), IsList(r), "clause_id" \in DOMAIN x
  PROVE  LET y == EditedExtraction(x, e, r)
         IN  /\ y.clause_id = x.clause_id
             /\ y.reviewer_lines = ReviewerReasons(x, r)
             /\ \A g \in DOMAIN y \ {"reviewer_lines"} :
                  IF Saying(RiskParts(r), x, g) # {}
                  THEN y[g] = RiskParts(r)[Max(Saying(RiskParts(r), x, g))][g]
                  ELSE IF Saying(e, x, g) # {} THEN y[g] = e[Max(Saying(e, x, g))][g]
                  ELSE g \in DOMAIN x /\ y[g] = x[g]
<1> DEFINE z == Patched(x, e)
           w == Patched(z, RiskParts(r))
           y == WithReasons(w, ReviewerReasons(x, r))
<1>1. /\ z.clause_id = x.clause_id /\ DOMAIN x \subseteq DOMAIN z
      /\ \A g : IF Saying(e, x, g) = {} THEN g \in DOMAIN z => g \in DOMAIN x /\ z[g] = x[g]
                ELSE z[g] = e[Max(Saying(e, x, g))][g]
  BY FoldedFields DEF IsList
<1>2. Len(r) \in Nat /\ DOMAIN RiskParts(r) = 1..Len(r)
  BY DEF IsList, RiskParts
<1> HIDE DEF z
<1>3. /\ w.clause_id = z.clause_id /\ DOMAIN z \subseteq DOMAIN w
      /\ \A g : IF Saying(RiskParts(r), z, g) = {}
                THEN g \in DOMAIN w => g \in DOMAIN z /\ w[g] = z[g]
                ELSE w[g] = RiskParts(r)[Max(Saying(RiskParts(r), z, g))][g]
  BY <1>2, FoldedFields
<1>4. \A g : Saying(RiskParts(r), z, g) = Saying(RiskParts(r), x, g)
  BY <1>1 DEF Saying, Names
<1>5. EditedExtraction(x, e, r) = y
  BY DEF EditedExtraction, z
<1> HIDE DEF w
<1>6. y.reviewer_lines = ReviewerReasons(x, r)
  BY DEF WithReasons
<1>7. \A g \in DOMAIN y \ {"reviewer_lines"} : g \in DOMAIN w /\ y[g] = w[g]
  BY DEF WithReasons
<1>8. y.clause_id = w.clause_id
  BY <1>1, <1>3 DEF WithReasons
<1> HIDE DEF y
<1> QED BY <1>1, <1>3, <1>4, <1>5, <1>6, <1>7, <1>8

--------------------------------------------------------------------------------
(* Extraction and policy. *)

\* Every extraction has the number of its clause, and a confidence that is a number.
LEMMA NormalizedExtractions ==
  ASSUME NEW cs, NEW items, NEW i \in DOMAIN cs
  PROVE  NormalizeExtractions(cs, items)[i].clause_id = cs[i].clause_id
BY DEF NormalizeExtractions, HeuristicExtractClause, Merged

LEMMA HeuristicExtractions ==
  ASSUME NEW cs, NEW i \in DOMAIN cs
  PROVE  LET x == HeuristicExtractContract(cs)[i]
         IN  /\ x.clause_id = cs[i].clause_id
             /\ x.confidence \in 0..100
             /\ x.evidence_spans = "list"
<1>1. HeuristicRisk(cs[i].text)[2] \in {90, 82, 92}
  BY DEF HeuristicRisk
<1>2. HeuristicExtractContract(cs)[i] = HeuristicExtractClause(cs[i])
  BY DEF HeuristicExtractContract
<1> HIDE DEF HeuristicRisk
<1> QED BY <1>1, <1>2 DEF HeuristicExtractClause

\* Nothing is said against an extraction that is sure enough, of a type that is not blocked,
\* not high-risk and complete.
LEMMA NoObjection ==
  ASSUME NEW x, NEW pack, x.confidence \in Int, pack.review \in Int
  PROVE  Reasons(x, pack) = {} <=>
           /\ x.confidence >= pack.review
           /\ x.clause_type \notin pack.blocked
           /\ x.risk_level # "high"
           /\ \A f \in pack.required : x[f] # ""
<1> DEFINE unsure == x.confidence < pack.review
           blocked == x.clause_type \in pack.blocked
           high == x.risk_level = "high"
           missing == \E f \in pack.required : x[f] = ""
<1>1. x.confidence >= pack.review <=> ~unsure
  OBVIOUS
<1>2. Objections(x, pack) =
        [confidence_below_threshold |-> unsure, blocked_clause_type |-> blocked,
         high_risk_clause_detected |-> high, missing_required_fields |-> missing]
  BY DEF Objections
<1>3. (\A f \in pack.required : x[f] # "") <=> ~missing
  OBVIOUS
<1>4. x.clause_type \notin pack.blocked <=> ~blocked
  OBVIOUS
<1> HIDE DEF unsure, blocked, high, missing
<1>5. DOMAIN Objections(x, pack) =
        {"confidence_below_threshold", "blocked_clause_type", "high_risk_clause_detected",
         "missing_required_fields"}
  BY <1>2
<1>6. /\ Objections(x, pack)["confidence_below_threshold"] = unsure
      /\ Objections(x, pack)["blocked_clause_type"] = blocked
      /\ Objections(x, pack)["high_risk_clause_detected"] = high
      /\ Objections(x, pack)["missing_required_fields"] = missing
  BY <1>2
<1>7. Reasons(x, pack) = {} <=> ~unsure /\ ~blocked /\ ~high /\ ~missing
  <2>1. \A s : s \in Reasons(x, pack) <=>
                 \/ s = "confidence_below_threshold" /\ unsure
                 \/ s = "blocked_clause_type" /\ blocked
                 \/ s = "high_risk_clause_detected" /\ high
                 \/ s = "missing_required_fields" /\ missing
    BY <1>5, <1>6 DEF Reasons
  <2> QED BY <2>1
<1> QED BY <1>1, <1>3, <1>4, <1>7 DEF high

\* The policy lets a contract through exactly if it is of the kind "clean".
LEMMA PolicyRoute ==
  ASSUME Sensible(in), \A i \in DOMAIN extractions : extractions[i].confidence \in Int,
         extractions = <<>> <=> DOMAIN extractions = {}
  PROVE  Evaluate(extractions, in.pack).route
           = IF Kind = "clean" THEN "auto_advance" ELSE "human_review"
<1> DEFINE clean == \A i \in DOMAIN extractions : Clean(extractions[i])
<1>1. in.pack.auto \in Int /\ in.pack.review \in Int
  BY DEF Sensible
<1>2. AllReasons(extractions, in.pack) = {}
        <=> \A i \in DOMAIN extractions : Reasons(extractions[i], in.pack) = {}
  BY DEF AllReasons
<1>3. ASSUME NEW i \in DOMAIN extractions
      PROVE  Reasons(extractions[i], in.pack) = {} /\ extractions[i].confidence >= in.pack.auto
               /\ extractions[i].risk_level = "low"
             <=> Clean(extractions[i])
  BY <1>1, NoObjection DEF Clean
<1>4. AllReasons(extractions, in.pack) = {} /\ Eligible(extractions, in.pack) <=> clean
  BY <1>2, <1>3 DEF Eligible
<1>5. Kind = "clean" <=> extractions # <<>> /\ clean
  BY DEF Kind
<1>6. CASE AllReasons(extractions, in.pack) # {}
  <2>1. ~clean
    BY <1>4, <1>6
  <2> HIDE DEF clean
  <2> QED BY <1>5, <1>6, <2>1 DEF Evaluate
<1>7. CASE AllReasons(extractions, in.pack) = {}
  <2>1. Eligible(extractions, in.pack) <=> clean
    BY <1>4, <1>7
  <2> HIDE DEF clean
  <2> QED BY <1>5, <1>7, <2>1 DEF Evaluate
<1> QED BY <1>6, <1>7

--------------------------------------------------------------------------------
(* The invariant. *)

\* Extractions nobody has edited are in order, and of the form the policy and the report
\* take.
LEMMA ExtractedShape ==
  ASSUME Extracted
  PROVE  /\ \A i \in DOMAIN extractions : /\ extractions[i].confidence \in 0..100
                                          /\ extractions[i].evidence_spans = "list"
         /\ \A i \in DOMAIN extractions : "clause_id" \in DOMAIN extractions[i]
         /\ extractions = <<>> <=> DOMAIN extractions = {}
         /\ by \notin {"model", "heuristic"} => extractions = <<>>
<1>1. CASE by = "model"
  <2>1. extractions = NormalizeExtractions(clauses, in.reply.items)
    BY <1>1 DEF Extracted
  <2>2. \A i \in DOMAIN extractions : Valid(extractions[i])
    BY <1>1 DEF Extracted
  <2>3. extractions = [i \in DOMAIN extractions |-> extractions[i]]
    BY <2>1 DEF NormalizeExtractions
  <2>4. ASSUME NEW i \in DOMAIN extractions
        PROVE  "clause_id" \in DOMAIN extractions[i]
    BY <2>1 DEF NormalizeExtractions, HeuristicExtractClause, Merged
  <2> QED BY <1>1, <2>2, <2>3, <2>4 DEF Valid
<1>2. CASE by = "heuristic"
  <2>1. extractions = HeuristicExtractContract(clauses)
    BY <1>2 DEF Extracted
  <2>2. extractions = [i \in DOMAIN extractions |-> extractions[i]]
    BY <2>1 DEF HeuristicExtractContract
  <2>3. \A i \in DOMAIN clauses : /\ extractions[i].confidence \in 0..100
                                  /\ extractions[i].evidence_spans = "list"
    BY <2>1, HeuristicExtractions
  <2>4. DOMAIN extractions = DOMAIN clauses
    BY <2>1 DEF HeuristicExtractContract
  <2>5. ASSUME NEW i \in DOMAIN extractions
        PROVE  "clause_id" \in DOMAIN extractions[i]
    BY <2>1 DEF HeuristicExtractContract, HeuristicExtractClause
  <2> QED BY <1>2, <2>2, <2>3, <2>4, <2>5
<1>3. CASE by \notin {"model", "heuristic"}
  BY <1>3 DEF Extracted
<1> QED BY <1>1, <1>2, <1>3

LEMMA IntakeInitially == IntakeInit => IntakeInv
<1> SUFFICES ASSUME IntakeInit
             PROVE  IntakeInv
  OBVIOUS
<1>1. Sensible(in)
  BY CasesAssumption DEF IntakeInit
<1> QED BY <1>1 DEF IntakeInit, IntakeInv, ParsedText

\* A sensible document is read as a text.
LEMMA SensibleText ==
  ASSUME Sensible(in)
  PROVE  /\ in.document.parts \in Seq(Text)
         /\ ReadContract(in.document) \in Text
         /\ InkOf(ReadContract(in.document)) = InkOf(FlattenSeq(in.document.parts))
<1>1. Seq(STRING) \subseteq Text
  <2>1. \A s \in Seq(STRING) : s \in Seq(Words)
    BY SeqMonotonic DEF Words
  <2> QED BY <2>1 DEF Text
<1>2. in.document.parts \in Seq(Seq(STRING)) /\ (in.document.kind = "text" => Len(in.document.parts) = 1)
  BY DEF Sensible
<1>3. in.document.parts \in Seq(Text)
  BY <1>1, <1>2, SeqMonotonic
<1> QED BY <1>2, <1>3, ReadInk

LEMMA ParseKeeps == IntakeInv /\ Parse => IntakeInv'
<1> SUFFICES ASSUME IntakeInv, Parse
             PROVE  IntakeInv'
  OBVIOUS
<1>1. /\ in' = in /\ Sensible(in) /\ Parsable /\ clauses' # <<>>
      /\ raw_text' = NormalizedText /\ clauses' = ChunkIntoClauses(NormalizedText)
      /\ extractions' = <<>> /\ by' = "nobody" /\ route' = "none" /\ stage' = "extract"
  BY DEF Parse, Parsable, IntakeInv
<1>2. ParsedText'
  <2>1. NormalizedText' = NormalizedText /\ Parsable' = Parsable
    BY <1>1 DEF NormalizedText, Parsable
  <2> QED BY <1>1, <2>1 DEF ParsedText
<1>3. /\ clauses' = <<>> <=> DOMAIN clauses' = {}
      /\ \A i \in DOMAIN clauses' : clauses'[i].clause_id = i
  BY <1>1, SensibleText, ClauseSpans DEF NormalizedText
<1> QED BY <1>1, <1>2, <1>3 DEF IntakeInv, Sensible

\* What the other steps leave alone.
LEMMA ParsedTextStays ==
  ASSUME IntakeInv, UNCHANGED <<in, raw_text, clauses>>, stage # "parse", stage' # "parse"
  PROVE  ParsedText' /\ Sensible(in)'
<1>1. ParsedText /\ Sensible(in)
  BY DEF IntakeInv
<1>2. NormalizedText' = NormalizedText /\ Parsable' = Parsable
  BY DEF NormalizedText, Parsable
<1> QED BY <1>1, <1>2 DEF ParsedText, Sensible

LEMMA ParseUnsupportedKeeps == IntakeInv /\ ParseUnsupported => IntakeInv'
<1> SUFFICES ASSUME IntakeInv, ParseUnsupported
             PROVE  IntakeInv'
  OBVIOUS
<1>1. /\ in' = in /\ Sensible(in) /\ ~Parsable /\ stage = "parse" /\ stage' = "end"
      /\ raw_text' = raw_text /\ clauses' = clauses /\ ParsedText
  BY DEF ParseUnsupported, IntakeInv
<1>2. ParsedText'
  <2>1. Parsable' = Parsable
    BY <1>1 DEF NormalizedText, Parsable
  <2> QED BY <1>1, <2>1 DEF ParsedText
<1> QED BY <1>1, <1>2 DEF IntakeInv, ParseUnsupported, Sensible

LEMMA ExtractKeeps == IntakeInv /\ Extract => IntakeInv'
<1> SUFFICES ASSUME IntakeInv, Extract
             PROVE  IntakeInv'
  OBVIOUS
<1> DEFINE model == CanBuildProvider(in.provider, in.env) /\ Usable(clauses, in.reply)
           rules == ~model /\ EnvFlag(in.fallback, TRUE) /\ in.provider # "null"
           result == ExtractContractDetails(clauses, in)
<1>1. /\ Sensible(in) /\ \A i \in DOMAIN clauses : clauses[i].clause_id = i
      /\ route = "none" /\ DOMAIN clauses # {}
      /\ clauses' = clauses /\ in' = in /\ stage' = "check"
      /\ by' = result.by /\ extractions' = result.extractions
      /\ route' = IF result.by = "nobody" THEN "audit_only" ELSE route
  BY DEF IntakeInv, Extract
<1>2. ParsedText' /\ Sensible(in)'
  BY ParsedTextStays DEF Extract
<1>3. CASE model
  <2>1. by' = "model" /\ extractions' = NormalizeExtractions(clauses, in.reply.items)
    BY <1>1, <1>3 DEF ExtractContractDetails
  <2>2. \A i \in DOMAIN extractions' : Valid(extractions'[i])
    BY <1>3, <2>1 DEF Usable
  <2>3. Extracted'
    BY <1>1, <2>1, <2>2 DEF Extracted
  <2>4. /\ DOMAIN extractions' = DOMAIN clauses'
        /\ \A i \in DOMAIN extractions' : extractions'[i].clause_id = i
    <3>1. DOMAIN extractions' = DOMAIN clauses
      BY <2>1 DEF NormalizeExtractions
    <3>2. ASSUME NEW i \in DOMAIN clauses
          PROVE  extractions'[i].clause_id = i
      BY <1>1, <2>1, NormalizedExtractions
    <3> QED BY <1>1, <3>1, <3>2
  <2> QED BY <1>1, <1>2, <2>1, <2>3, <2>4 DEF IntakeInv
<1>4. CASE rules
  <2>1. by' = "heuristic" /\ extractions' = HeuristicExtractContract(clauses)
    BY <1>1, <1>4 DEF ExtractContractDetails
  <2>2. Extracted'
    BY <1>1, <2>1 DEF Extracted
  <2>3. /\ DOMAIN extractions' = DOMAIN clauses'
        /\ \A i \in DOMAIN extractions' : extractions'[i].clause_id = i
    <3>1. DOMAIN extractions' = DOMAIN clauses
      BY <2>1 DEF HeuristicExtractContract
    <3>2. ASSUME NEW i \in DOMAIN clauses
          PROVE  extractions'[i].clause_id = i
      BY <1>1, <2>1, HeuristicExtractions
    <3> QED BY <1>1, <3>1, <3>2
  <2> QED BY <1>1, <1>2, <2>1, <2>2, <2>3 DEF IntakeInv
<1>5. CASE ~model /\ ~rules
  <2>1. by' = "nobody" /\ extractions' = <<>>
    BY <1>1, <1>5 DEF ExtractContractDetails
  <2>2. Extracted'
    BY <2>1 DEF Extracted
  <2> QED BY <1>1, <1>2, <2>1, <2>2 DEF IntakeInv
<1> QED BY <1>3, <1>4, <1>5

LEMMA CheckKeeps == IntakeInv /\ Check => IntakeInv'
<1> SUFFICES ASSUME IntakeInv, Check
             PROVE  IntakeInv'
  OBVIOUS
<1>1. /\ Sensible(in) /\ DOMAIN clauses # {} /\ Extracted
      /\ \A i \in DOMAIN clauses : clauses[i].clause_id = i
      /\ by # "nobody" => /\ DOMAIN extractions = DOMAIN clauses
                          /\ \A i \in DOMAIN extractions : extractions[i].clause_id = i
  BY DEF IntakeInv, Check
<1>2. Evaluate(extractions, in.pack).route
        = IF Kind = "clean" THEN "auto_advance" ELSE "human_review"
  <2>1. \A i \in DOMAIN extractions : extractions[i].confidence \in Int
    <3>1. \A i \in DOMAIN extractions : extractions[i].confidence \in 0..100
      BY <1>1, ExtractedShape
    <3> QED BY <3>1
  <2> QED BY <1>1, <2>1, ExtractedShape, PolicyRoute
<1>3. /\ in' = in /\ clauses' = clauses /\ extractions' = extractions /\ by' = by
      /\ in.pack.loads
      /\ route' = Evaluate(extractions, in.pack).route
      /\ stage' = IF route' = "auto_advance" THEN "end" ELSE "review"
  BY DEF Check
<1>4. Extracted' = Extracted /\ Kind' = Kind /\ Sensible(in)' /\ ParsedText'
  <2>1. ParsedText' /\ Sensible(in)'
    BY ParsedTextStays DEF Check
  <2> QED BY <1>1, <1>3, <2>1 DEF Extracted, Kind, Clean
<1> HIDE DEF Kind
<1> QED BY <1>1, <1>2, <1>3, <1>4 DEF IntakeInv

LEMMA CheckFailsKeeps == IntakeInv /\ CheckFails => IntakeInv'
<1> SUFFICES ASSUME IntakeInv, CheckFails
             PROVE  IntakeInv'
  OBVIOUS
<1>1. ParsedText' /\ Sensible(in)'
  BY ParsedTextStays DEF CheckFails
<1> QED BY <1>1 DEF IntakeInv, CheckFails

\* Edits keep every extraction with its clause.
LEMMA EditsKeepClauses ==
  ASSUME Sensible(in), NEW i \in DOMAIN extractions, "clause_id" \in DOMAIN extractions[i]
  PROVE  ApplyReviewerEdits(extractions, in.edits)[i].clause_id = extractions[i].clause_id
<1>1. IsList(in.edits.extractions) /\ IsList(in.edits.risks)
  BY DEF Sensible
<1>2. ApplyReviewerEdits(extractions, in.edits)[i]
        = EditedExtraction(extractions[i], in.edits.extractions, in.edits.risks)
  BY DEF ApplyReviewerEdits
<1> QED BY <1>1, <1>2, EditedFields

LEMMA ReviewKeeps == IntakeInv /\ Review => IntakeInv'
<1> SUFFICES ASSUME IntakeInv, Review
             PROVE  IntakeInv'
  OBVIOUS
<1>1. /\ Sensible(in) /\ DOMAIN clauses # {} /\ route # "auto_advance"
      /\ \A i \in DOMAIN clauses : clauses[i].clause_id = i
      /\ by # "nobody" => /\ DOMAIN extractions = DOMAIN clauses
                          /\ \A i \in DOMAIN extractions : extractions[i].clause_id = i
  BY DEF IntakeInv, Review
<1>2. /\ in' = in /\ clauses' = clauses /\ by' = by /\ route' = route /\ stage' = "end"
      /\ extractions' = ApplyReviewerEdits(extractions, in.edits)
  BY DEF Review
<1>3. DOMAIN extractions' = DOMAIN extractions
  BY <1>2 DEF ApplyReviewerEdits
<1>4. \A i \in DOMAIN extractions' : extractions'[i].clause_id = extractions[i].clause_id
  <2>1. \A i \in DOMAIN extractions : "clause_id" \in DOMAIN extractions[i]
    BY ExtractedShape DEF IntakeInv, Review
  <2> QED BY <1>1, <1>2, <1>3, <2>1, EditsKeepClauses
<1>5. ParsedText' /\ Sensible(in)'
  BY ParsedTextStays DEF Review
<1> QED BY <1>1, <1>2, <1>3, <1>4, <1>5 DEF IntakeInv

LEMMA ReviewRaisesKeeps == IntakeInv /\ ReviewRaises => IntakeInv'
<1> SUFFICES ASSUME IntakeInv, ReviewRaises
             PROVE  IntakeInv'
  OBVIOUS
<1>1. ParsedText' /\ Sensible(in)'
  BY ParsedTextStays DEF ReviewRaises
<1> QED BY <1>1 DEF IntakeInv, ReviewRaises

\* What a contract brings along to each node, and to an approval, in every behaviour.
THEOREM IntakeInvariance == IntakeSpec => []IntakeInv
<1>1. IntakeInv /\ [IntakeNext]_intakeVars => IntakeInv'
  <2> SUFFICES ASSUME IntakeInv, [IntakeNext]_intakeVars
               PROVE  IntakeInv'
    OBVIOUS
  <2>1. CASE UNCHANGED intakeVars
    <3>1. ParsedText' = ParsedText
      BY <2>1 DEF intakeVars, ParsedText, NormalizedText, Parsable
    <3> QED BY <2>1, <3>1 DEF intakeVars, IntakeInv, Sensible, Extracted, Kind, Clean
  <2> QED BY <2>1, ParseKeeps, ParseUnsupportedKeeps, ExtractKeeps, CheckKeeps, CheckFailsKeeps,
             ReviewKeeps, ReviewRaisesKeeps DEF IntakeNext
<1> QED BY <1>1, IntakeInitially, PTL DEF IntakeSpec

\* One extraction for every clause, in order, whatever the reply and the edits name.
THEOREM IntakeOneExtractionPerClause == IntakeSpec => []OneExtractionPerClause
<1>1. IntakeInv => OneExtractionPerClause
  <2> SUFFICES ASSUME IntakeInv, by # "nobody"
               PROVE  [i \in DOMAIN extractions |-> extractions[i].clause_id]
                        = [i \in DOMAIN clauses |-> i]
    BY DEF OneExtractionPerClause
  <2>1. /\ DOMAIN extractions = DOMAIN clauses
        /\ \A i \in DOMAIN extractions : extractions[i].clause_id = i
    BY DEF IntakeInv
  <2> QED BY <2>1
<1> QED BY <1>1, IntakeInvariance, PTL

--------------------------------------------------------------------------------
(* The clauses and the document. *)

\* The spans of the clauses are right in the text the node keeps, whatever blanks the
\* document has and however its paragraphs repeat each other.
THEOREM IntakeSpansMatchText == IntakeSpec => []SpansMatchText
<1>1. IntakeInv => SpansMatchText
  <2> SUFFICES ASSUME IntakeInv
               PROVE  SpansMatchText
    OBVIOUS
  <2>1. Sensible(in) /\ ParsedText
    BY DEF IntakeInv
  <2>2. CASE stage # "parse" /\ Parsable
    <3>1. /\ raw_text = Normalize(ReadContract(in.document))
          /\ clauses = ChunkIntoClauses(raw_text)
      BY <2>1, <2>2 DEF ParsedText, NormalizedText
    <3> QED BY <2>1, <3>1, SensibleText, ClauseSpans DEF SpansMatchText
  <2>3. CASE ~(stage # "parse" /\ Parsable)
    <3>1. clauses = <<>>
      BY <2>1, <2>3 DEF ParsedText
    <3>2. DOMAIN <<>> = {}
      OBVIOUS
    <3> QED BY <3>1, <3>2 DEF SpansMatchText
  <2> QED BY <2>2, <2>3
<1> QED BY <1>1, IntakeInvariance, PTL

\* A document refused for want of clauses has no words.
LEMMA RefusedWithoutWords ==
  ASSUME Sensible(in), ~Parsable, in.document.kind # "other"
  PROVE  InkOf(FlattenSeq(in.document.parts)) = <<>>
<1>1. /\ in.document.parts \in Seq(Text) /\ ReadContract(in.document) \in Text
      /\ InkOf(ReadContract(in.document)) = InkOf(FlattenSeq(in.document.parts))
  BY SensibleText
<1>2. CASE Unsupported(in.document)
  <2>1. JoinParts(in.document.parts) = <<>>
    BY <1>2 DEF Unsupported
  <2>2. InkOf(<<>>) = <<>>
    <3>1. <<>> \in Text /\ Ink(<<>>) = {}
      BY EmptySeq DEF Text, Ink
    <3> QED BY <3>1, NoInk
  <2> QED BY <1>1, <2>1, <2>2, JoinedInk
<1>3. CASE ChunkIntoClauses(NormalizedText) = <<>>
  <2> DEFINE cs == ChunkIntoClauses(Normalize(ReadContract(in.document)))
  <2>1. cs = <<>>
    BY <1>3 DEF NormalizedText
  <2>2. FlattenSeq([i \in DOMAIN cs |-> InkOf(cs[i].text)]) = InkOf(ReadContract(in.document))
    BY <1>1, ClauseInk
  <2> HIDE DEF cs
  <2>3. [i \in DOMAIN cs |-> InkOf(cs[i].text)] = <<>>
    BY <2>1
  <2>4. FlattenSeq(<<>>) = <<>>
    BY DEF FlattenSeq
  <2> QED BY <1>1, <2>2, <2>3, <2>4
<1> QED BY <1>2, <1>3 DEF Parsable

\* The clauses have the words of the document, all of them and in order; a document that is
\* refused has none.
THEOREM IntakeNothingLost == IntakeSpec => []NothingLost
<1>1. IntakeInv => NothingLost
  <2> SUFFICES ASSUME IntakeInv, stage # "parse", in.document.kind # "other"
               PROVE  FlattenSeq([i \in DOMAIN clauses |-> InkOf(clauses[i].text)])
                        = InkOf(FlattenSeq(in.document.parts))
    BY DEF NothingLost
  <2>1. Sensible(in) /\ ParsedText
    BY DEF IntakeInv
  <2>2. CASE Parsable
    <3>1. clauses = ChunkIntoClauses(Normalize(ReadContract(in.document)))
      BY <2>1, <2>2 DEF ParsedText, NormalizedText
    <3> QED BY <2>1, <3>1, SensibleText, ClauseInk
  <2>3. CASE ~Parsable
    <3>1. clauses = <<>>
      BY <2>1, <2>3 DEF ParsedText
    <3>2. [i \in DOMAIN clauses |-> InkOf(clauses[i].text)] = <<>>
      BY <3>1
    <3>3. FlattenSeq(<<>>) = <<>>
      BY DEF FlattenSeq
    <3> QED BY <2>1, <2>3, <3>2, <3>3, RefusedWithoutWords
  <2> QED BY <2>2, <2>3
<1> QED BY <1>1, IntakeInvariance, PTL

--------------------------------------------------------------------------------
(* Approvals without a reviewer. *)

\* A text the rules call low-risk has none of the risk terms; and it has a keyword of the four
\* types they never call low-risk only if it has one of the three they look for before.
LEMMA LowByRules ==
  ASSUME NEW t, HeuristicRisk(t)[1] = "low"
  PROVE  /\ \A p \in HighRiskTerms \cup MediumRiskTerms : ~Mentions(t, p)
         /\ \A w \in {"liability", "indemn", "termination", "renewal"} :
              Mentions(t, <<w>>) => \E p \in {"payment", "fee", "invoice"} : Mentions(t, <<p>>)
<1> DEFINE type == HeuristicType(t)
           high == (\E p \in HighRiskTerms : Mentions(t, p)) \/ type \in {"liability", "indemnity"}
           medium == (\E p \in MediumRiskTerms : Mentions(t, p))
                       \/ type \in {"termination", "renewal"}
           found == {n \in DOMAIN TypeKeywords : Mentions(t, TypeKeywords[n][1])}
<1>1. ~high /\ ~medium
  <2>1. HeuristicRisk(t) = CASE high -> <<"high", 92>>
                             [] medium -> <<"medium", 82>>
                             [] OTHER -> <<"low", 90>>
    BY DEF HeuristicRisk
  <2> HIDE DEF high, medium
  <2> QED BY <2>1
<1>2. \A p \in HighRiskTerms \cup MediumRiskTerms : ~Mentions(t, p)
  BY <1>1
<1>3. type \notin {"liability", "indemnity", "termination", "renewal"}
  BY <1>1
<1>4. /\ DOMAIN TypeKeywords = 1..11
      /\ TypeKeywords[1] = <<<<"payment">>, "payment">>
      /\ TypeKeywords[2] = <<<<"fee">>, "payment">>
      /\ TypeKeywords[3] = <<<<"invoice">>, "payment">>
      /\ TypeKeywords[4] = <<<<"liability">>, "liability">>
      /\ TypeKeywords[5] = <<<<"indemn">>, "indemnity">>
      /\ TypeKeywords[6] = <<<<"termination">>, "termination">>
      /\ TypeKeywords[7] = <<<<"renewal">>, "renewal">>
  BY DEF TypeKeywords
<1>5. type = IF found = {} THEN "general" ELSE TypeKeywords[Min(found)][2]
  BY DEF HeuristicType
<1>6. \A n \in 1..11 : n \in found <=> Mentions(t, TypeKeywords[n][1])
  BY <1>4
<1>7. found \subseteq Nat /\ found \subseteq 1..11
  BY <1>4
<1> HIDE DEF type, found, high, medium
<1>8. ASSUME NEW n \in 4..7, n \in found
      PROVE  \E p \in {"payment", "fee", "invoice"} : Mentions(t, <<p>>)
  <2>1. Min(found) \in found /\ Min(found) <= n
    BY <1>7, <1>8, MinOf
  <2>2. Min(found) \in {1, 2, 3, 4, 5, 6, 7}
    <3>1. Min(found) \in 1..11
      BY <1>7, <2>1
    <3>2. n \in Nat /\ n <= 7
      OBVIOUS
    <3> HIDE DEF found
    <3> QED BY <2>1, <3>1, <3>2
  <2>3. type = TypeKeywords[Min(found)][2]
    BY <1>5, <1>8
  <2>4. Min(found) \notin {4, 5, 6, 7}
    BY <1>3, <1>4, <2>3
  <2>5. CASE Min(found) = 1
    BY <1>4, <1>6, <2>1, <2>5
  <2>6. CASE Min(found) = 2
    BY <1>4, <1>6, <2>1, <2>6
  <2>7. CASE Min(found) = 3
    BY <1>4, <1>6, <2>1, <2>7
  <2> QED BY <2>2, <2>4, <2>5, <2>6, <2>7
<1>9. ASSUME NEW w \in {"liability", "indemn", "termination", "renewal"}, Mentions(t, <<w>>)
      PROVE  \E n \in 4..7 : n \in found
  <2>1. CASE w = "liability"
    BY <1>4, <1>6, <1>9, <2>1
  <2>2. CASE w = "indemn"
    BY <1>4, <1>6, <1>9, <2>2
  <2>3. CASE w = "termination"
    BY <1>4, <1>6, <1>9, <2>3
  <2>4. CASE w = "renewal"
    BY <1>4, <1>6, <1>9, <2>4
  <2> QED BY <2>1, <2>2, <2>3, <2>4
<1> QED BY <1>2, <1>8, <1>9

\* Every approval without a reviewer, but for one on a discarded reply, is justified, clause by
\* clause, by what a valid reply says last of it, or else by its words.
THEOREM IntakeAutoAdvanceJustified == IntakeSpec => []AutoAdvanceJustified
<1>1. IntakeInv => AutoAdvanceJustified
  <2> SUFFICES ASSUME IntakeInv, route = "auto_advance", ~ReplyDiscarded
               PROVE  /\ in.pack.loads /\ clauses # <<>>
                      /\ \A i \in DOMAIN clauses :
                           IF by = "model" /\ Said(i) # {} THEN ApprovedByModel(i)
                           ELSE ApprovedByRules(i)
    BY DEF AutoAdvanceJustified
  <2>1. /\ Sensible(in) /\ in.pack.loads /\ DOMAIN clauses # {} /\ clauses # <<>>
        /\ Extracted /\ Kind = "clean"
    BY DEF IntakeInv
  <2>2. extractions # <<>> /\ \A i \in DOMAIN extractions : Clean(extractions[i])
    BY <2>1 DEF Kind
  <2>3. by \in {"model", "heuristic"}
    BY <2>1, <2>2, ExtractedShape
  <2>4. DOMAIN extractions = DOMAIN clauses
    BY <2>3 DEF IntakeInv
  <2>5. ASSUME NEW i \in DOMAIN clauses
        PROVE  IF by = "model" /\ Said(i) # {} THEN ApprovedByModel(i) ELSE ApprovedByRules(i)
    <3>1. Clean(extractions[i])
      BY <2>2, <2>4
    <3>2. CASE by = "model" /\ Said(i) # {}
      <4> DEFINE item == LastSaid(i)
                 x == extractions[i]
      <4>1. x = Merged(clauses[i], item)
        BY <2>1, <3>2 DEF Extracted, NormalizeExtractions, Said, LastSaid
      <4>2. Valid(x)
        BY <2>1, <2>4, <3>2 DEF Extracted
      <4>3. /\ x.risk_level
                 = IF "risk_level" \in DOMAIN item THEN item.risk_level ELSE "medium"
            /\ x.confidence = IF "confidence" \in DOMAIN item THEN item.confidence ELSE 65
            /\ "clause_type" \in DOMAIN item => x.clause_type = item.clause_type
            /\ "summary" \in DOMAIN item => x.summary = item.summary
        BY <4>1 DEF Merged, Defaults
      <4> HIDE DEF item
      <4>4. Says(item, "risk_level", LAMBDA v : v = "low")
        BY <3>1, <4>3 DEF Clean, Says
      <4>5. Confident(x.confidence)
        <5>1. x.confidence \in 0..100
          BY <4>2 DEF Valid
        <5>2. x.confidence >= in.pack.auto /\ x.confidence >= in.pack.review
          BY <3>1 DEF Clean
        <5>3. in.pack.auto \in Int
          BY <2>1 DEF Sensible
        <5> HIDE DEF x
        <5> QED BY <5>1, <5>2, <5>3 DEF Confident
      <4>6. Says(item, "confidence", Confident)
              \/ ("confidence" \notin DOMAIN item /\ Confident(65))
        BY <4>3, <4>5 DEF Says
      <4>7. ~Says(item, "clause_type", LAMBDA v : v \in in.pack.blocked)
        BY <3>1, <4>3 DEF Clean, Says
      <4>8. ASSUME NEW f \in in.pack.required
            PROVE  ~Says(item, f, LAMBDA v : v = "")
        <5>1. f \in {"clause_type", "risk_level", "summary"} /\ x[f] # ""
          BY <2>1, <3>1 DEF Clean, Sensible
        <5> QED BY <4>3, <5>1 DEF Says
      <4> QED BY <3>2, <4>4, <4>6, <4>7, <4>8 DEF ApprovedByModel, item
    <3>3. CASE ~(by = "model" /\ Said(i) # {})
      <4>1. extractions[i] = HeuristicExtractClause(clauses[i])
        BY <2>1, <2>3, <3>3 DEF Extracted, NormalizeExtractions, HeuristicExtractContract, Said
      <4>2. HeuristicRisk(clauses[i].text)[1] = "low"
        <5>1. extractions[i].risk_level = "low"
          BY <3>1 DEF Clean
        <5>2. HeuristicExtractClause(clauses[i]).risk_level = HeuristicRisk(clauses[i].text)[1]
          BY DEF HeuristicExtractClause
        <5> QED BY <4>1, <5>1, <5>2
      <4> QED BY <3>3, <4>2, LowByRules DEF ApprovedByRules
    <3> QED BY <3>2, <3>3
  <2> QED BY <2>1, <2>5
<1> QED BY <1>1, IntakeInvariance, PTL

--------------------------------------------------------------------------------
(* The reviewer's last word. *)

\* What the risk patches have to say of a clause, when only two of their fields count.
LEMMA RiskSaying ==
  ASSUME NEW r, NEW x, NEW i, x.clause_id = i, NEW g
  PROVE  /\ g \in {"risk_level", "confidence"} =>
              /\ Saying(RiskParts(r), x, g) = SayingOf(r, i, g)
              /\ \A n \in SayingOf(r, i, g) : RiskParts(r)[n][g] = r[n][g]
         /\ g \notin {"clause_id", "risk_level", "confidence"} => Saying(RiskParts(r), x, g) = {}
<1>1. ASSUME NEW n \in DOMAIN r
      PROVE  /\ DOMAIN RiskParts(r)[n]
                  = {"clause_id", "risk_level", "confidence"} \cap DOMAIN r[n]
             /\ \A f \in DOMAIN RiskParts(r)[n] : RiskParts(r)[n][f] = r[n][f]
  BY DEF RiskParts, RiskPart
<1>2. DOMAIN RiskParts(r) = DOMAIN r
  BY DEF RiskParts
<1>3. \A n \in DOMAIN r : "clause_id" \in DOMAIN r[n] => RiskParts(r)[n].clause_id = r[n].clause_id
  BY <1>1
<1>4. ASSUME g \in {"risk_level", "confidence"}
      PROVE  /\ Saying(RiskParts(r), x, g) = SayingOf(r, i, g)
             /\ \A n \in SayingOf(r, i, g) : RiskParts(r)[n][g] = r[n][g]
  BY <1>1, <1>2, <1>3, <1>4 DEF Saying, SayingOf, Names
<1>5. ASSUME g \notin {"clause_id", "risk_level", "confidence"}
      PROVE  Saying(RiskParts(r), x, g) = {}
  BY <1>1, <1>2, <1>5 DEF Saying
<1> QED BY <1>4, <1>5

\* A field of an edited extraction is what the reviewer said last of it, or what it was.
LEMMA ReviewLands ==
  ASSUME IntakeInv, Review, NEW i \in DOMAIN extractions, NEW f \in DOMAIN extractions'[i]
  PROVE  extractions'[i][f] = LastWord(i, f)
<1> DEFINE x == extractions[i]
           e == in.edits.extractions
           r == in.edits.risks
           y == EditedExtraction(x, e, r)
           risk == IF f \in {"risk_level", "confidence"} THEN SayingOf(r, i, f) ELSE {}
           other == SayingOf(e, i, f)
<1>1. extractions'[i] = y
  BY DEF Review, ApplyReviewerEdits
<1>2. IsList(e) /\ IsList(r)
  BY DEF IntakeInv, Sensible
<1>3. x.clause_id = i /\ "clause_id" \in DOMAIN x
  <2>1. Extracted /\ (by # "nobody" => \A j \in DOMAIN extractions : extractions[j].clause_id = j)
    BY DEF IntakeInv, Review
  <2>2. by # "nobody"
    BY <2>1, ExtractedShape
  <2> QED BY <2>1, <2>2, ExtractedShape
<1> HIDE DEF x, e, r, y
<1>4. /\ y.clause_id = i
      /\ y.reviewer_lines = ReviewerReasons(x, r)
      /\ f # "reviewer_lines" =>
           IF Saying(RiskParts(r), x, f) # {}
           THEN y[f] = RiskParts(r)[Max(Saying(RiskParts(r), x, f))][f]
           ELSE IF Saying(e, x, f) # {} THEN y[f] = e[Max(Saying(e, x, f))][f] ELSE y[f] = x[f]
  BY <1>1, <1>2, <1>3, EditedFields DEF y
<1>5. Saying(e, x, f) = other
  BY <1>3 DEF Saying, SayingOf, Names
<1>6. f # "reviewer_lines" =>
        LastWord(i, f) = CASE risk # {} -> r[Max(risk)][f]
                           [] risk = {} /\ other # {} -> e[Max(other)][f]
                           [] OTHER -> x[f]
  BY DEF LastWord, x, e, r
<1>7. CASE f = "reviewer_lines"
  <2>1. LastWord(i, f) = {r[n].reviewer_reason : n \in SayingOf(r, i, "reviewer_reason")}
    BY <1>7 DEF LastWord, r
  <2>2. {m \in DOMAIN r : Names(r[m], x) /\ "reviewer_reason" \in DOMAIN r[m]}
          = SayingOf(r, i, "reviewer_reason")
    BY <1>3 DEF SayingOf, Names
  <2> QED BY <1>1, <1>4, <1>7, <2>1, <2>2 DEF ReviewerReasons
<1>8. CASE f \in {"risk_level", "confidence"}
  <2>1. Saying(RiskParts(r), x, f) = risk /\ \A n \in risk : RiskParts(r)[n][f] = r[n][f]
    BY <1>3, <1>8, RiskSaying
  <2>2. risk # {} => Max(risk) \in risk
    <3>1. risk \subseteq 1..Len(r) /\ Len(r) \in Nat
      BY <1>2, <1>8 DEF SayingOf, IsList
    <3> HIDE DEF risk
    <3> QED BY <3>1, MaxOf
  <2> HIDE DEF risk, other
  <2> QED BY <1>1, <1>4, <1>5, <1>6, <1>8, <2>1, <2>2
<1>9. CASE f = "clause_id"
  <2>1. risk = {} /\ y[f] = i /\ x[f] = i
    BY <1>3, <1>4, <1>9
  <2>2. other # {} => e[Max(other)][f] = i
    <3>1. other \subseteq 1..Len(e) /\ Len(e) \in Nat
      BY <1>2 DEF SayingOf, IsList
    <3>2. \A n \in other : e[n][f] = i
      BY <1>9 DEF SayingOf
    <3> HIDE DEF other
    <3> QED BY <3>1, <3>2, MaxOf
  <2> HIDE DEF risk, other
  <2> QED BY <1>1, <1>6, <1>9, <2>1, <2>2
<1>10. CASE f \notin {"clause_id", "risk_level", "confidence", "reviewer_lines"}
  <2>1. Saying(RiskParts(r), x, f) = {}
    BY <1>3, <1>10, RiskSaying
  <2>2. risk = {}
    BY <1>10
  <2> HIDE DEF risk, other
  <2> QED BY <1>1, <1>4, <1>5, <1>6, <1>10, <2>1, <2>2
<1> QED BY <1>7, <1>8, <1>9, <1>10

\* The reviewer's last word on a field is what the report gets, and nothing else changes.
THEOREM IntakeEditsLand == IntakeSpec => EditsLand
<1> DEFINE Lands == stage = "review" /\ stage' = "end" =>
                      \A i \in DOMAIN extractions : \A f \in DOMAIN extractions'[i] :
                        extractions'[i][f] = LastWord(i, f)
<1>1. IntakeInv /\ [IntakeNext]_intakeVars => [Lands]_intakeVars
  <2> SUFFICES ASSUME IntakeInv, IntakeNext, stage = "review", stage' = "end",
                      NEW i \in DOMAIN extractions, NEW f \in DOMAIN extractions'[i]
               PROVE  extractions'[i][f] = LastWord(i, f)
    OBVIOUS
  <2>1. Review
    BY DEF IntakeNext, Parse, ParseUnsupported, Extract, Check, CheckFails, ReviewRaises
  <2> QED BY <2>1, ReviewLands
<1>2. IntakeSpec => [][Lands]_intakeVars
  BY <1>1, IntakeInvariance, PTL DEF IntakeSpec
<1> QED BY <1>2 DEF EditsLand

--------------------------------------------------------------------------------
(* The workflow's picture of a contract. *)

LEMMA ScreeningBegins == IntakeInit => Screening!ScreeningInit
<1> SUFFICES ASSUME IntakeInit
             PROVE  Screening!ScreeningInit
  OBVIOUS
<1>1. stage = "parse" /\ extractions = <<>> /\ route = "none" /\ DOMAIN extractions = {}
  BY DEF IntakeInit
<1>2. Kind = "none"
  BY <1>1 DEF Kind
<1> QED BY <1>1, <1>2 DEF Screening!ScreeningInit

\* The three things the workflow sees of a contract.
Printable == \A i \in DOMAIN extractions : Joinable(extractions[i])
GivesUp == in.fallback \notin {"unset", "1", "true", "yes", "on"} \/ in.provider = "null"

LEMMA SameView ==
  ASSUME UNCHANGED <<in, extractions>>
  PROVE  Kind' = Kind /\ Printable' = Printable /\ GivesUp' = GivesUp
BY DEF Kind, Clean, Printable, GivesUp

LEMMA KindOfSome ==
  /\ Kind \in {"none", "clean", "risky"}
  /\ Kind = "none" <=> extractions = <<>>
BY DEF Kind

LEMMA KindOfSomeNext ==
  /\ Kind' \in {"none", "clean", "risky"}
  /\ Kind' = "none" <=> extractions' = <<>>
BY DEF Kind

LEMMA ParseRefines ==
  ASSUME IntakeInv, Parse \/ ParseUnsupported
  PROVE  Screening!ParseScreened
<1>1. UNCHANGED <<in, extractions>>
  BY DEF Parse, ParseUnsupported
<1>2. Kind' = Kind /\ Printable' = Printable /\ GivesUp' = GivesUp
  BY <1>1, SameView
<1>3. /\ stage = "parse"
      /\ \/ stage' = "extract" /\ UNCHANGED route
         \/ stage' = "end" /\ route' = "audit_only"
  BY DEF Parse, ParseUnsupported
<1> QED BY <1>2, <1>3 DEF Screening!ParseScreened, Printable, GivesUp

LEMMA PrintableExtractions ==
  (Extracted => \A i \in DOMAIN extractions : extractions[i].evidence_spans = "list")'
<1>1. Extracted => \A i \in DOMAIN extractions : extractions[i].evidence_spans = "list"
  BY ExtractedShape
<1> QED BY <1>1, PTL

LEMMA ExtractRefines ==
  ASSUME IntakeInv, IntakeInv', Extract
  PROVE  Screening!ExtractScreened
<1> DEFINE result == ExtractContractDetails(clauses, in)
<1>1. /\ stage = "extract" /\ stage' = "check" /\ in' = in /\ DOMAIN clauses # {}
      /\ by' = result.by /\ extractions' = result.extractions /\ clauses' = clauses
      /\ route' = IF result.by = "nobody" THEN "audit_only" ELSE route
      /\ extractions = <<>>
  BY DEF Extract, IntakeInv
<1>2. Extracted' /\ (by' # "nobody" => DOMAIN extractions' = DOMAIN clauses)
  BY <1>1 DEF IntakeInv
<1>3. \A i \in DOMAIN extractions' : extractions'[i].evidence_spans = "list"
  BY <1>2, PrintableExtractions
<1>4. Printable /\ Printable'
  BY <1>1, <1>3 DEF Printable, Joinable
<1>5. GivesUp' = GivesUp
  BY <1>1 DEF GivesUp
<1>6. Kind = "none"
  BY <1>1, KindOfSome
<1>7. CASE by' = "nobody"
  <2>1. extractions' = <<>>
    BY <1>1, <1>7 DEF ExtractContractDetails
  <2>2. Kind' = "none"
    BY <2>1, KindOfSomeNext
  <2>3. GivesUp
    BY <1>1, <1>7 DEF ExtractContractDetails, EnvFlag, GivesUp
  <2>4. route' = "audit_only"
    BY <1>1, <1>7
  <2> QED BY <1>1, <1>4, <1>5, <1>6, <2>2, <2>3, <2>4
          DEF Screening!ExtractScreened, Printable, GivesUp
<1>8. CASE by' # "nobody"
  <2>1. extractions' # <<>>
    BY <1>1, <1>2, <1>8
  <2>2. Kind' \in {"clean", "risky"}
    BY <2>1, KindOfSomeNext
  <2>3. route' = route
    BY <1>1, <1>8
  <2> QED BY <1>1, <1>4, <1>5, <2>2, <2>3 DEF Screening!ExtractScreened, Printable, GivesUp
<1> QED BY <1>7, <1>8

LEMMA CheckRefines ==
  ASSUME IntakeInv, Check \/ CheckFails
  PROVE  Screening!CheckScreened
<1>1. UNCHANGED <<in, extractions>> /\ stage = "check"
  BY DEF Check, CheckFails
<1>2. Kind' = Kind /\ Printable' = Printable /\ GivesUp' = GivesUp
  BY <1>1, SameView
<1>3. CASE Check
  <2>1. Sensible(in) /\ Extracted
    BY <1>1 DEF IntakeInv
  <2>2. \A i \in DOMAIN extractions : extractions[i].confidence \in Int
    <3>1. \A i \in DOMAIN extractions : extractions[i].confidence \in 0..100
      BY <2>1, ExtractedShape
    <3> QED BY <3>1
  <2>3. Evaluate(extractions, in.pack).route
          = IF Kind = "clean" THEN "auto_advance" ELSE "human_review"
    BY <2>1, <2>2, ExtractedShape, PolicyRoute
  <2>4. /\ route' = Evaluate(extractions, in.pack).route
        /\ stage' = IF route' = "auto_advance" THEN "end" ELSE "review"
    BY <1>3 DEF Check
  <2> QED BY <1>1, <1>2, <2>3, <2>4
          DEF Screening!CheckScreened, Screening!RouteOf, Printable, GivesUp
<1>4. CASE CheckFails
  <2>1. route' = "audit_only" /\ stage' = "end"
    BY <1>4 DEF CheckFails
  <2> QED BY <1>1, <1>2, <2>1 DEF Screening!CheckScreened, Printable, GivesUp
<1> QED BY <1>3, <1>4

LEMMA ReviewRefines ==
  ASSUME IntakeInv, Review \/ ReviewRaises
  PROVE  Screening!ReviewScreened
<1>1. stage = "review" /\ in' = in /\ route' = route
  BY DEF Review, ReviewRaises
<1>2. Extracted
  BY <1>1 DEF IntakeInv
<1>3. extractions = <<>> <=> DOMAIN extractions = {}
  BY <1>2, ExtractedShape
<1>4. GivesUp' = GivesUp
  BY <1>1 DEF GivesUp
<1>5. CASE Review
  <2>1. stage' = "end" /\ DOMAIN extractions' = DOMAIN extractions
    BY <1>5 DEF Review, ApplyReviewerEdits
  <2>2. extractions' = [i \in DOMAIN extractions' |-> extractions'[i]]
    BY <1>5 DEF Review, ApplyReviewerEdits
  <2>3. CASE extractions = <<>>
    <3>1. extractions' = extractions
      BY <1>3, <2>1, <2>2, <2>3
    <3>2. Kind' = Kind /\ Printable' = Printable
      BY <1>1, <3>1, SameView
    <3> QED BY <1>1, <1>4, <2>1, <3>2 DEF Screening!ReviewScreened, Printable, GivesUp
  <2>4. CASE extractions # <<>>
    <3>1. extractions' # <<>>
      BY <1>3, <2>1, <2>4
    <3>2. Kind # "none" /\ Kind' \in {"clean", "risky"}
      BY <2>4, <3>1, KindOfSome, KindOfSomeNext
    <3>3. Printable' \in BOOLEAN
      BY DEF Printable
    <3> QED BY <1>1, <1>4, <2>1, <3>2, <3>3 DEF Screening!ReviewScreened, Printable, GivesUp
  <2> QED BY <2>3, <2>4
<1>6. CASE ReviewRaises
  <2>1. extractions' = extractions /\ stage' = "raised"
    BY <1>6 DEF ReviewRaises
  <2>2. Kind' = Kind /\ Printable' = Printable
    BY <1>1, <2>1, SameView
  <2> QED BY <1>1, <1>4, <2>1, <2>2 DEF Screening!ReviewScreened, Printable, GivesUp
<1> QED BY <1>5, <1>6

\* Every step of a contract is one of the choices ReviewGraph makes without looking at a
\* clause, or changes nothing it sees.
THEOREM IntakeImplementsScreening == IntakeSpec => ImplementsScreening
<1>1. IntakeInv /\ IntakeInv' /\ [IntakeNext]_intakeVars
        => [Screening!ScreeningNext]_(Screening!screeningVars)
  <2> SUFFICES ASSUME IntakeInv, IntakeInv', [IntakeNext]_intakeVars
               PROVE  Screening!ScreeningNext \/ UNCHANGED Screening!screeningVars
    OBVIOUS
  <2>1. CASE UNCHANGED intakeVars
    <3>1. UNCHANGED <<in, extractions, stage, route>>
      BY <2>1 DEF intakeVars
    <3>2. Kind' = Kind /\ Printable' = Printable /\ GivesUp' = GivesUp
      BY <3>1, SameView
    <3> QED BY <3>1, <3>2 DEF Screening!screeningVars, Printable, GivesUp
  <2>2. CASE Parse \/ ParseUnsupported
    BY <2>2, ParseRefines DEF Screening!ScreeningNext
  <2>3. CASE Extract
    BY <2>3, ExtractRefines DEF Screening!ScreeningNext
  <2>4. CASE Check \/ CheckFails
    BY <2>4, CheckRefines DEF Screening!ScreeningNext
  <2>5. CASE Review \/ ReviewRaises
    BY <2>5, ReviewRefines DEF Screening!ScreeningNext
  <2> QED BY <2>1, <2>2, <2>3, <2>4, <2>5 DEF IntakeNext
<1> QED BY <1>1, ScreeningBegins, IntakeInvariance, PTL
        DEF IntakeSpec, ImplementsScreening, Screening!ScreeningSpec
================================================================================
