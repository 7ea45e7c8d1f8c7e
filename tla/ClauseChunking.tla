----------------------------- MODULE ClauseChunking -----------------------------
(***************************************************************************)
(* parsing.py: from a file to clauses.  A text is a sequence of words and of *)
(* the blanks "sp" (space, tab), "nl" (\n) and "cr" (\r); a clause is named  *)
(* by its number, "clause-001" being 1.                                      *)
(***************************************************************************)
EXTENDS Integers, Sequences, FiniteSets, SequencesExt

Blank == {"sp", "nl", "cr"}
Ink(t) == {i \in DOMAIN t : t[i] \notin Blank}

\* The numbers of a finite set, in order.
InOrder(S) ==
  [n \in 1..Cardinality(S) |-> CHOOSE i \in S : Cardinality({j \in S : j <= i}) = n]

\* The elements of t at the places in P, in order.
Keep(t, P) == [n \in 1..Cardinality(P) |-> t[InOrder(P)[n]]]

\* The words of a text.
InkOf(t) == Keep(t, Ink(t))

\* str.strip
Strip(t) == IF Ink(t) = {} THEN <<>> ELSE SubSeq(t, Min(Ink(t)), Max(Ink(t)))

\* "\r\n" and then "\r" to "\n"; what read_text does to a file, too.
UnixLines(t) ==
  LET kept == Keep(t, {i \in DOMAIN t : ~(t[i] = "cr" /\ i < Len(t) /\ t[i + 1] = "nl")})
  IN  [i \in DOMAIN kept |-> IF kept[i] = "cr" THEN "nl" ELSE kept[i]]

OneSpace(t) == Keep(t, {i \in DOMAIN t : ~(i > 1 /\ t[i] = "sp" /\ t[i - 1] = "sp")})

TwoNewlines(t) == Keep(t, {i \in DOMAIN t : ~(i > 2 /\ \A j \in (i - 2)..i : t[j] = "nl")})

Normalize(t) == Strip(TwoNewlines(OneSpace(UnixLines(t))))

--------------------------------------------------------------------------------
(* read_contract.  A document is of a kind and has parts: the file of a text, the *)
(* paragraphs of a DOCX (document.paragraphs: no tables, headers or footers), the *)
(* pages of a PDF.                                                                *)

\* "\n\n".join over the parts with text in them, stripped.
JoinParts(parts) ==
  LET Stripped(i) == Strip(parts[i])
  IN  FlattenSeq([i \in DOMAIN parts |->
        IF Stripped(i) = <<>> \/ \A j \in 1..(i - 1) : Stripped(j) = <<>>
        THEN Stripped(i) ELSE <<"nl", "nl">> \o Stripped(i)])

ReadContract(doc) ==
  IF doc.kind = "text" THEN UnixLines(doc.parts[1]) ELSE JoinParts(doc.parts)

\* UnsupportedDocumentError: an unknown suffix, a PDF without text to select.
Unsupported(doc) == doc.kind = "other" \/ (doc.kind = "pdf" /\ JoinParts(doc.parts) = <<>>)

--------------------------------------------------------------------------------
(* chunk_into_clauses. *)

\* Where re.split(r"\n\s*\n") starts a new block: at ink with two newlines between it and
\* the ink before it.
BlockStarts(t) ==
  {i \in Ink(t) : \A k \in Ink(t) :
     k < i => \E m, n \in k..i : m < n /\ t[m] = "nl" /\ t[n] = "nl"}

Blocks(t) ==
  LET starts == InOrder(BlockStarts(t))
      end(n) == IF n = Len(starts) THEN Len(t) ELSE starts[n + 1] - 1
  IN  [n \in DOMAIN starts |-> Strip(SubSeq(t, starts[n], end(n)))]

\* str.find(block, cursor): offsets count from 0.
Found(t, block, cursor) ==
  {s \in cursor..(Len(t) - Len(block)) : SubSeq(t, s + 1, s + Len(block)) = block}

\* Seeded fault: every block is looked for from the beginning of the text.
PositionFromStart(t, block, cursor) == Min(Found(t, block, 0))

Position(t, block, cursor) ==
  IF Found(t, block, cursor) = {} THEN cursor ELSE Min(Found(t, block, cursor))

\* The clause of the i-th block, if the one before it ends at cursor.
ClauseAt(t, i, block, cursor) ==
  LET start == Position(t, block, cursor)
  IN  [clause_id |-> i, text |-> block, start_char |-> start, end_char |-> start + Len(block)]

\* Seeded fault: a block that has been there before is no clause of its own.
LocateOnce(t, blocks) ==
  LET once == Keep(blocks, {i \in DOMAIN blocks : \A j \in 1..(i - 1) : blocks[j] # blocks[i]})
      clause[i \in DOMAIN once] ==
        ClauseAt(t, i, once[i], IF i = 1 THEN 0 ELSE clause[i - 1].end_char)
  IN  clause

Locate(t, blocks) ==
  LET clause[i \in DOMAIN blocks] ==
        ClauseAt(t, i, blocks[i], IF i = 1 THEN 0 ELSE clause[i - 1].end_char)
  IN  clause

ChunkIntoClauses(text) == LET t == Normalize(text) IN Locate(t, Blocks(t))
================================================================================
