------------------------------- MODULE ReviewSerial -----------------------------
(***************************************************************************)
(* Threads whose calls do not overlap, whoever makes them: what a call knows *)
(* of the row, the report and the checkpoints of its thread, and what it     *)
(* leaves behind.                                                            *)
(***************************************************************************)
EXTENDS GraphSafety

\* One call at a time is active on a thread.
Sole == \A c, d \in Calls : Active(c) /\ Active(d) /\ T(c) = T(d) => c = d

\* Channels that are not before a reviewer, and have an outcome only with the way it
\* came about; and those that have one.
Sound(v) == v.review_status # "pending" /\ (v.final_status # Null => v.route # Null)
Decided(v) == Sound(v) /\ v.final_status # Null

\* The report of thread t, and its row, tell the outcome of channels v.
ReportTells(t, v) == reports[t].written /\ reports[t].final_status = v.final_status
RowTells(t, v) ==
  /\ runs[t].exists /\ runs[t].completed_at
  /\ runs[t].final_status = v.final_status /\ runs[t].review_status # "pending"
Told(t, v) == Decided(v) /\ ReportTells(t, v) /\ RowTells(t, v)

--------------------------------------------------------------------------------
(* An active call. *)

\* The update of c's node is complete but for the writes of append_event.
Concluding(c) ==
  /\ inv[c].stage \in {"insert", "line", "return"}
  /\ ~Writing(c, {"human_review_pending", "human_review_resumed"})

\* Whatever leads to audit_and_report decides the run.
DecidedOK(c) ==
  LET i == inv[c] IN
  i.stage \in Running =>
    /\ Sound(V(c))
    /\ i.node \in {"auto_advance_standard_cases", "human_review"} => V(c).route # Null
    /\ i.node = "audit_and_report" =>
         Decided(V(c)) /\ (i.stage # "body" => i.result = V(c))
    /\ Concluding(c) =>
         /\ Sound(i.result)
         /\ NextNode(i.node, i.result) = "audit_and_report" => Decided(i.result)

\* The writes of a call are there for the statements after them: nobody undoes them.
WritesOK(c) ==
  LET i == inv[c]
      t == T(c)
  IN  /\ i.stage \in Running /\ ~At(c, "ingest_contract", "body") => runs[t].exists
      /\ i.node = "audit_and_report" /\ i.stage \in Running \ {"body"} => ReportTells(t, V(c))
      /\ At(c, "audit_and_report", "return") => RowTells(t, V(c))
      /\ Active(c) /\ i.node = "END" => Told(t, V(c))
      /\ i.stage \in {"set_pending", "set_completed"} =>
           /\ i.read.interrupted_at = runs[t].interrupted_at
           /\ i.read.resumed_at = runs[t].resumed_at

\* Channels a resume may take from checkpoint k, and the row they go with.
CheckpointOK(t, k) ==
  /\ Sound(k.values)
  /\ k.next = "human_review" => k.values.route # Null /\ runs[t].exists

\* The last checkpoint of a call is what it leaves its thread with.
LastOK(c) ==
  LET t == T(c) IN
  Active(c) =>
    /\ \A k \in unsaved[c] : k.id > ckpt[t].id /\ CheckpointOK(t, k)
    /\ \A k \in unsaved[c] : k.next = "END" =>
         /\ inv[c].node = "END" /\ k.values = V(c)
         /\ \A other \in unsaved[c] : other.id <= k.id
    /\ inv[c].node = "END" =>
         \/ \E k \in unsaved[c] : k.next = "END"
         \/ unsaved[c] = {} /\ ckpt[t].next = "END" /\ ckpt[t].values = V(c)
    /\ inv[c].node # "END" => ckpt[t].next # "END" \/ unsaved[c] # {}
    /\ inv[c].stage = "checked" => Interrupted(t)

\* A run without a document goes from its ingestion to its report, and its row says so.
MissingOK(c) ==
  LET i == inv[c] IN
  i.document = "missing" =>
    /\ i.node \in {"ingest_contract", "audit_and_report", "END"}
    /\ i.stage \in Running /\ ~At(c, "ingest_contract", "body") =>
         /\ runs[T(c)].route = "audit_only"
         /\ i.result.final_status = "failed" /\ i.result.route = "audit_only"
         /\ i.node = "audit_and_report" => V(c) = i.result

SoleCallOK(c) == DecidedOK(c) /\ WritesOK(c) /\ LastOK(c) /\ MissingOK(c)

--------------------------------------------------------------------------------
(* A thread. *)

SerialInv ==
  /\ ShapeInv
  /\ Sole
  /\ \A c \in Calls : SoleCallOK(c)
  /\ \A t \in Threads : CheckpointOK(t, ckpt[t])

\* A thread that has ended, with nobody at it, is told by its report and its row.
SettledOK(t) == ~Busy(t) /\ Ended(t) => Told(t, ckpt[t].values)

\* Only a crash takes a used thread back to an end that its report and its row have left.
SettledInv == faults = 0 => \A t \in Threads : SettledOK(t)

================================================================================
