------------------------------- MODULE ReviewStudio -----------------------------
(***************************************************************************)
(* Callers that invoke the graph themselves, as LangGraph Studio and the     *)
(* tests do: any path, any thread whether it has run before or not, and an   *)
(* answer that nothing has looked at.  Studio runs one call of a thread at a *)
(* time.                                                                     *)
(***************************************************************************)
EXTENDS GraphSafety

vars == <<storeVars, ckptVars, inv, faults>>

TypeOK == StoreTypeOK /\ CkptTypeOK /\ GraphTypeOK

Init == StoreInit /\ CkptInit /\ GraphInit

\* graph.invoke({"contract_path": ...}, config), on a new or a used thread.
InvokeWithPath(c) ==
  /\ inv[c].stage = "idle"
  /\ \E t \in Threads, d \in Documents : ~Busy(t) /\ Start(c, t, d)

\* graph.invoke(Command(resume=answer), config).
InvokeWithAnswer(c) ==
  /\ inv[c].stage = "idle"
  /\ \E t \in Threads, a \in Answers : ~Busy(t) /\ Interrupted(t) /\ Resume(c, t, a)

\* invoke returns or raises, its checkpoints saved.
Leave(c) ==
  /\ inv[c].stage \in {"returned", "raised"}
  /\ unsaved[c] = {}
  /\ inv' = [inv EXCEPT ![c] = Over(c, "done")]
  /\ UNCHANGED <<storeVars, ckptVars, faults>>

Next ==
  \/ \E c \in Calls :
       \/ InvokeWithPath(c) \/ InvokeWithAnswer(c) \/ Leave(c)
       \/ NodeStep(c) \/ Save(c) \/ StatementFails(c)
  \/ Crash

Spec == Init /\ [][Next]_vars

--------------------------------------------------------------------------------
\* A document that was never found is never put before anything but the report: not even
\* on a thread that has parsed, extracted and routed another one before.
MissingIsNeverReviewed ==
  \A c \in Calls :
    inv[c].document = "missing" =>
      /\ inv[c].node \in {"ingest_contract", "audit_and_report", "END"}
      /\ At(c, "audit_and_report", "finalize") =>
           runs[T(c)].route = "audit_only" /\ reports[T(c)].final_status = "failed"
================================================================================
