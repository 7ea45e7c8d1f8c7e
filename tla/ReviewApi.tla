-------------------------------- MODULE ReviewApi -------------------------------
(***************************************************************************)
(* api/main.py on top of the graph: the three endpoints that look at a      *)
(* thread.  POST /api/run and POST /api/resume hand the invocation to a     *)
(* worker thread (asyncio.to_thread), so calls interleave statement by      *)
(* statement, and between a resume's check of the thread and its invocation *)
(* anything may happen.  GET /api/runs reads two stores and is a state      *)
(* function here (RunStatus).                                               *)
(***************************************************************************)
EXTENDS ReviewGraph

CONSTANTS Uploads,     \* what callers upload
          Overlap      \* may a thread be called while another call of it is active

\* An upload is written to a file of its own before the graph is called.
ASSUME ApiAssumption == Uploads \subseteq Documents \ {"missing"} /\ Overlap \in BOOLEAN

VARIABLE http          \* the request and the response of each call
vars == <<storeVars, ckptVars, inv, faults, http>>

\* asked: the decision a resume asks for; code: the HTTP status, 0 before the answer.
Http ==
  [asked : Decisions \cup {Null}, code : {0, 200, 404, 500},
   status : {"completed", "interrupted", Null},
   final_status : FinalStatuses \cup {Null},
   decision : Words \cup {"auto_approve", Null}]
NoHttp == [asked |-> Null, code |-> 0, status |-> Null, final_status |-> Null,
           decision |-> Null]

TypeOK == StoreTypeOK /\ CkptTypeOK /\ GraphTypeOK /\ http \in [Calls -> Http]

Init == StoreInit /\ CkptInit /\ GraphInit /\ http = [c \in Calls |-> NoHttp]

--------------------------------------------------------------------------------
\* run_contract, up to its invocation: the thread is new.
RunContract(c) ==
  /\ inv[c].stage = "idle"
  /\ \E t \in Threads, d \in Uploads :
       /\ \A other \in Calls : T(other) # t
       /\ Start(c, t, d)
  /\ UNCHANGED http

\* resume_contract, up to its await: 404, or it will invoke the graph.
ResumeCheck(c) ==
  /\ inv[c].stage = "idle"
  /\ \E t \in Threads, d \in Decisions, e \in Edits :
       /\ Overlap \/ ~Busy(t)
       /\ \/ /\ Interrupted(t)
             /\ inv' = [inv EXCEPT ![c] =
                          [NoInvocation EXCEPT
                             !.stage = "checked", !.thread = t,
                             !.answer = [form |-> "object", decision |-> d,
                                         edits |-> e]]]
             /\ http' = [http EXCEPT ![c].asked = d]
          \/ /\ ~Interrupted(t)
             /\ inv' = [inv EXCEPT ![c].stage = "done"]
             /\ http' = [http EXCEPT ![c].code = 404]
  /\ UNCHANGED <<storeVars, ckptVars, faults>>

\* Seeded fault: the worker waits for a lock of the thread that its own request holds.
InvokeResumeLocked(c) ==
  /\ inv[c].stage = "checked"
  /\ ~Busy(T(c))
  /\ Resume(c, T(c), inv[c].answer)
  /\ UNCHANGED http

\* The worker thread of a resume begins.
InvokeResume(c) ==
  /\ inv[c].stage = "checked"
  /\ Resume(c, T(c), inv[c].answer)
  /\ UNCHANGED http

\* What an endpoint reads of the thread's state once the thread is not interrupted.
Completed(c, t, decision) ==
  [http[c] EXCEPT !.code = 200, !.status = "completed",
                  !.final_status = ckpt[t].values.final_status,
                  !.decision = decision]

\* Seeded fault: the answer goes out while checkpoints are still being written.
RespondUnsaved(c) ==
  /\ inv[c].stage = "returned"
  /\ http' = [http EXCEPT ![c] =
                IF @.asked # Null THEN Completed(c, T(c), ckpt[T(c)].values.decision)
                ELSE IF Interrupted(T(c))
                     THEN [@ EXCEPT !.code = 200, !.status = "interrupted"]
                     ELSE Completed(c, T(c), Null)]
  /\ inv' = [inv EXCEPT ![c] = Over(c, "done")]
  /\ UNCHANGED <<storeVars, ckptVars, faults>>

\* invoke has returned, its checkpoints are saved, and the endpoint answers from the
\* thread's state as it is now.  Only run_contract looks for an interrupt again.
Respond(c) ==
  /\ inv[c].stage = "returned"
  /\ unsaved[c] = {}
  /\ http' = [http EXCEPT ![c] =
                IF @.asked # Null THEN Completed(c, T(c), ckpt[T(c)].values.decision)
                ELSE IF Interrupted(T(c))
                     THEN [@ EXCEPT !.code = 200, !.status = "interrupted"]
                     ELSE Completed(c, T(c), Null)]
  /\ inv' = [inv EXCEPT ![c] = Over(c, "done")]
  /\ UNCHANGED <<storeVars, ckptVars, faults>>

\* invoke has raised: the caller gets a 500.
RespondError(c) ==
  /\ inv[c].stage = "raised"
  /\ unsaved[c] = {}
  /\ http' = [http EXCEPT ![c].code = 500]
  /\ inv' = [inv EXCEPT ![c] = Over(c, "done")]
  /\ UNCHANGED <<storeVars, ckptVars, faults>>

\* get_run_status: 404 without a row; a response model that requires both strings turns
\* a missing final_status or route into a 500.
RunStatus(t) ==
  LET v == ckpt[t].values
      final == Coalesce(v.final_status, runs[t].final_status)
      route == Coalesce(v.route, runs[t].route)
  IN  CASE ~runs[t].exists -> [NoHttp EXCEPT !.code = 404]
        [] runs[t].exists /\ Interrupted(t) ->
             [NoHttp EXCEPT !.code = 200, !.status = "interrupted"]
        [] runs[t].exists /\ ~Interrupted(t) /\ Null \in {final, route} ->
             [NoHttp EXCEPT !.code = 500]
        [] OTHER -> [NoHttp EXCEPT !.code = 200, !.status = "completed",
                                   !.final_status = final, !.decision = v.decision]

--------------------------------------------------------------------------------
GraphStep(c) == (NodeStep(c) \/ Save(c) \/ StatementFails(c)) /\ UNCHANGED http
CrashStep == Crash /\ UNCHANGED http

Next ==
  \/ \E c \in Calls :
       \/ RunContract(c) \/ ResumeCheck(c) \/ InvokeResume(c)
       \/ GraphStep(c) \/ Respond(c) \/ RespondError(c)
  \/ CrashStep

\* What a call does by itself once it has been made.
Advance(c) ==
  \/ InvokeResume(c) \/ Respond(c) \/ RespondError(c)
  \/ NodeStep(c) /\ UNCHANGED http

Spec == Init /\ [][Next]_vars

\* Worker threads and the checkpoint writer are scheduled; nobody has to call, and
\* nothing has to fail.
FairSpec ==
  /\ Spec
  /\ \A c \in Calls :
       /\ WF_vars(Advance(c))
       /\ WF_vars(Save(c) /\ UNCHANGED http)
================================================================================
