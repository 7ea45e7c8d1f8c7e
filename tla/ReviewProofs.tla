------------------------------- MODULE ReviewProofs -----------------------------
(***************************************************************************)
(* The review service, for any number of threads, calls and faults and       *)
(* whatever calls overlap.  First the audit trail: GraphInv, with the lemmas *)
(* of GraphProofs for the steps inside the graph.  Then the life of a        *)
(* thread: every step keeps LifecycleInv, and what follows for the           *)
(* timestamps and for the threads that wait.  Last, failed policies and the  *)
(* reviewers' inbox.                                                         *)
(***************************************************************************)
EXTENDS ReviewLifecycle, GraphProofs

HttpOK == http \in [Calls -> Http]

\* What the endpoints write into a response leaves it one.
LEMMA ResponseType ==
  ASSUME NEW h \in Http, NEW f \in FinalStatuses \cup {Null},
         NEW d \in Words \cup {"auto_approve", Null}
  PROVE  /\ [h EXCEPT !.code = 200, !.status = "completed", !.final_status = f,
                       !.decision = d] \in Http
         /\ [h EXCEPT !.code = 200, !.status = "interrupted"] \in Http
<1> DEFINE g == [h EXCEPT !.code = 200, !.status = "completed"]
<1>1. g \in Http
  BY DEF Http
<1>2. [g EXCEPT !.final_status = f, !.decision = d] \in Http
  <2> HIDE DEF g
  <2> QED BY <1>1 DEF Http
<1>3. [h EXCEPT !.code = 200, !.status = "completed", !.final_status = f, !.decision = d]
        = [g EXCEPT !.final_status = f, !.decision = d]
  OBVIOUS
<1>4. [h EXCEPT !.code = 200, !.status = "interrupted"] \in Http
  BY DEF Http
<1> QED BY <1>2, <1>3, <1>4

\* Completed is a response, whatever it reads of a thread's state.
LEMMA CompletedType ==
  ASSUME GraphInv, HttpOK, NEW c \in Calls, NEW t \in Threads,
         NEW d \in Words \cup {"auto_approve", Null}
  PROVE  Completed(c, t, d) \in Http
<1>1. ckpt[t].values.final_status \in FinalStatuses \cup {Null}
  BY DEF GraphInv, CkptTypeOK, Checkpoint, Values
<1>2. http[c] \in Http
  BY DEF HttpOK
<1> QED BY <1>1, <1>2, ResponseType DEF Completed

\* run_contract begins.
LEMMA RunKeeps ==
  ASSUME GraphInv, HttpOK, NEW c \in Calls, RunContract(c)
  PROVE  GraphInv' /\ HttpOK'
<1>1. PICK t \in Threads, d \in Uploads : Start(c, t, d)
  BY DEF RunContract
<1>2. inv[c].stage = "idle" /\ http' = http /\ d \in Documents
  BY ApiAssumption DEF RunContract
<1> QED BY <1>1, <1>2, StartKeeps DEF HttpOK

\* resume_contract looks at the thread.
LEMMA CheckKeeps ==
  ASSUME GraphInv, HttpOK, NEW c \in Calls, ResumeCheck(c)
  PROVE  GraphInv' /\ HttpOK'
<1>1. /\ inv[c].stage = "idle" /\ CallOK(c) /\ inv \in [Calls -> Invocation]
      /\ UNCHANGED <<storeVars, ckptVars, faults>>
  BY DEF ResumeCheck, GraphInv, GraphTypeOK
<1>2. unsaved[c] = {} /\ unsaved' = unsaved
  BY <1>1 DEF CallOK, ckptVars
<1>3. ASSUME NEW t \in Threads, NEW d \in Decisions, NEW e \in Edits,
             inv' = [inv EXCEPT ![c] =
                       [NoInvocation EXCEPT
                          !.stage = "checked", !.thread = t,
                          !.answer = [form |-> "object", decision |-> d,
                                      edits |-> e]]],
             http' = [http EXCEPT ![c].asked = d]
      PROVE  GraphInv' /\ HttpOK'
  <2> DEFINE a == [form |-> "object", decision |-> d, edits |-> e]
             new == [NoInvocation EXCEPT !.stage = "checked", !.thread = t, !.answer = a]
  <2>1. a \in AnswersOrNone /\ "checked" \in Stages
    BY DEF AnswersOrNone, Answers, Words, Stages
  <2>2. inv' = [inv EXCEPT ![c] = new]
    BY <1>3
  <2> HIDE DEF a
  <2>3. /\ new \in Invocation /\ new.stage = "checked" /\ new.thread = t
        /\ new.values = NoValues
    BY <2>1, NoInvocationType DEF Invocation, NoInvocation
  <2> HIDE DEF new
  <2>4. inv'[c] = new
    BY <1>1, <2>2
  <2>5. CallOK(c)'
    <3>1. \A E : Backed(E, NoValues)
      BY NothingYet, BackedNothing
    <3> QED BY <1>2, <2>3, <2>4, <3>1 DEF CallOK, Running, Backed
  <2>6. GraphInv'
    BY <1>1, <2>2, <2>3, <2>5, CallChanges
  <2>7. HttpOK'
    BY <1>3 DEF HttpOK, Http
  <2> QED BY <2>6, <2>7
<1>4. ASSUME inv' = [inv EXCEPT ![c].stage = "done"],
             http' = [http EXCEPT ![c].code = 404]
      PROVE  GraphInv' /\ HttpOK'
  <2> DEFINE new == [inv[c] EXCEPT !.stage = "done"]
  <2>1. new \in Invocation /\ new.stage = "done"
    BY <1>1 DEF Invocation, Stages
  <2>2. inv' = [inv EXCEPT ![c] = new]
    BY <1>4
  <2> HIDE DEF new
  <2>3. inv'[c] = new
    BY <1>1, <2>2
  <2>4. CallOK(c)'
    BY <1>2, <2>1, <2>3 DEF CallOK, Active, Running
  <2>5. GraphInv'
    BY <1>1, <2>1, <2>2, <2>4, CallChanges
  <2>6. HttpOK'
    BY <1>4 DEF HttpOK, Http
  <2> QED BY <2>5, <2>6
<1> QED BY <1>3, <1>4 DEF ResumeCheck

\* The invocation of a resume begins.
LEMMA InvokeKeeps ==
  ASSUME GraphInv, HttpOK, NEW c \in Calls, InvokeResume(c)
  PROVE  GraphInv' /\ HttpOK'
<1>1. inv[c].stage = "checked" /\ Resume(c, T(c), inv[c].answer) /\ http' = http
  BY DEF InvokeResume
<1>2. CallOK(c) /\ inv[c] \in Invocation
  BY DEF GraphInv, GraphTypeOK
<1>3. T(c) \in Threads /\ inv[c].answer \in AnswersOrNone
  BY <1>1, <1>2 DEF CallOK, Active, Invocation, T
<1> QED BY <1>1, <1>3, ResumeKeeps DEF HttpOK

\* The endpoints answer.
LEMMA RespondKeeps ==
  ASSUME GraphInv, HttpOK, NEW c \in Calls, Respond(c) \/ RespondError(c)
  PROVE  GraphInv' /\ HttpOK'
<1>1. /\ inv[c].stage \in {"returned", "raised"} /\ unsaved[c] = {}
      /\ inv' = [inv EXCEPT ![c] = Over(c, "done")]
      /\ UNCHANGED <<storeVars, ckptVars, faults>>
  BY DEF Respond, RespondError
<1>2. GraphInv'
  BY <1>1, OverKeeps
<1>3. CallOK(c) /\ CkptTypeOK
  BY DEF GraphInv
<1>4. T(c) \in Threads
  BY <1>1, <1>3 DEF CallOK, Active, T
<1>5. CASE Respond(c)
  <2> DEFINE d == ckpt[T(c)].values.decision
             new == IF http[c].asked # Null THEN Completed(c, T(c), d)
                    ELSE IF Interrupted(T(c))
                         THEN [http[c] EXCEPT !.code = 200, !.status = "interrupted"]
                         ELSE Completed(c, T(c), Null)
  <2>1. d \in Words \cup {"auto_approve", Null}
    BY <1>3, <1>4 DEF CkptTypeOK, Checkpoint, Values
  <2>2. http' = [http EXCEPT ![c] = new]
    BY <1>5 DEF Respond
  <2> HIDE DEF d
  <2>3. Completed(c, T(c), d) \in Http /\ Completed(c, T(c), Null) \in Http
    BY <1>4, <2>1, CompletedType
  <2>4. [http[c] EXCEPT !.code = 200, !.status = "interrupted"] \in Http
    BY ResponseType DEF HttpOK
  <2>5. new \in Http
    BY <2>3, <2>4
  <2> HIDE DEF new
  <2>6. HttpOK'
    BY <2>2, <2>5 DEF HttpOK
  <2> QED BY <1>2, <2>6
<1>6. CASE RespondError(c)
  BY <1>2, <1>6 DEF RespondError, HttpOK, Http
<1> QED BY <1>5, <1>6

--------------------------------------------------------------------------------
(* The theorems. *)

\* GraphInv and the responses' type hold of every behaviour: initially, and after every
\* step of a call, of the checkpoint writer, of a fault or of nobody.
THEOREM ReviewInvariance == Spec => [](GraphInv /\ HttpOK)
<1>1. Init => GraphInv /\ HttpOK
  <2>1. NoHttp \in Http
    BY DEF NoHttp, Http
  <2> QED BY <2>1, InitInv DEF Init, HttpOK
<1>2. GraphInv /\ HttpOK /\ [Next]_vars => (GraphInv /\ HttpOK)'
  <2> SUFFICES ASSUME GraphInv, HttpOK, [Next]_vars
               PROVE  GraphInv' /\ HttpOK'
    OBVIOUS
  <2>1. ASSUME NEW c \in Calls,
               RunContract(c) \/ ResumeCheck(c) \/ InvokeResume(c) \/ Respond(c)
                 \/ RespondError(c)
        PROVE  GraphInv' /\ HttpOK'
    BY <2>1, RunKeeps, CheckKeeps, InvokeKeeps, RespondKeeps
  <2>2. ASSUME NEW c \in Calls, GraphStep(c)
        PROVE  GraphInv' /\ HttpOK'
    <3>1. GraphInv'
      BY <2>2, NodeStepKeeps, SaveKeeps, FaultKeeps DEF GraphStep
    <3>2. http' = http
      BY <2>2 DEF GraphStep
    <3> QED BY <3>1, <3>2 DEF HttpOK
  <2>3. CASE CrashStep
    BY <2>3, CrashKeeps DEF CrashStep, HttpOK
  <2>4. CASE UNCHANGED vars
    BY <2>4, StutterKeeps DEF vars, HttpOK
  <2> QED BY <2>1, <2>2, <2>3, <2>4 DEF Next
<1> QED BY <1>1, <1>2, PTL DEF Spec

\* Every variable of the service keeps its type.
THEOREM ReviewTypeCorrect == Spec => []TypeOK
<1>1. GraphInv /\ HttpOK => TypeOK
  BY DEF GraphInv, HttpOK, TypeOK
<1> QED BY <1>1, ReviewInvariance, PTL

\* The SQLite and JSONL event streams of append_event agree, whatever calls overlap.
THEOREM ReviewStreamsAgree == Spec => []StreamsAgree
<1>1. GraphInv => StreamsAgree
  BY DEF GraphInv
<1> QED BY <1>1, ReviewInvariance, PTL

\* No saved state, report or row of the service shows an outcome that the event table
\* does not account for, whatever fails and whatever calls overlap.
THEOREM ReviewOutcomeLogged == Spec => []OutcomeLogged
<1>1. GraphInv => OutcomeLogged
  BY DEF GraphInv
<1> QED BY <1>1, ReviewInvariance, PTL

--------------------------------------------------------------------------------
(* The life of a thread. *)

\* What a step keeps of the state of thread t that the calls of t share.
SharedKept(t) ==
  /\ PutForward(t) => PutForward(t)'
  /\ runs[t].resumed_at => runs'[t].resumed_at
  /\ ckpt'[t].paused => ckpt[t].paused /\ ckpt'[t].id = ckpt[t].id
  /\ ckpt[t].paused \/ Reviewed(t, ckpt[t]) => ckpt'[t].paused \/ Reviewed(t, ckpt[t])'

\* A step of call c, whose thread it stays, touches no other call and no other thread.
StepOf(c) ==
  /\ \A d \in Calls : d # c => /\ inv'[d] = inv[d] /\ unsaved'[d] = unsaved[d]
                               /\ http'[d] = http[d]
  /\ \A t \in Threads : t # T(c) => SameThread(t)
  /\ inv'[c].thread = T(c) /\ http'[c].asked = http[c].asked
  /\ faults > 0 => faults' > 0

--------------------------------------------------------------------------------
(* Frames. *)

\* The threads of all calls stay, and with them who is alone.
LEMMA StepKeepsThreads ==
  ASSUME NEW c \in Calls, StepOf(c)
  PROVE  /\ \A d \in Calls : inv'[d].thread = T(d)
         /\ \A d \in Calls : http'[d].asked = http[d].asked
         /\ \A d \in Calls : Alone(d)' <=> Alone(d)
<1>1. \A d \in Calls : inv'[d].thread = T(d) /\ http'[d].asked = http[d].asked
  BY DEF StepOf, T
<1>2. \A d \in Calls : Alone(d)' <=> Alone(d)
  BY <1>1 DEF Alone, T
<1> QED BY <1>1, <1>2

\* Call d of another thread.
LEMMA OtherThreadRole ==
  ASSUME LifecycleInv, NEW c \in Calls, StepOf(c), NEW d \in Calls, d # c, T(d) # T(c),
         GraphInv
  PROVE  RoleOK(d)'
<1>1. /\ RoleOK(d) /\ inv'[d] = inv[d] /\ unsaved'[d] = unsaved[d] /\ http'[d] = http[d]
      /\ (Alone(d)' <=> Alone(d)) /\ (faults > 0 => faults' > 0)
  BY StepKeepsThreads DEF LifecycleInv, StepOf
<1>2. CASE inv[d].stage = "idle"
  BY <1>1, <1>2 DEF RoleOK, Active, Running, Resumes, T
<1>3. CASE T(d) \in Threads
  <2>1. SameThread(T(d))
    BY <1>3 DEF StepOf
  <2>2. RunnerOK(d) => RunnerOK(d)'
    BY <1>1, <2>1 DEF SameThread, RunnerOK, PutForward, PendingLogged, Marking, Writing, At, V, T
  <2>3. ResumerOK(d) => ResumerOK(d)'
    BY <1>1, <2>1 DEF SameThread, ResumerOK, PutForward, PendingLogged, Reviewed, PastResumed,
                      Active, Writing, At, V, T
  <2> QED BY <1>1, <2>2, <2>3 DEF RoleOK, Active, Resumes, T
<1>4. CASE T(d) \notin Threads /\ ~Active(d)
  <2>1. ~Resumes(d)
    BY <1>1, <1>4 DEF RoleOK, ResumerOK
  <2> QED BY <1>1, <1>4, <2>1 DEF RoleOK, Active, Resumes, T
<1>5. Active(d) => T(d) \in Threads
  BY DEF GraphInv, CallOK, T
<1> QED BY <1>3, <1>4, <1>5

\* Another call of the same thread: a runner has nothing left to do or save, a resumer
\* relies on what the step keeps of the thread.
LEMMA SameThreadRole ==
  ASSUME LifecycleInv, NEW c \in Calls, StepOf(c), NEW d \in Calls, d # c, NEW t \in Threads,
         T(c) = t, T(d) = t, SharedKept(t)
  PROVE  RoleOK(d)'
<1>1. /\ RoleOK(d) /\ inv'[d] = inv[d] /\ unsaved'[d] = unsaved[d] /\ http'[d] = http[d]
      /\ (Alone(d)' <=> Alone(d)) /\ ~Alone(d)
  BY StepKeepsThreads DEF LifecycleInv, StepOf, Alone
<1>2. RunnerOK(d) => RunnerOK(d)'
  <2> SUFFICES ASSUME RunnerOK(d) PROVE RunnerOK(d)'
    OBVIOUS
  <2>1. /\ inv[d].stage \notin Running \cup {"raised"} /\ unsaved[d] = {}
        /\ inv[d].answer = NoAnswer /\ inv[d].stage # "checked"
    BY <1>1 DEF RunnerOK
  <2>2. inv[d].stage \notin {"set_pending", "return", "raised"}
    BY <2>1 DEF Running
  <2> QED BY <1>1, <2>1, <2>2 DEF RunnerOK, Marking, Writing, At, V, T
<1>3. ResumerOK(d) => ResumerOK(d)'
  <2> SUFFICES ASSUME ResumerOK(d) PROVE ResumerOK(d)'
    OBVIOUS
  <2>1. PutForward(t)' /\ (runs[t].resumed_at => runs'[t].resumed_at)
    BY DEF ResumerOK, SharedKept
  <2>2. Active(d) => ckpt'[t].paused \/ Reviewed(t, ckpt[t])'
    BY DEF ResumerOK, SharedKept
  <2>3. Active(d) => \A k \in unsaved[d] : ~k.paused /\ Reviewed(t, k)'
    BY <2>1 DEF ResumerOK, Reviewed
  <2>4. ckpt'[t].paused => ckpt[t].paused /\ ckpt'[t].id = ckpt[t].id
    BY DEF SharedKept
  <2>5. T(d)' = t /\ Active(d)' = Active(d) /\ PastResumed(d)' = PastResumed(d) /\ V(d)' = V(d)
    BY <1>1 DEF T, V, Active, PastResumed, Writing
  <2> QED BY <1>1, <2>1, <2>2, <2>3, <2>4, <2>5 DEF ResumerOK, Writing, Reviewed
<1> QED BY <1>1, <1>2, <1>3 DEF RoleOK, Active, Resumes, T

\* What is left to show of a step of call c.
LEMMA StepKeepsLifecycle ==
  ASSUME LifecycleInv, GraphInv, NEW c \in Calls, NEW t \in Threads, T(c) = t, StepOf(c),
         ShapeInv', RoleOK(c)', ckpt'[t].paused => PutForward(t)',
         ~Alone(c) => SharedKept(t)
  PROVE  LifecycleInv'
<1>1. \A d \in Calls : RoleOK(d)'
  BY OtherThreadRole, SameThreadRole DEF Alone
<1>2. OneRunner'
  BY StepKeepsThreads DEF LifecycleInv, OneRunner, Resumes, T
<1>3. ASSUME NEW u \in Threads, u # t PROVE ThreadOK(u)'
  BY <1>3, StepKeepsThreads DEF LifecycleInv, StepOf, SameThread, ThreadOK, Untouched, PutForward,
     PendingLogged, T
<1>4. ThreadOK(t)'
  BY StepKeepsThreads DEF ThreadOK, T
<1> QED BY <1>1, <1>2, <1>3, <1>4 DEF LifecycleInv

--------------------------------------------------------------------------------
(* A step of a running call is a step of a runner or of a resumer. *)

\* The two roles of a running call.
LEMMA RolesOfRunning ==
  ASSUME GraphInv, LifecycleInv, NEW c \in Calls, inv[c].stage \in Running
  PROVE  /\ T(c) \in Threads /\ inv[c].stage # "idle" /\ http[c].code = 0
         /\ ~Resumes(c) => RunnerOK(c) /\ Alone(c)
         /\ Resumes(c) => ResumerOK(c)
BY CallFacts DEF LifecycleInv, RoleOK, RunnerOK, Active, Running

\* A step inside the graph is a step of its call.
LEMMA BecomesStep ==
  ASSUME NEW c \in Calls,
         NEW stage, NEW node, NEW values, NEW result, NEW event, NEW read,
         Becomes(c, stage, node, values, result, event, read), http' = http,
         \A d \in Calls : d # c => unsaved'[d] = unsaved[d],
         \A t \in Threads : t # T(c) => SameThread(t),
         faults > 0 => faults' > 0
  PROVE  StepOf(c)
BY DEF Becomes, StepOf

\* A runner goes on, and makes no checkpoint.
LEMMA RunnerGoes ==
  ASSUME GraphInv, LifecycleInv, NEW c \in Calls, inv[c].stage \in Running, ~Resumes(c),
         NEW t \in Threads, T(c) = t, StepOf(c), ShapeInv', http' = http,
         unsaved' = unsaved, ckpt'[t].id = ckpt[t].id, ckpt'[t].paused = ckpt[t].paused,
         inv'[c].answer = inv[c].answer, inv'[c].stage \in Running \cup {"raised"},
         inv'[c].stage \in Running => runs'[t].exists,
         runs'[t].resumed_at = runs[t].resumed_at,
         inv'[c].stage \in Running /\ Marking(c)' =>
           /\ runs'[t].interrupted_at /\ runs'[t].review_status = "pending"
           /\ inv'[c].stage = "interrupt" => PendingLogged(t)',
         inv'[c].stage \in Running /\ ~Marking(c)' => runs'[t].review_status # "pending",
         inv'[c].stage = "raised" => faults' > 0 \/ runs'[t].review_status # "pending",
         inv'[c].stage \in Running =>
           inv'[c].values.review_status # "pending" /\ inv'[c].result.review_status # "pending",
         inv'[c].stage = "set_pending" => ~inv'[c].read.resumed_at,
         inv'[c].stage = "return" => inv'[c].node # "human_review"
  PROVE  LifecycleInv'
<1>1. /\ RunnerOK(c) /\ Alone(c) /\ Alone(c)' /\ http[c].code = 0
      /\ inv'[c].thread = t
  BY RolesOfRunning, StepKeepsThreads DEF StepOf
<1>2. /\ ~ckpt[t].paused /\ (\A k \in unsaved[c] : k.id > ckpt[t].id /\ ~k.paused)
      /\ ~runs[t].resumed_at /\ inv[c].answer = NoAnswer
  BY <1>1 DEF RunnerOK
<1>3. inv'[c].stage # "checked" /\ inv'[c].stage # "idle"
  BY DEF Running
<1>4. RunnerOK(c)'
  BY <1>1, <1>2, <1>3 DEF RunnerOK, T, V
<1>5. RoleOK(c)'
  BY <1>1, <1>3, <1>4 DEF RoleOK, Resumes
<1> QED BY <1>1, <1>2, <1>5, StepKeepsLifecycle

\* A resumer goes on, and makes no checkpoint.
LEMMA ResumerGoes ==
  ASSUME GraphInv, LifecycleInv, NEW c \in Calls, inv[c].stage \in Running, Resumes(c),
         NEW t \in Threads, T(c) = t, StepOf(c), ShapeInv', http' = http,
         unsaved' = unsaved, ckpt'[t].id = ckpt[t].id, ckpt'[t].paused = ckpt[t].paused,
         ckpt'[t].next = ckpt[t].next, ckpt'[t].values = ckpt[t].values,
         inv'[c].answer = inv[c].answer, inv'[c].node = inv[c].node, inv'[c].values = V(c),
         inv'[c].stage \in Running \cup {"raised"},
         PutForward(t)', runs[t].resumed_at => runs'[t].resumed_at,
         inv'[c].stage \in Running /\ PastResumed(c)' => runs'[t].resumed_at,
         \/ Writing(c, {"human_review_completed", "report_written"})'
         \/ inv'[c].stage \in {"return", "finalize"}
         => inv'[c].result.review_status = "completed",
         inv'[c].stage = "set_pending" => inv'[c].read.resumed_at,
         inv'[c].stage = "set_completed" => inv'[c].read.interrupted_at
  PROVE  LifecycleInv'
<1>1. ResumerOK(c) /\ http[c].code = 0 /\ inv'[c].thread = t /\ Active(c)
  BY RolesOfRunning, CallFacts DEF StepOf
<1>2. inv'[c].stage \notin {"checked", "idle", "returned"}
  BY DEF Running
<1>3. \A k : Reviewed(t, k) => Reviewed(t, k)'
  BY DEF Reviewed
<1>4. /\ ckpt[t].paused \/ Reviewed(t, ckpt[t])
      /\ \A k \in unsaved[c] : ~k.paused /\ Reviewed(t, k)
      /\ inv[c].answer # NoAnswer
      /\ inv[c].node \in {"human_review", "audit_and_report", "END"}
      /\ inv[c].node \in {"audit_and_report", "END"} =>
           /\ V(c).review_status = "completed"
           /\ ~ckpt[t].paused \/ \E k \in unsaved[c] : k.id > ckpt[t].id
  BY <1>1 DEF ResumerOK
<1>5. ckpt'[t].paused \/ Reviewed(t, ckpt[t])'
  BY <1>4 DEF Reviewed
<1>6. \A k \in unsaved[c] : ~k.paused /\ Reviewed(t, k)'
  BY <1>3, <1>4
<1>7. ResumerOK(c)'
  BY <1>1, <1>2, <1>4, <1>5, <1>6 DEF ResumerOK, T, V
<1>8. RoleOK(c)'
  BY <1>1, <1>2, <1>7 DEF RoleOK, Resumes
<1>9. SharedKept(t)
  BY <1>5 DEF SharedKept
<1> QED BY <1>8, <1>9, StepKeepsLifecycle

--------------------------------------------------------------------------------
(* The nodes before human_review: steps of a runner. *)

\* A runner at the first stage of a node writes an event that asks nothing of a reviewer.
LEMMA RunnerEmits ==
  ASSUME GraphInv, LifecycleInv, NEW c \in Calls, inv[c].stage \in Running, ~Resumes(c),
         ShapeInv', http' = http, UNCHANGED ckptVars, faults' = faults,
         \A u \in Threads : u # T(c) => SameThread(u),
         NEW type, NEW info, NEW result, Emit(c, type, info, result),
         type # "human_review_pending", result.review_status # "pending",
         runs'[T(c)].exists, runs'[T(c)].resumed_at = runs[T(c)].resumed_at,
         runs'[T(c)].review_status # "pending"
  PROVE  LifecycleInv'
<1> DEFINE t == T(c)
<1>1. /\ t \in Threads /\ RunnerOK(c) /\ inv \in [Calls -> Invocation]
  BY RolesOfRunning DEF GraphInv, GraphTypeOK
<1>2. /\ Becomes(c, "insert", inv[c].node, V(c), result, [type |-> type, info |-> info],
                 inv[c].read)
      /\ inv'[c].event.type = type
  BY <1>1, EmitBecomes
<1>3. unsaved' = unsaved /\ ckpt' = ckpt
  BY DEF ckptVars
<1>4. StepOf(c)
  BY <1>2, <1>3, BecomesStep
<1>5. /\ inv'[c].stage = "insert" /\ inv'[c].answer = inv[c].answer
      /\ inv'[c].values = V(c) /\ inv'[c].result = result
  BY <1>2 DEF Becomes
<1>6. ~Marking(c)' /\ "insert" \in Running
  BY <1>2, <1>5 DEF Marking, Writing, Running
<1>7. V(c).review_status # "pending"
  BY <1>1 DEF RunnerOK
<1> HIDE DEF t
<1>8. T(c) = t
  BY DEF t
<1> QED BY <1>1, <1>3, <1>4, <1>5, <1>6, <1>7, <1>8, RunnerGoes

\* A runner gives up, before the review or because of a fault.
LEMMA RunnerRaises ==
  ASSUME GraphInv, LifecycleInv, NEW c \in Calls, inv[c].stage \in Running, ~Resumes(c),
         ShapeInv', http' = http, UNCHANGED <<unsaved, runs, events, log, reports>>,
         \A u \in Threads : /\ ckpt'[u].id = ckpt[u].id /\ ckpt'[u].paused = ckpt[u].paused
                            /\ u # T(c) => ckpt'[u] = ckpt[u],
         faults > 0 => faults' > 0,
         Becomes(c, "raised", inv[c].node, V(c), inv[c].result, inv[c].event, inv[c].read),
         ~Marking(c) \/ faults' > 0
  PROVE  LifecycleInv'
<1> DEFINE t == T(c)
<1>1. t \in Threads /\ RunnerOK(c)
  BY RolesOfRunning
<1>2. StepOf(c)
  BY BecomesStep DEF SameThread
<1>3. inv'[c].stage = "raised" /\ inv'[c].answer = inv[c].answer /\ "raised" \notin Running
  BY DEF Becomes, Running
<1>4. faults' > 0 \/ runs'[t].review_status # "pending"
  BY <1>1 DEF RunnerOK
<1> HIDE DEF t
<1>5. T(c) = t
  BY DEF t
<1> QED BY <1>1, <1>2, <1>3, <1>4, <1>5, RunnerGoes

\* The nodes before human_review, and the automatic approval.
LEMMA LifecycleEarly ==
  ASSUME GraphInv, LifecycleInv, NEW c \in Calls, ShapeInv', http' = http,
         \/ IngestContract(c) \/ ParseAndChunkClauses(c) \/ ExtractDetailsAndFlagRisk(c)
         \/ CheckPolicyRules(c) \/ AutoAdvanceStandardCases(c)
  PROVE  LifecycleInv'
<1>1. /\ inv[c].stage = "body" /\ inv[c].stage \in Running
      /\ inv[c].node \notin {"human_review", "audit_and_report", "END"}
      /\ UNCHANGED <<events, log, ckptVars, faults>>
  BY DEF IngestContract, ParseAndChunkClauses, ExtractDetailsAndFlagRisk, CheckPolicyRules,
         AutoAdvanceStandardCases, At, Running, storeVars
<1>2. /\ T(c) \in Threads /\ ~Resumes(c) /\ RunnerOK(c) /\ ~Marking(c)
      /\ inv \in [Calls -> Invocation] /\ runs \in [Threads -> Row]
  BY <1>1, RolesOfRunning
     DEF ResumerOK, Marking, Writing, GraphInv, GraphTypeOK, StoreTypeOK
<1>3. /\ V(c).review_status # "pending" /\ runs[T(c)].review_status # "pending"
      /\ ~At(c, "ingest_contract", "body") => runs[T(c)].exists
  BY <1>1, <1>2 DEF RunnerOK
<1>4. V(c) \in Values
  BY <1>1, CallFacts
<1>5. CASE IngestContract(c)
  <2>1. reports' = reports
    BY <1>5 DEF IngestContract
  <2>2. CASE IngestFound(c)
    <3> DEFINE w == [V(c) EXCEPT !.parse_status = "pending", !.review_status = "not_required"]
    <3>1. w.review_status # "pending"
      BY <1>4 DEF Values
    <3>2. RegisterRun(T(c), Null, Null) /\ Emit(c, "ingested", Null, w)
      BY <2>2 DEF IngestFound
    <3> HIDE DEF w
    <3>3. /\ \A u \in Threads : u # T(c) => SameThread(u)
          /\ runs'[T(c)].exists /\ runs'[T(c)].resumed_at = runs[T(c)].resumed_at
          /\ runs'[T(c)].review_status # "pending"
      BY <1>1, <1>2, <2>1, <3>2, RegisterFields DEF SameThread, ckptVars
    <3> QED BY <1>1, <1>2, <3>1, <3>2, <3>3, RunnerEmits
  <2>3. CASE IngestMissing(c)
    <3> DEFINE w == [V(c) EXCEPT !.final_status = "failed", !.route = "audit_only",
                                 !.review_status = "not_required"]
    <3>1. w.review_status # "pending"
      BY <1>4 DEF Values
    <3>2. RegisterRun(T(c), "failed", "audit_only") /\ Emit(c, "ingest_failed", Null, w)
      BY <2>3 DEF IngestMissing
    <3> HIDE DEF w
    <3>3. /\ \A u \in Threads : u # T(c) => SameThread(u)
          /\ runs'[T(c)].exists /\ runs'[T(c)].resumed_at = runs[T(c)].resumed_at
          /\ runs'[T(c)].review_status # "pending"
      BY <1>1, <1>2, <2>1, <3>2, RegisterFields DEF SameThread, ckptVars
    <3> QED BY <1>1, <1>2, <3>1, <3>2, <3>3, RunnerEmits
  <2> QED BY <1>5, <2>2, <2>3 DEF IngestContract
<1>6. CASE ~IngestContract(c)
  <2>1. UNCHANGED storeVars /\ ~At(c, "ingest_contract", "body")
    BY <1>6 DEF ParseAndChunkClauses, ExtractDetailsAndFlagRisk, CheckPolicyRules,
                AutoAdvanceStandardCases, At
  <2>2. /\ \A u \in Threads : SameThread(u)
        /\ runs'[T(c)].exists /\ runs'[T(c)].resumed_at = runs[T(c)].resumed_at
        /\ runs'[T(c)].review_status # "pending"
    BY <1>1, <1>2, <1>3, <2>1 DEF SameThread, ckptVars, storeVars
  <2>3. ASSUME Go(c, "raised") PROVE LifecycleInv'
    <3>1. Becomes(c, "raised", inv[c].node, V(c), inv[c].result, inv[c].event, inv[c].read)
      BY <1>2, <2>3, GoBecomes
    <3> QED BY <1>1, <1>2, <2>1, <3>1, RunnerRaises DEF storeVars, ckptVars
  <2>4. ASSUME NEW type, type # "human_review_pending", NEW info, NEW result,
               Emit(c, type, info, result), result.review_status # "pending"
        PROVE  LifecycleInv'
    BY <1>1, <1>2, <2>2, <2>4, RunnerEmits
  <2>5. /\ FailedValues(c).review_status # "pending"
        /\ [V(c) EXCEPT !.parse_status = "parsed"].review_status # "pending"
        /\ [V(c) EXCEPT !.parse_status = "needs_manual_parse", !.route = "audit_only",
                        !.final_status = "needs_manual_parse"].review_status # "pending"
        /\ \A x : [V(c) EXCEPT !.extractions = x, !.printable = TRUE].review_status # "pending"
        /\ \A r : [V(c) EXCEPT !.route = r].review_status # "pending"
        /\ [V(c) EXCEPT !.final_status = "approved_automatically",
                        !.review_status = "not_required",
                        !.decision = "auto_approve"].review_status # "pending"
    BY <1>3, <1>4 DEF FailedValues, Values
  <2>6. CASE ParseAndChunkClauses(c)
    <3> DEFINE w1 == [V(c) EXCEPT !.parse_status = "parsed"]
               w2 == [V(c) EXCEPT !.parse_status = "needs_manual_parse",
                                  !.route = "audit_only",
                                  !.final_status = "needs_manual_parse"]
    <3>1. \/ Emit(c, "parsed", Null, w1) \/ Emit(c, "parse_unsupported", Null, w2)
          \/ Go(c, "raised")
      BY <2>6 DEF ParseAndChunkClauses
    <3>2. w1.review_status # "pending" /\ w2.review_status # "pending"
      BY <2>5
    <3> HIDE DEF w1, w2
    <3> QED BY <2>3, <2>4, <3>1, <3>2
  <2>7. CASE ExtractDetailsAndFlagRisk(c)
    <3> DEFINE w(x) == [V(c) EXCEPT !.extractions = x, !.printable = TRUE]
    <3>1. \/ \E x \in Extractions : Emit(c, "extracted", Null, w(x))
          \/ Emit(c, "extraction_failed", Null, FailedValues(c))
      BY <2>7 DEF ExtractDetailsAndFlagRisk
    <3>2. \A x : w(x).review_status # "pending"
      BY <2>5
    <3> HIDE DEF w
    <3> QED BY <2>4, <2>5, <3>1, <3>2
  <2>8. CASE CheckPolicyRules(c)
    <3> DEFINE w == [V(c) EXCEPT !.route = EvaluatePolicy(V(c).extractions)]
    <3>1. \/ Emit(c, "policy_evaluated", Null, w)
          \/ Emit(c, "policy_failed", Null, FailedValues(c))
      BY <2>8 DEF CheckPolicyRules
    <3>2. w.review_status # "pending"
      BY <2>5
    <3> HIDE DEF w
    <3> QED BY <2>4, <2>5, <3>1, <3>2
  <2>9. CASE AutoAdvanceStandardCases(c)
    <3> DEFINE w == [V(c) EXCEPT !.final_status = "approved_automatically",
                                 !.review_status = "not_required",
                                 !.decision = "auto_approve"]
    <3>1. Emit(c, "auto_approved", Null, w)
      BY <2>9 DEF AutoAdvanceStandardCases
    <3>2. w.review_status # "pending"
      BY <2>5
    <3> HIDE DEF w
    <3> QED BY <2>4, <3>1, <3>2
  <2> QED BY <1>6, <2>6, <2>7, <2>8, <2>9
<1> QED BY <1>5, <1>6

--------------------------------------------------------------------------------
(* human_review and audit_and_report: steps of a runner or of a resumer. *)

\* A resumer writes an event.
LEMMA ResumerEmits ==
  ASSUME GraphInv, LifecycleInv, NEW c \in Calls, inv[c].stage \in Running, Resumes(c),
         NEW t \in Threads, T(c) = t,
         ShapeInv', http' = http, UNCHANGED ckptVars, faults' = faults,
         \A u \in Threads : u # t => SameThread(u),
         NEW type, NEW info, NEW result, Emit(c, type, info, result),
         type \in {"human_review_resumed", "human_review_completed"} \/ PastResumed(c) =>
           runs'[t].resumed_at,
         type \in {"human_review_completed", "report_written"} =>
           result.review_status = "completed",
         runs[t].exists => runs'[t].exists,
         runs[t].interrupted_at => runs'[t].interrupted_at,
         runs[t].resumed_at => runs'[t].resumed_at,
         runs[t].review_status = "pending" =>
           runs'[t].review_status = "pending" \/ runs'[t].resumed_at,
         log' = log
  PROVE  LifecycleInv'
<1>1. /\ ResumerOK(c) /\ inv \in [Calls -> Invocation]
  BY RolesOfRunning DEF GraphInv, GraphTypeOK
<1>2. /\ Becomes(c, "insert", inv[c].node, V(c), result, [type |-> type, info |-> info],
                 inv[c].read)
      /\ inv'[c].event.type = type
  BY <1>1, EmitBecomes
<1>3. unsaved' = unsaved /\ ckpt' = ckpt
  BY DEF ckptVars
<1>4. StepOf(c)
  BY <1>2, <1>3, BecomesStep
<1>5. /\ inv'[c].stage = "insert" /\ inv'[c].answer = inv[c].answer
      /\ inv'[c].values = V(c) /\ inv'[c].result = result /\ inv'[c].node = inv[c].node
  BY <1>2 DEF Becomes
<1>6. PutForward(t)
  BY <1>1 DEF ResumerOK
<1>7. PutForward(t)'
  BY <1>6 DEF PutForward, PendingLogged
<1>8. PastResumed(c)' => runs'[t].resumed_at
  <2>1. PastResumed(c)' => type \in {"human_review_resumed", "human_review_completed"}
                           \/ inv[c].node \in {"audit_and_report", "END"}
    BY <1>2, <1>5 DEF PastResumed, Writing
  <2> QED BY <2>1 DEF PastResumed
<1>9. \/ Writing(c, {"human_review_completed", "report_written"})'
      \/ inv'[c].stage \in {"return", "finalize"}
      => inv'[c].result.review_status = "completed"
  BY <1>2, <1>5 DEF Writing
<1>10. inv'[c].stage \in Running \cup {"raised"}
  BY <1>5 DEF Running
<1>11. inv'[c].stage # "set_pending" /\ inv'[c].stage # "set_completed"
  BY <1>5
<1> QED BY <1>3, <1>4, <1>5, <1>7, <1>8, <1>9, <1>10, <1>11, ResumerGoes

\* A resumer goes to another stage, or gives up.
LEMMA ResumerStages ==
  ASSUME GraphInv, LifecycleInv, NEW c \in Calls, inv[c].stage \in Running, Resumes(c),
         NEW t \in Threads, T(c) = t, ShapeInv', http' = http, unsaved' = unsaved,
         faults > 0 => faults' > 0,
         ckpt'[t].id = ckpt[t].id, ckpt'[t].paused = ckpt[t].paused,
         ckpt'[t].next = ckpt[t].next, ckpt'[t].values = ckpt[t].values,
         \A u \in Threads : u # t => SameThread(u),
         NEW stage \in Running \cup {"raised"}, NEW read,
         Becomes(c, stage, inv[c].node, V(c), inv[c].result, inv[c].event, read),
         PutForward(t)', runs[t].resumed_at => runs'[t].resumed_at,
         stage \in {"insert", "line"} => inv[c].stage \in {"insert", "line"},
         stage = "return" =>
           PastResumed(c) /\ inv[c].result.review_status = "completed",
         stage = "finalize" => inv[c].result.review_status = "completed",
         stage \in {"set_pending", "decide"} => runs[t].resumed_at,
         stage = "set_pending" => read.resumed_at,
         stage = "set_completed" => read.interrupted_at
  PROVE  LifecycleInv'
<1>1. ResumerOK(c) /\ StepOf(c)
  BY RolesOfRunning, BecomesStep DEF Becomes
<1>2. /\ inv'[c].stage = stage /\ inv'[c].answer = inv[c].answer /\ inv'[c].read = read
      /\ inv'[c].values = V(c) /\ inv'[c].result = inv[c].result
      /\ inv'[c].node = inv[c].node /\ inv'[c].event = inv[c].event
  BY DEF Becomes
<1>3. PastResumed(c) => runs[t].resumed_at
  BY <1>1 DEF ResumerOK
<1>4. PastResumed(c)' /\ stage \in Running => runs'[t].resumed_at
  BY <1>2, <1>3 DEF PastResumed, Writing
<1>5. Writing(c, {"human_review_completed", "report_written"}) =>
        inv[c].result.review_status = "completed"
  BY <1>1 DEF ResumerOK
<1>6. Writing(c, {"human_review_completed", "report_written"})' =>
        inv'[c].result.review_status = "completed"
  BY <1>2, <1>5 DEF Writing
<1> QED BY <1>1, <1>2, <1>4, <1>6, ResumerGoes

\* A resumer gives up.
LEMMA ResumerRaises ==
  ASSUME GraphInv, LifecycleInv, NEW c \in Calls, inv[c].stage \in Running, Resumes(c),
         NEW t \in Threads, T(c) = t, ShapeInv', http' = http, unsaved' = unsaved,
         faults > 0 => faults' > 0,
         ckpt'[t].id = ckpt[t].id, ckpt'[t].paused = ckpt[t].paused,
         ckpt'[t].next = ckpt[t].next, ckpt'[t].values = ckpt[t].values,
         \A u \in Threads : u # t => SameThread(u),
         Becomes(c, "raised", inv[c].node, V(c), inv[c].result, inv[c].event, inv[c].read),
         PutForward(t)', runs'[t] = runs[t]
  PROVE  LifecycleInv'
<1>1. "raised" \notin Running
  BY DEF Running
<1>2. /\ inv'[c].stage = "raised" /\ inv'[c].answer = inv[c].answer
      /\ inv'[c].values = V(c) /\ inv'[c].node = inv[c].node
  BY DEF Becomes
<1>3. StepOf(c) /\ ~Writing(c, {"human_review_completed", "report_written"})'
  BY <1>2, BecomesStep DEF Becomes, Writing
<1> QED BY <1>1, <1>2, <1>3, ResumerGoes

\* A runner goes to another stage of its node.
LEMMA RunnerStages ==
  ASSUME GraphInv, LifecycleInv, NEW c \in Calls, inv[c].stage \in Running, ~Resumes(c),
         NEW t \in Threads, T(c) = t, ShapeInv', http' = http,
         UNCHANGED <<unsaved, ckpt>>, faults' = faults,
         \A u \in Threads : u # t => SameThread(u),
         NEW stage \in Running, NEW read,
         Becomes(c, stage, inv[c].node, V(c), inv[c].result, inv[c].event, read),
         runs'[t].exists, runs'[t].resumed_at = runs[t].resumed_at,
         Marking(c)' => /\ runs'[t].interrupted_at /\ runs'[t].review_status = "pending"
                        /\ stage = "interrupt" => PendingLogged(t)',
         ~Marking(c)' => runs'[t].review_status # "pending",
         stage = "set_pending" => ~read.resumed_at,
         stage = "return" => inv[c].node # "human_review"
  PROVE  LifecycleInv'
<1>1. RunnerOK(c) /\ StepOf(c)
  BY RolesOfRunning, BecomesStep DEF Becomes
<1>2. /\ inv'[c].stage = stage /\ inv'[c].answer = inv[c].answer /\ inv'[c].read = read
      /\ inv'[c].values = V(c) /\ inv'[c].result = inv[c].result
      /\ inv'[c].node = inv[c].node
  BY DEF Becomes
<1>3. V(c).review_status # "pending" /\ inv[c].result.review_status # "pending"
  BY <1>1 DEF RunnerOK
<1>4. stage # "raised"
  BY DEF Running
<1> QED BY <1>1, <1>2, <1>3, <1>4, RunnerGoes

\* The SELECT of mark_review_pending: a runner finds a row nobody has put before a
\* reviewer, a resumer one that is pending or was resumed.
LEMMA LifecycleSelectPending ==
  ASSUME GraphInv, LifecycleInv, NEW c \in Calls, ShapeInv', http' = http, SelectPending(c)
  PROVE  LifecycleInv'
<1>1. /\ inv[c].stage = "body" /\ inv[c].stage \in Running /\ inv[c].node = "human_review"
      /\ UNCHANGED <<runs, events, log, reports, ckpt, unsaved, faults>>
      /\ inv \in [Calls -> Invocation]
  BY DEF SelectPending, At, Running, storeVars, ckptVars, GraphInv, GraphTypeOK
<1>2. PICK t \in Threads : T(c) = t
  BY <1>1, RolesOfRunning
<1>3. /\ Becomes(c, IF WillTransition(t, "pending") THEN "set_pending" ELSE "interrupt",
                 inv[c].node, V(c), inv[c].result, inv[c].event, inv'[c].read)
      /\ inv'[c].read.resumed_at = runs[t].resumed_at
  BY <1>1, <1>2, SelectBecomes DEF SelectPending
<1>4. \A u \in Threads : SameThread(u)
  BY <1>1 DEF SameThread
<1>5. CASE Resumes(c)
  <2>1. ResumerOK(c) /\ PutForward(t)
    BY <1>1, <1>2, <1>5, RolesOfRunning DEF ResumerOK
  <2>2. PutForward(t)'
    BY <1>1, <2>1 DEF PutForward, PendingLogged
  <2>3. WillTransition(t, "pending") => runs[t].resumed_at
    BY <2>1 DEF PutForward, WillTransition
  <2>4. CASE WillTransition(t, "pending")
    <3>1. Becomes(c, "set_pending", inv[c].node, V(c), inv[c].result, inv[c].event,
                  inv'[c].read)
      BY <1>3, <2>4
    <3>2. "set_pending" \in Running
      BY DEF Running
    <3> QED BY <1>1, <1>2, <1>3, <1>4, <1>5, <2>2, <2>3, <2>4, <3>1, <3>2, ResumerStages
  <2>5. CASE ~WillTransition(t, "pending")
    <3>1. Becomes(c, "interrupt", inv[c].node, V(c), inv[c].result, inv[c].event,
                  inv'[c].read)
      BY <1>3, <2>5
    <3>2. "interrupt" \in Running
      BY DEF Running
    <3> QED BY <1>1, <1>2, <1>3, <1>4, <1>5, <2>2, <3>1, <3>2, ResumerStages
  <2> QED BY <2>4, <2>5
<1>6. CASE ~Resumes(c)
  <2>1. RunnerOK(c)
    BY <1>1, <1>6, RolesOfRunning
  <2>2. /\ ~Marking(c) /\ runs[t].exists /\ runs[t].review_status # "pending"
        /\ ~runs[t].resumed_at
    BY <1>1, <1>2, <2>1 DEF RunnerOK, Marking, Writing, At
  <2>3. /\ Becomes(c, "set_pending", inv[c].node, V(c), inv[c].result, inv[c].event,
                   inv'[c].read)
        /\ inv'[c].stage = "set_pending" /\ "set_pending" \in Running
    BY <1>3, <2>2 DEF WillTransition, Becomes, Running
  <2>4. ~Marking(c)'
    BY <2>3 DEF Marking, Writing
  <2>5. ~inv'[c].read.resumed_at
    BY <1>3, <2>2
  <2> QED BY <1>1, <1>2, <1>4, <1>6, <2>2, <2>3, <2>4, <2>5, RunnerStages
<1> QED BY <1>5, <1>6

\* The UPDATE of mark_review_pending.
LEMMA LifecycleSetPending ==
  ASSUME GraphInv, LifecycleInv, NEW c \in Calls, ShapeInv', http' = http, SetPending(c)
  PROVE  LifecycleInv'
<1>1. /\ inv[c].stage = "set_pending" /\ inv[c].stage \in Running
      /\ inv[c].node = "human_review"
      /\ UNCHANGED <<events, log, reports, ckpt, unsaved, clock, faults>>
      /\ inv \in [Calls -> Invocation] /\ runs \in [Threads -> Row]
      /\ Emit(c, "human_review_pending", Null, V(c))
  BY DEF SetPending, At, Running, ckptVars, GraphInv, GraphTypeOK, StoreTypeOK
<1>2. PICK t \in Threads : T(c) = t
  BY <1>1, RolesOfRunning
<1>3. /\ \A u \in Threads : u # t => runs'[u] = runs[u]
      /\ runs'[t].exists = runs[t].exists /\ runs'[t].review_status = "pending"
      /\ runs'[t].interrupted_at
      /\ inv[c].read.resumed_at => runs'[t].resumed_at
      /\ inv[c].read.resumed_at = FALSE => runs'[t].resumed_at = FALSE
  <2> DEFINE status == "pending"
             read == inv[c].read
  <2>1. UpdateReviewStatus(t, status, read)
    BY <1>2 DEF SetPending
  <2> HIDE DEF status, read
  <2>2. /\ \A u \in Threads : u # t => runs'[u] = runs[u]
        /\ runs'[t].exists = runs[t].exists /\ runs'[t].review_status = status
        /\ read.interrupted_at \/ status = "pending" => runs'[t].interrupted_at
        /\ read.resumed_at \/ status = "completed" => runs'[t].resumed_at
        /\ read.resumed_at = FALSE /\ status = "pending" => runs'[t].resumed_at = FALSE
    BY <1>1, <2>1, TransitionFields
  <2> QED BY <2>2 DEF status, read
<1>4. \A u \in Threads : u # t => SameThread(u)
  BY <1>1, <1>3 DEF SameThread
<1>5. CASE Resumes(c)
  <2>1. ResumerOK(c) /\ inv[c].read.resumed_at
    BY <1>1, <1>2, <1>5, RolesOfRunning DEF ResumerOK
  <2> QED BY <1>1, <1>2, <1>3, <1>4, <1>5, <2>1, ResumerEmits DEF ckptVars
<1>6. CASE ~Resumes(c)
  <2>1. RunnerOK(c)
    BY <1>1, <1>6, RolesOfRunning
  <2>2. /\ ~inv[c].read.resumed_at /\ ~runs[t].resumed_at /\ runs[t].exists
        /\ V(c).review_status # "pending"
    BY <1>1, <1>2, <2>1 DEF RunnerOK, At
  <2>3. inv[c].read.resumed_at = FALSE /\ runs[t].resumed_at = FALSE
    <3>1. inv[c].read.resumed_at \in BOOLEAN /\ runs[t].resumed_at \in BOOLEAN
      BY <1>1 DEF Invocation, Row
    <3> QED BY <2>2, <3>1, Zenon
  <2>4. /\ Becomes(c, "insert", inv[c].node, V(c), V(c),
                   [type |-> "human_review_pending", info |-> Null], inv[c].read)
        /\ inv'[c].event.type = "human_review_pending"
    BY <1>1, EmitBecomes
  <2>5. StepOf(c)
    BY <1>1, <1>2, <1>4, <2>4, BecomesStep
  <2>6. /\ inv'[c].stage = "insert" /\ inv'[c].answer = inv[c].answer
        /\ inv'[c].values = V(c) /\ inv'[c].result = V(c) /\ "insert" \in Running
    BY <2>4 DEF Becomes, Running
  <2>7. Marking(c)'
    BY <2>4, <2>6 DEF Marking, Writing
  <2> QED BY <1>1, <1>2, <1>3, <1>6, <2>2, <2>3, <2>5, <2>6, <2>7, RunnerGoes
<1> QED BY <1>5, <1>6

\* Only a resumer is past its interrupt: a runner has no answer.
LEMMA AnsweredResumes ==
  ASSUME GraphInv, LifecycleInv, NEW c \in Calls, inv[c].stage \in Running,
         PastAnswer(c) \/ inv[c].answer # NoAnswer
  PROVE  Resumes(c) /\ ResumerOK(c)
<1>1. inv[c].answer # NoAnswer
  BY DEF LifecycleInv, ShapeInv, ShapeOK
<1> QED BY <1>1, RolesOfRunning DEF RunnerOK

\* The SELECT of mark_review_completed.
LEMMA LifecycleSelectCompleted ==
  ASSUME GraphInv, LifecycleInv, NEW c \in Calls, ShapeInv', http' = http, SelectCompleted(c)
  PROVE  LifecycleInv'
<1>1. /\ inv[c].stage = "interrupt" /\ inv[c].stage \in Running
      /\ inv[c].answer # NoAnswer /\ KeepAnswer(T(c), inv[c].answer)
      /\ UNCHANGED <<runs, events, log, reports, faults>>
      /\ inv \in [Calls -> Invocation] /\ CkptTypeOK
  BY DEF SelectCompleted, At, Running, storeVars, GraphInv, GraphTypeOK
<1>2. Resumes(c) /\ ResumerOK(c)
  BY <1>1, AnsweredResumes
<1>3. PICK t \in Threads : T(c) = t
  BY <1>1, RolesOfRunning
<1>4. /\ unsaved' = unsaved
      /\ \A u \in Threads : /\ ckpt'[u].id = ckpt[u].id /\ ckpt'[u].next = ckpt[u].next
                            /\ ckpt'[u].paused = ckpt[u].paused
                            /\ ckpt'[u].values = ckpt[u].values
      /\ \A u \in Threads : u # t => ckpt'[u] = ckpt[u]
  BY <1>1, <1>3, KeepAnswerFields
<1>5. \A u \in Threads : u # t => SameThread(u)
  BY <1>1, <1>4 DEF SameThread
<1>6. /\ Becomes(c, IF WillTransition(t, "completed") THEN "set_completed" ELSE "decide",
                 inv[c].node, V(c), inv[c].result, inv[c].event, inv'[c].read)
      /\ inv'[c].read.interrupted_at = runs[t].interrupted_at
  BY <1>1, <1>3, SelectBecomes DEF SelectCompleted
<1>7. PutForward(t)
  BY <1>2, <1>3 DEF ResumerOK
<1>8. PutForward(t)'
  BY <1>1, <1>7 DEF PutForward, PendingLogged
<1>9. CASE WillTransition(t, "completed")
  <2>1. Becomes(c, "set_completed", inv[c].node, V(c), inv[c].result, inv[c].event,
                inv'[c].read)
    BY <1>6, <1>9
  <2>2. inv'[c].read.interrupted_at /\ "set_completed" \in Running
    BY <1>6, <1>7 DEF PutForward, Running
  <2> QED BY <1>1, <1>2, <1>3, <1>4, <1>5, <1>8, <2>1, <2>2, ResumerStages
<1>10. CASE ~WillTransition(t, "completed")
  <2>1. Becomes(c, "decide", inv[c].node, V(c), inv[c].result, inv[c].event, inv'[c].read)
    BY <1>6, <1>10
  <2>2. runs[t].resumed_at /\ "decide" \in Running
    BY <1>7, <1>10 DEF PutForward, WillTransition, Running
  <2>3. /\ ckpt'[t].id = ckpt[t].id /\ ckpt'[t].next = ckpt[t].next
        /\ ckpt'[t].paused = ckpt[t].paused /\ ckpt'[t].values = ckpt[t].values
        /\ runs'[t] = runs[t] /\ faults' = faults /\ unsaved' = unsaved
        /\ inv[c].stage \in Running /\ Resumes(c) /\ "decide" \in Running \cup {"raised"}
    BY <1>1, <1>2, <1>4, <2>2
  <2>4. runs[t].resumed_at => runs'[t].resumed_at
    BY <2>3
  <2> QED BY <1>3, <1>5, <1>8, <2>1, <2>2, <2>3, <2>4, ResumerStages
<1> QED BY <1>9, <1>10

\* The UPDATE of mark_review_completed, and the decision.
LEMMA LifecycleAnswered ==
  ASSUME GraphInv, LifecycleInv, NEW c \in Calls, ShapeInv', http' = http,
         SetCompleted(c) \/ Decide(c)
  PROVE  LifecycleInv'
<1>1. /\ inv[c].stage \in {"set_completed", "decide"} /\ inv[c].stage \in Running
      /\ UNCHANGED <<events, log, reports, ckpt, unsaved, clock, faults>>
      /\ inv \in [Calls -> Invocation] /\ runs \in [Threads -> Row]
  BY DEF SetCompleted, Decide, At, Running, ckptVars, storeVars, GraphInv, GraphTypeOK,
         StoreTypeOK
<1>2. Resumes(c) /\ ResumerOK(c)
  BY <1>1, AnsweredResumes DEF PastAnswer
<1>3. PICK t \in Threads : T(c) = t
  BY <1>1, RolesOfRunning
<1>4. PutForward(t)
  BY <1>2, <1>3 DEF ResumerOK
<1>5. CASE SetCompleted(c)
  <2> DEFINE status == "completed"
             read == inv[c].read
  <2>1. UpdateReviewStatus(t, status, read) /\ Emit(c, "human_review_resumed", Null, V(c))
    BY <1>3, <1>5 DEF SetCompleted
  <2> HIDE DEF status, read
  <2>2. /\ \A u \in Threads : u # t => runs'[u] = runs[u]
        /\ runs'[t].exists = runs[t].exists /\ runs'[t].review_status = status
        /\ read.interrupted_at \/ status = "pending" => runs'[t].interrupted_at
        /\ read.resumed_at \/ status = "completed" => runs'[t].resumed_at
    BY <1>1, <2>1, TransitionFields
  <2>3. inv[c].read.interrupted_at
    BY <1>2, <1>5 DEF SetCompleted, At, ResumerOK
  <2>4. /\ runs'[t].exists = runs[t].exists /\ runs'[t].interrupted_at
        /\ runs'[t].resumed_at
    BY <2>2, <2>3 DEF status, read
  <2>5. \A u \in Threads : u # t => SameThread(u)
    BY <1>1, <2>2 DEF SameThread
  <2> QED BY <1>1, <1>2, <1>3, <2>1, <2>4, <2>5, ResumerEmits DEF ckptVars
<1>6. CASE Decide(c)
  <2> DEFINE d == inv[c].answer.decision
             w(v) == [v EXCEPT !.decision = d, !.review_status = "completed",
                               !.final_status = Verdict(d)]
  <2>1. PICK v \in Edited(c) : Emit(c, "human_review_completed", d, w(v))
    BY <1>6 DEF Decide
  <2>2. v \in Values
    BY <1>1, <2>1, CallFacts, EditedType
  <2>3. w(v).review_status = "completed"
    BY <2>2 DEF Values
  <2> HIDE DEF d, w
  <2>4. runs' = runs /\ \A u \in Threads : SameThread(u)
    BY <1>1, <1>6 DEF Decide, storeVars, SameThread
  <2>5. runs[t].resumed_at
    BY <1>1, <1>2, <1>3, <1>6 DEF Decide, At, ResumerOK, PastResumed
  <2> QED BY <1>1, <1>2, <1>3, <2>1, <2>3, <2>4, <2>5, ResumerEmits DEF ckptVars
<1> QED BY <1>5, <1>6

\* An answer or a report that raises.
LEMMA LifecycleRefuse ==
  ASSUME GraphInv, LifecycleInv, NEW c \in Calls, ShapeInv', http' = http,
         RefuseAnswer(c) \/ ReportFails(c)
  PROVE  LifecycleInv'
<1>1. /\ inv[c].stage \in {"decide", "body"} /\ inv[c].stage \in Running
      /\ UNCHANGED <<runs, events, log, reports, ckpt, unsaved, clock, faults>>
      /\ inv \in [Calls -> Invocation] /\ Go(c, "raised")
  BY DEF RefuseAnswer, ReportFails, At, Running, ckptVars, storeVars, GraphInv, GraphTypeOK
<1>2. PICK t \in Threads : T(c) = t
  BY <1>1, RolesOfRunning
<1>3. Becomes(c, "raised", inv[c].node, V(c), inv[c].result, inv[c].event, inv[c].read)
  BY <1>1, GoBecomes
<1>4. CASE Resumes(c)
  <2>1. PutForward(t)
    BY <1>1, <1>2, <1>4, RolesOfRunning DEF ResumerOK
  <2>2. PutForward(t)' /\ \A u \in Threads : SameThread(u)
    BY <1>1, <2>1 DEF PutForward, PendingLogged, SameThread
  <2> QED BY <1>1, <1>2, <1>3, <1>4, <2>2, ResumerStages
<1>5. CASE ~Resumes(c)
  <2>1. ~Marking(c)
    BY <1>1 DEF Marking, Writing
  <2> QED BY <1>1, <1>3, <1>5, <2>1, RunnerRaises
<1> QED BY <1>4, <1>5

\* audit_and_report: the report and its event, then the row.
LEMMA LifecycleReport ==
  ASSUME GraphInv, LifecycleInv, NEW c \in Calls, ShapeInv', http' = http,
         AuditAndReport(c) \/ Finalize(c)
  PROVE  LifecycleInv'
<1>1. /\ inv[c].stage \in {"body", "finalize"} /\ inv[c].stage \in Running
      /\ inv[c].node = "audit_and_report"
      /\ UNCHANGED <<events, log, ckpt, unsaved, clock, faults>>
      /\ inv \in [Calls -> Invocation] /\ runs \in [Threads -> Row]
      /\ reports \in [Threads -> Report]
  BY DEF AuditAndReport, Finalize, At, Running, ckptVars, GraphInv, GraphTypeOK, StoreTypeOK
<1>2. PICK t \in Threads : T(c) = t
  BY <1>1, RolesOfRunning
<1>3. Resumes(c) => /\ ResumerOK(c) /\ PutForward(t) /\ runs[t].resumed_at
                    /\ V(c).review_status = "completed"
  BY <1>1, <1>2, RolesOfRunning DEF ResumerOK, PastResumed
<1>4. ~Resumes(c) => /\ RunnerOK(c) /\ V(c).review_status # "pending" /\ ~Marking(c)
                     /\ runs[t].exists /\ runs[t].review_status # "pending"
  BY <1>1, <1>2, RolesOfRunning DEF RunnerOK, Marking, Writing, At
<1>5. CASE AuditAndReport(c)
  <2>1. runs' = runs /\ \A u \in Threads : u # t => SameThread(u)
    BY <1>1, <1>2, <1>5 DEF AuditAndReport, WriteReport, SameThread
  <2>2. Emit(c, "report_written", V(c).final_status, V(c))
    BY <1>5 DEF AuditAndReport
  <2>3. CASE Resumes(c)
    BY <1>1, <1>2, <1>3, <2>1, <2>2, <2>3, ResumerEmits DEF ckptVars
  <2>4. CASE ~Resumes(c)
    BY <1>1, <1>2, <1>4, <2>1, <2>2, <2>4, RunnerEmits DEF ckptVars
  <2> QED BY <2>3, <2>4
<1>6. CASE Finalize(c)
  <2>1. FinalizeRun(t, V(c)) /\ Go(c, "return") /\ reports' = reports
        /\ inv[c].stage = "finalize" /\ runs[t].exists
    BY <1>2, <1>3, <1>4, <1>6 DEF Finalize, At, PutForward
  <2>2. /\ \A u \in Threads : u # t => runs'[u] = runs[u]
        /\ runs'[t].exists /\ runs'[t].completed_at
        /\ runs'[t].review_status = DefaultReviewStatus(V(c))
        /\ runs'[t].interrupted_at = runs[t].interrupted_at
        /\ runs'[t].resumed_at = runs[t].resumed_at
    BY <1>1, <2>1, FinalizeFields
  <2>3. \A u \in Threads : u # t => SameThread(u)
    BY <1>1, <2>1, <2>2 DEF SameThread
  <2>4. Becomes(c, "return", inv[c].node, V(c), inv[c].result, inv[c].event, inv[c].read)
        /\ "return" \in Running
    BY <1>1, <2>1, GoBecomes DEF Running
  <2>5. CASE Resumes(c)
    <3>1. PutForward(t)'
      BY <1>1, <1>3, <2>2, <2>5 DEF PutForward, PendingLogged
    <3>2. PastResumed(c) /\ inv[c].result.review_status = "completed"
      BY <1>1, <1>3, <2>1, <2>5 DEF PastResumed, ResumerOK
    <3> QED BY <1>1, <1>2, <2>2, <2>3, <2>4, <2>5, <3>1, <3>2, ResumerStages
  <2>6. CASE ~Resumes(c)
    <3>1. runs'[t].review_status # "pending"
      BY <1>4, <2>2, <2>6 DEF DefaultReviewStatus, Coalesce
    <3>2. ~Marking(c)'
      BY <2>4 DEF Marking, Writing, Becomes
    <3> QED BY <1>1, <1>2, <2>2, <2>3, <2>4, <2>6, <3>1, <3>2, RunnerStages
  <2> QED BY <2>5, <2>6
<1> QED BY <1>5, <1>6

\* The two writes of append_event.
LEMMA LifecycleWrites ==
  ASSUME GraphInv, LifecycleInv, NEW c \in Calls, ShapeInv', http' = http,
         Insert(c) \/ Line(c)
  PROVE  LifecycleInv'
<1>1. /\ inv[c].stage \in {"insert", "line"} /\ inv[c].stage \in Running
      /\ UNCHANGED <<runs, reports, ckpt, unsaved, clock, faults>>
      /\ inv \in [Calls -> Invocation] /\ StoreTypeOK
      /\ inv[c].event.type \in EventsOf(inv[c].node)
  BY DEF Insert, Line, Running, ckptVars, GraphInv, GraphTypeOK, LifecycleInv, ShapeInv, ShapeOK
<1>2. PICK t \in Threads : T(c) = t
  BY <1>1, RolesOfRunning
<1>3. Resumes(c) => /\ ResumerOK(c) /\ PutForward(t)
                    /\ inv[c].node \in {"human_review", "audit_and_report", "END"}
                    /\ PastResumed(c) => runs[t].resumed_at
                    /\ Writing(c, {"human_review_completed", "report_written"}) =>
                         inv[c].result.review_status = "completed"
  BY <1>1, <1>2, RolesOfRunning DEF ResumerOK
<1>4. ~Resumes(c) => /\ RunnerOK(c) /\ runs[t].exists
                     /\ Marking(c) => runs[t].interrupted_at /\ runs[t].review_status = "pending"
                     /\ ~Marking(c) => runs[t].review_status # "pending"
  BY <1>1, <1>2, RolesOfRunning DEF RunnerOK, At
<1>5. CASE Insert(c)
  <2>1. /\ inv[c].stage = "insert" /\ log' = log /\ InsertEvent(t, Written(c))
        /\ Becomes(c, "line", inv[c].node, V(c), inv[c].result, inv[c].event, inv[c].read)
        /\ "line" \in Running
    BY <1>1, <1>2, <1>5, GoBecomes DEF Insert, Running
  <2>2. \A u \in Threads : u # t => SameThread(u)
    BY <1>1, <1>2, <2>1 DEF InsertEvent, SameThread, StoreTypeOK
  <2>3. Marking(c)' <=> Marking(c)
    BY <2>1 DEF Marking, Writing, Becomes
  <2>4. CASE Resumes(c)
    <3>1. PutForward(t)'
      BY <1>1, <1>3, <2>1, <2>4 DEF PutForward, PendingLogged
    <3> QED BY <1>1, <1>2, <2>1, <2>2, <2>4, <3>1, ResumerStages
  <2>5. CASE ~Resumes(c)
    BY <1>1, <1>2, <1>4, <2>1, <2>2, <2>3, <2>5, RunnerStages
  <2> QED BY <2>4, <2>5
<1>6. CASE Line(c)
  <2> DEFINE s == AfterEvent(inv[c].event.type)
  <2>1. /\ inv[c].stage = "line" /\ events' = events /\ AppendLine(t, Written(c))
        /\ Becomes(c, s, inv[c].node, V(c), inv[c].result, inv[c].event, inv[c].read)
    BY <1>1, <1>2, <1>6, GoBecomes DEF Line
  <2>2. /\ \A u \in Threads : u # t => log'[u] = log[u]
        /\ log'[t] = log[t] \cup {Written(c)} /\ Written(c).type = inv[c].event.type
    BY <1>1, <1>2, <2>1 DEF AppendLine, StoreTypeOK, Written
  <2>3. \A u \in Threads : u # t => SameThread(u)
    BY <1>1, <2>1, <2>2 DEF SameThread
  <2>4. /\ s \in {"interrupt", "decide", "finalize", "return"}
        /\ s = "interrupt" <=> inv[c].event.type = "human_review_pending"
        /\ s = "decide" <=> inv[c].event.type = "human_review_resumed"
        /\ s = "finalize" <=> inv[c].event.type = "report_written"
    BY DEF AfterEvent
  <2>5. s \in Running
    BY <2>4 DEF Running
  <2> HIDE DEF s
  <2>6. CASE Resumes(c)
    <3>1. PutForward(t)'
      BY <1>1, <1>3, <2>2, <2>6 DEF PutForward, PendingLogged
    <3>2. s = "finalize" => inv[c].result.review_status = "completed"
      BY <1>1, <1>3, <2>4, <2>6 DEF Writing
    <3>3. s = "decide" => runs[t].resumed_at
      BY <1>1, <1>3, <2>4, <2>6 DEF Writing, PastResumed
    <3>4. s = "return" => PastResumed(c) /\ inv[c].result.review_status = "completed"
      <4>1. s = "return" => inv[c].event.type \in {"human_review_completed"}
        BY <1>1, <1>3, <2>4, <2>6 DEF EventsOf
      <4> QED BY <1>1, <1>3, <2>6, <4>1 DEF Writing, PastResumed
    <3> QED BY <1>1, <1>2, <2>1, <2>3, <2>4, <2>5, <2>6, <3>1, <3>2, <3>3, <3>4, ResumerStages
  <2>7. CASE ~Resumes(c)
    <3>1. inv[c].event.type \notin {"human_review_resumed", "human_review_completed"}
      BY <1>1, <2>7, AnsweredResumes DEF PastAnswer, Writing
    <3>2. s # "decide" /\ (s = "return" => inv[c].node # "human_review")
      BY <1>1, <2>4, <3>1 DEF EventsOf
    <3>3. /\ Marking(c)' <=> s = "interrupt"
          /\ Marking(c) <=> s = "interrupt"
      BY <2>1, <2>4 DEF Marking, Writing, Becomes
    <3>4. s = "interrupt" => PendingLogged(t)'
      BY <2>2, <2>4 DEF PendingLogged
    <3> QED BY <1>1, <1>2, <1>4, <2>1, <2>3, <2>4, <2>5, <2>7, <3>2, <3>3, <3>4, RunnerStages
  <2> QED BY <2>6, <2>7
<1> QED BY <1>5, <1>6

--------------------------------------------------------------------------------
(* Checkpoints. *)

\* A runner pauses its thread: the interrupt of a run that is marked and logged as pending.
LEMMA LifecyclePause ==
  ASSUME GraphInv, LifecycleInv, NEW c \in Calls, ShapeInv', http' = http, Pause(c)
  PROVE  LifecycleInv'
<1>1. /\ inv[c].stage = "interrupt" /\ inv[c].stage \in Running /\ inv[c].answer = NoAnswer
      /\ UNCHANGED <<runs, events, log, reports, faults>>
      /\ inv \in [Calls -> Invocation] /\ CkptTypeOK /\ Go(c, "returned")
      /\ MakeCheckpoint(c, "human_review", V(c), TRUE)
  BY DEF Pause, At, Running, storeVars, GraphInv, GraphTypeOK
<1>2. PICK t \in Threads : T(c) = t
  BY <1>1, RolesOfRunning
<1>3. ~Resumes(c) /\ RunnerOK(c) /\ Alone(c) /\ http[c].code = 0
  BY <1>1, RolesOfRunning DEF ResumerOK, Active, Running
<1> DEFINE paused == TRUE
<1>4. PICK k : /\ k.id = clock + 1 /\ k.paused = paused
               /\ unsaved'[c] = unsaved[c] \cup {k}
               /\ \A d \in Calls : d # c => unsaved'[d] = unsaved[d]
               /\ ckpt' = ckpt
  <2>1. MakeCheckpoint(c, "human_review", V(c), paused)
    BY <1>1
  <2> HIDE DEF paused
  <2> QED BY <1>1, <2>1, MakeJoins
<1>5. Becomes(c, "returned", inv[c].node, V(c), inv[c].result, inv[c].event, inv[c].read)
  BY <1>1, GoBecomes
<1>6. /\ \A u \in Threads : SameThread(u)
      /\ inv'[c].stage = "returned" /\ inv'[c].answer = NoAnswer
  BY <1>1, <1>4, <1>5 DEF SameThread, Becomes
<1>7. StepOf(c)
  BY <1>1, <1>4, <1>5, <1>6, BecomesStep
<1>8. Alone(c)' /\ inv'[c].thread = t
  BY <1>2, <1>3, <1>7, StepKeepsThreads DEF StepOf
<1>9. /\ ~ckpt[t].paused /\ \A x \in unsaved[c] : x.id > ckpt[t].id /\ ~x.paused
      /\ PutForward(t)
  BY <1>1, <1>2, <1>3 DEF RunnerOK, PutForward, Marking, At
<1>10. PutForward(t)'
  BY <1>1, <1>9 DEF PutForward, PendingLogged
<1>11. /\ ckpt[t].id <= clock /\ ckpt[t].id \in Nat /\ clock \in Nat
       /\ \A x \in unsaved[c] : x.id <= clock /\ x.id \in Nat
  BY <1>1 DEF LifecycleInv, ShapeInv, SavedOK, UnsavedOK, CkptTypeOK, Checkpoint
<1>12. \A x \in unsaved'[c] : x.id > ckpt[t].id /\ x.id <= k.id
  BY <1>4, <1>11, <1>9
<1>13. \A x \in unsaved'[c] : x.paused => x = k
  BY <1>4, <1>9
<1>14. "returned" \notin Running
  BY DEF Running
<1>15. RunnerOK(c)'
  BY <1>4, <1>6, <1>8, <1>9, <1>10, <1>12, <1>13, <1>14 DEF RunnerOK, T
<1>16. RoleOK(c)'
  BY <1>3, <1>6, <1>15 DEF RoleOK, Resumes
<1> QED BY <1>2, <1>3, <1>4, <1>7, <1>9, <1>16, StepKeepsLifecycle

\* A node returns.
LEMMA LifecycleReturn ==
  ASSUME GraphInv, LifecycleInv, NEW c \in Calls, ShapeInv', http' = http, Return(c)
  PROVE  LifecycleInv'
<1> DEFINE next == NextNode(inv[c].node, inv[c].result)
<1>1. /\ inv[c].stage = "return" /\ inv[c].stage \in Running
      /\ inv \in [Calls -> Invocation] /\ CkptTypeOK
  BY DEF Return, Running, GraphInv, GraphTypeOK
<1>2. /\ UNCHANGED <<runs, events, log, reports, faults>>
      /\ MakeCheckpoint(c, next, inv[c].result, FALSE)
      /\ Becomes(c, IF next = "END" THEN "returned" ELSE "body", next,
                    inv[c].result, inv[c].result, inv[c].event, inv[c].read)
  BY <1>1, ReturnBecomes DEF storeVars
<1>3. /\ next \in Nodes \cup {"END"} /\ next # "ingest_contract"
      /\ inv[c].node = "human_review" => next = "audit_and_report"
      /\ inv[c].node = "audit_and_report" => next = "END"
  BY NextNodeCases DEF NextNode, AfterIngest, AfterParse, AfterPolicy
<1> HIDE DEF next
<1>4. PICK t \in Threads : T(c) = t
  BY <1>1, RolesOfRunning
<1> DEFINE paused == FALSE
<1>5. PICK k : /\ k.id = clock + 1 /\ k.next = next /\ k.values = inv[c].result
               /\ k.paused = paused
               /\ unsaved'[c] = unsaved[c] \cup {k}
               /\ \A d \in Calls : d # c => unsaved'[d] = unsaved[d]
               /\ ckpt' = ckpt
  <2>1. MakeCheckpoint(c, next, inv[c].result, paused)
    BY <1>2
  <2> HIDE DEF paused
  <2> QED BY <1>1, <2>1, MakeJoins
<1>6. /\ \A u \in Threads : SameThread(u)
      /\ inv'[c].stage \in {"body", "returned"} /\ inv'[c].node = next
      /\ inv'[c].stage = "returned" <=> next = "END"
      /\ inv'[c].answer = inv[c].answer
      /\ inv'[c].values = inv[c].result /\ inv'[c].result = inv[c].result
  BY <1>2, <1>5 DEF SameThread, Becomes
<1>7. StepOf(c)
  BY <1>2, <1>5, <1>6, BecomesStep
<1>8. (Alone(c)' <=> Alone(c)) /\ inv'[c].thread = t
  BY <1>4, <1>7, StepKeepsThreads DEF StepOf
<1>9. ckpt[t].id <= clock /\ ckpt[t].id \in Nat /\ clock \in Nat
  BY <1>1 DEF LifecycleInv, ShapeInv, SavedOK, CkptTypeOK, Checkpoint
<1>10. k.id > ckpt[t].id
  BY <1>5, <1>9
<1>11. inv'[c].stage \notin {"checked", "idle", "raised", "insert", "line", "interrupt",
                            "set_pending", "set_completed", "return", "finalize", "decide"}
  BY <1>6
<1>12. CASE Resumes(c)
  <2>1. ResumerOK(c) /\ http[c].code = 0 /\ Active(c)
    BY <1>1, <1>12, RolesOfRunning DEF Active
  <2>2. /\ inv[c].answer # NoAnswer /\ PutForward(t)
        /\ ckpt[t].paused \/ Reviewed(t, ckpt[t])
        /\ \A x \in unsaved[c] : ~x.paused /\ Reviewed(t, x)
        /\ inv[c].node \in {"human_review", "audit_and_report", "END"}
        /\ inv[c].result.review_status = "completed"
    BY <1>1, <1>4, <2>1 DEF ResumerOK
  <2>3. runs[t].resumed_at
    BY <1>1, <1>4, <2>1 DEF ResumerOK, PastResumed
  <2>4. inv[c].node # "END" /\ next \in {"audit_and_report", "END"}
    BY <1>1, <1>3, <2>2 DEF LifecycleInv, ShapeInv, ShapeOK, Nodes
  <2>5. Reviewed(t, k)
    BY <1>5, <2>2, <2>3, <2>4 DEF Reviewed
  <2>6. \A x \in unsaved'[c] : ~x.paused /\ Reviewed(t, x)'
    BY <1>2, <1>5, <2>2, <2>5 DEF Reviewed
  <2>7. ckpt'[t].paused \/ Reviewed(t, ckpt[t])'
    BY <1>2, <1>5, <2>2 DEF Reviewed
  <2>8. PutForward(t)'
    BY <1>2, <2>2 DEF PutForward, PendingLogged
  <2>9. \E x \in unsaved'[c] : x.id > ckpt'[t].id
    BY <1>5, <1>10
  <2>10. ResumerOK(c)'
    BY <1>2, <1>6, <1>8, <1>11, <2>2, <2>3, <2>4, <2>6, <2>7, <2>8, <2>9
       DEF ResumerOK, Writing, T, V
  <2>11. RoleOK(c)'
    BY <1>6, <1>11, <1>12, <2>1, <2>10 DEF RoleOK, Resumes
  <2>12. SharedKept(t)
    BY <1>2, <1>5, <2>7, <2>8 DEF SharedKept
  <2> QED BY <1>4, <1>7, <2>8, <2>11, <2>12, StepKeepsLifecycle
<1>13. CASE ~Resumes(c)
  <2>1. RunnerOK(c) /\ http[c].code = 0 /\ Alone(c)
    BY <1>1, <1>13, RolesOfRunning
  <2>2. /\ ~ckpt[t].paused /\ \A x \in unsaved[c] : x.id > ckpt[t].id /\ ~x.paused
        /\ inv[c].answer = NoAnswer /\ runs[t].exists /\ ~runs[t].resumed_at
        /\ runs[t].review_status # "pending" /\ inv[c].result.review_status # "pending"
    BY <1>1, <1>4, <2>1 DEF RunnerOK, Marking, Writing, At
  <2>3. ~Marking(c)'
    BY <1>11 DEF Marking, Writing
  <2>4. \A x \in unsaved'[c] : x.id > ckpt[t].id /\ ~x.paused
    BY <1>5, <1>10, <2>2
  <2>5. RunnerOK(c)'
    BY <1>2, <1>5, <1>6, <1>8, <1>11, <2>1, <2>2, <2>3, <2>4 DEF RunnerOK, At, T, V
  <2>6. RoleOK(c)'
    BY <1>6, <1>11, <1>13, <2>1, <2>5 DEF RoleOK, Resumes
  <2> QED BY <1>4, <1>5, <1>7, <2>1, <2>2, <2>6, StepKeepsLifecycle
<1> QED BY <1>12, <1>13

\* Every step of a node, and of the loop around the nodes.
LEMMA LifecycleNodeStep ==
  ASSUME GraphInv, LifecycleInv, NEW c \in Calls, NodeStep(c), http' = http
  PROVE  LifecycleInv'
<1>1. ShapeInv'
  BY ShapeNodeStep DEF LifecycleInv
<1> QED BY <1>1, LifecycleEarly, LifecycleSelectPending, LifecycleSetPending, LifecyclePause,
           LifecycleSelectCompleted, LifecycleAnswered, LifecycleRefuse, LifecycleReport,
           LifecycleWrites, LifecycleReturn DEF NodeStep

\* The checkpoint writer: a runner's checkpoint is the newest of a thread that is not
\* paused yet, a resumer's comes after a review.
LEMMA LifecycleSave ==
  ASSUME GraphInv, LifecycleInv, NEW c \in Calls, Save(c), http' = http
  PROVE  LifecycleInv'
<1>1. /\ UNCHANGED <<runs, events, log, reports, inv, faults, clock>>
      /\ T(c) \in Threads /\ Active(c)
      /\ \A d \in Calls : d # c => unsaved'[d] = unsaved[d]
      /\ \A t \in Threads : t # T(c) => ckpt'[t] = ckpt[t]
  BY SaveParts DEF LifecycleInv
<1>2. PICK t \in Threads : T(c) = t
  BY <1>1
<1>3. PICK k \in unsaved[c] :
        /\ unsaved'[c] = unsaved[c] \ {k}
        /\ \A other \in unsaved'[c] : other.id > k.id
        /\ ckpt'[t] = IF k.id > ckpt[t].id THEN k ELSE ckpt[t]
  BY <1>2, SaveParts DEF LifecycleInv
<1>4. StepOf(c) /\ ShapeInv'
  BY <1>1, <1>2, ShapeSave DEF StepOf, SameThread, LifecycleInv, T
<1>5. /\ RoleOK(c) /\ http[c].code = 0 /\ (Alone(c)' <=> Alone(c)) /\ inv'[c] = inv[c]
      /\ Active(c)' = Active(c) /\ T(c)' = t /\ V(c)' = V(c)
  BY <1>1, <1>2, <1>4, StepKeepsThreads DEF LifecycleInv, RoleOK, Active, T, V
<1>6. PutForward(t) => PutForward(t)'
  BY <1>1 DEF PutForward, PendingLogged
<1>7. /\ \A x \in unsaved[c] : x.id \in Nat
      /\ ckpt[t].id \in Nat
  BY DEF GraphInv, CkptTypeOK, Checkpoint
<1>8. inv[c].stage # "idle"
  BY <1>1 DEF Active, Running
<1>9. CASE Resumes(c)
  <2>1. ResumerOK(c)
    BY <1>5, <1>9 DEF RoleOK
  <2>2. /\ PutForward(t)
        /\ ckpt[t].paused \/ Reviewed(t, ckpt[t])
        /\ \A x \in unsaved[c] : ~x.paused /\ Reviewed(t, x)
    BY <1>1, <1>2, <2>1 DEF ResumerOK
  <2>3. ckpt'[t].paused \/ Reviewed(t, ckpt[t])'
    BY <1>1, <1>3, <2>2 DEF Reviewed
  <2>4. ckpt'[t].paused => ckpt'[t] = ckpt[t] /\ ckpt[t].id >= k.id
    BY <1>3, <1>7, <2>2
  <2>5. \A x \in unsaved'[c] : ~x.paused /\ Reviewed(t, x)'
    BY <1>1, <1>3, <2>2 DEF Reviewed
  <2>6. ~ckpt[t].paused \/ (\E x \in unsaved[c] : x.id > ckpt[t].id)
        => ~ckpt'[t].paused \/ \E x \in unsaved'[c] : x.id > ckpt'[t].id
    BY <1>3, <1>7, <2>4
  <2>7. ResumerOK(c)'
    <3>1. /\ Writing(c, {"human_review_completed", "report_written"})' =
               Writing(c, {"human_review_completed", "report_written"})
          /\ PastResumed(c)' = PastResumed(c)
      BY <1>5 DEF PastResumed, Writing
    <3>2. inv[c].stage = "checked" => unsaved'[c] = {}
      BY <1>1, <1>3, <2>1 DEF ResumerOK
    <3> QED BY <1>1, <1>2, <1>5, <1>6, <2>1, <2>2, <2>3, <2>5, <2>6, <3>1, <3>2 DEF ResumerOK
  <2>8. RoleOK(c)'
    BY <1>5, <1>8, <1>9, <2>7 DEF RoleOK, Resumes
  <2>9. SharedKept(t)
    BY <1>1, <1>6, <2>3, <2>4 DEF SharedKept
  <2> QED BY <1>2, <1>4, <1>6, <2>2, <2>8, <2>9, StepKeepsLifecycle
<1>10. CASE ~Resumes(c)
  <2>1. RunnerOK(c)
    BY <1>1, <1>5, <1>10 DEF RoleOK
  <2>2. /\ ~ckpt[t].paused /\ Alone(c) /\ inv[c].answer = NoAnswer
        /\ \A x \in unsaved[c] : x.id > ckpt[t].id
        /\ \A x \in unsaved[c] : x.paused =>
             PutForward(t) /\ \A other \in unsaved[c] : other.id <= x.id
        /\ inv[c].stage \in Running \cup {"raised"} => \A x \in unsaved[c] : ~x.paused
    BY <1>2, <1>3, <2>1 DEF RunnerOK
  <2>3. ckpt'[t] = k
    BY <1>3, <2>2
  <2>4. k.paused => unsaved'[c] = {}
    BY <1>3, <1>7, <2>2
  <2>5. /\ \A x \in unsaved'[c] : x.id > ckpt'[t].id
        /\ \A x \in unsaved'[c] : x.paused =>
             PutForward(t)' /\ \A other \in unsaved'[c] : other.id <= x.id
        /\ inv[c].stage \in Running \cup {"raised"} =>
             ~ckpt'[t].paused /\ \A x \in unsaved'[c] : ~x.paused
        /\ ckpt'[t].paused => unsaved'[c] = {} /\ PutForward(t)'
    BY <1>3, <1>6, <2>2, <2>3, <2>4
  <2>6. RunnerOK(c)'
    <3>1. Marking(c)' = Marking(c)
      BY <1>5 DEF Marking, Writing
    <3>2. At(c, "ingest_contract", "body")' = At(c, "ingest_contract", "body")
      BY <1>5 DEF At
    <3>3. PendingLogged(t)' = PendingLogged(t)
      BY <1>1 DEF PendingLogged
    <3> QED BY <1>1, <1>2, <1>5, <2>1, <2>2, <2>5, <3>1, <3>2, <3>3 DEF RunnerOK
  <2>7. RoleOK(c)'
    BY <1>5, <1>8, <1>10, <2>6 DEF RoleOK, Resumes
  <2> QED BY <1>2, <1>4, <2>2, <2>5, <2>7, StepKeepsLifecycle
<1> QED BY <1>9, <1>10

--------------------------------------------------------------------------------
(* Faults. *)

\* A failed statement.
LEMMA LifecycleFault ==
  ASSUME GraphInv, LifecycleInv, NEW c \in Calls, StatementFails(c), http' = http
  PROVE  LifecycleInv'
<1>1. /\ inv[c].stage \in Running
      /\ UNCHANGED <<runs, events, log, reports, unsaved, clock>>
      /\ faults' > 0
      /\ \A t \in Threads : /\ ckpt'[t].id = ckpt[t].id /\ ckpt'[t].next = ckpt[t].next
                            /\ ckpt'[t].paused = ckpt[t].paused
                            /\ ckpt'[t].values = ckpt[t].values
      /\ \A t \in Threads : t # T(c) => ckpt'[t] = ckpt[t]
  BY FaultParts
<1>2. ShapeInv' /\ inv \in [Calls -> Invocation] /\ ShapeOK(c)
  BY ShapeFault DEF LifecycleInv, ShapeInv, GraphInv, GraphTypeOK
<1>3. PICK t \in Threads : T(c) = t
  BY <1>1, RolesOfRunning
<1>4. \A u \in Threads : u # t => SameThread(u)
  BY <1>1, <1>3 DEF SameThread
<1>5. CASE Becomes(c, "raised", inv[c].node, V(c), inv[c].result, inv[c].event, inv[c].read)
  <2>1. CASE Resumes(c)
    <3>1. PutForward(t)
      BY <1>1, <1>3, <2>1, RolesOfRunning DEF ResumerOK
    <3>2. PutForward(t)'
      BY <1>1, <3>1 DEF PutForward, PendingLogged
    <3>3. /\ ckpt'[t].id = ckpt[t].id /\ ckpt'[t].next = ckpt[t].next
          /\ ckpt'[t].paused = ckpt[t].paused /\ ckpt'[t].values = ckpt[t].values
          /\ runs'[t] = runs[t] /\ unsaved' = unsaved /\ faults' > 0
          /\ inv[c].stage \in Running
      BY <1>1
    <3>4. runs[t].resumed_at => runs'[t].resumed_at
      BY <3>3
    <3> QED BY <1>2, <1>3, <1>4, <1>5, <2>1, <3>2, <3>3, <3>4, ResumerRaises
  <2>2. CASE ~Resumes(c)
    BY <1>1, <1>2, <1>5, <2>2, RunnerRaises
  <2> QED BY <2>1, <2>2
<1>6. ASSUME NEW type \in {"extraction_failed", "policy_failed"},
             inv[c].stage \in {"insert", "line"},
             inv[c].event.type \in {"extracted", "policy_evaluated"},
             Emit(c, type, Null, FailedValues(c))
      PROVE  LifecycleInv'
  <2>1. ~Resumes(c)
    BY <1>1, <1>2, <1>6, RolesOfRunning DEF ShapeOK, EventsOf, ResumerOK
  <2>2. /\ RunnerOK(c) /\ V(c).review_status # "pending" /\ ~Marking(c)
        /\ runs[t].exists /\ runs[t].review_status # "pending"
    BY <1>1, <1>3, <1>6, <2>1, RolesOfRunning DEF RunnerOK, Marking, Writing, At
  <2>3. FailedValues(c).review_status # "pending"
    BY <1>1, <2>2, CallFacts DEF FailedValues, Values
  <2>4. /\ Becomes(c, "insert", inv[c].node, V(c), FailedValues(c),
                   [type |-> type, info |-> Null], inv[c].read)
        /\ inv'[c].event.type = type
    BY <1>2, <1>6, EmitBecomes
  <2>5. StepOf(c)
    BY <1>1, <1>3, <1>4, <2>4, BecomesStep
  <2>6. /\ inv'[c].stage = "insert" /\ inv'[c].answer = inv[c].answer
        /\ inv'[c].values = V(c) /\ inv'[c].result = FailedValues(c) /\ "insert" \in Running
    BY <2>4 DEF Becomes, Running
  <2>7. ~Marking(c)'
    BY <2>4, <2>6 DEF Marking, Writing
  <2> QED BY <1>1, <1>2, <1>3, <2>1, <2>2, <2>3, <2>5, <2>6, <2>7, RunnerGoes
<1> QED BY <1>5, <1>6, FaultParts

\* The process stops.
LEMMA LifecycleCrash ==
  ASSUME GraphInv, LifecycleInv, CrashStep
  PROVE  LifecycleInv'
<1>1. /\ unsaved' = [c \in Calls |-> {}]
      /\ ckpt' = ckpt \/ ckpt' = [t \in Threads |-> NoCheckpoint]
      /\ inv' = [c \in Calls |-> IF Active(c) THEN Over(c, "dead") ELSE inv[c]]
      /\ UNCHANGED <<runs, events, log, reports, http>>
  BY DEF CrashStep, Crash, LoseUnsaved, storeVars
<1>2. ShapeInv'
  BY ShapeCrash DEF CrashStep, LifecycleInv
<1>3. ASSUME NEW c \in Calls
      PROVE  /\ inv'[c].thread = T(c)
             /\ inv'[c].stage = IF Active(c) THEN "dead" ELSE inv[c].stage
  BY <1>1 DEF Over, NoInvocation, T
<1>4. ASSUME NEW t \in Threads
      PROVE  /\ PutForward(t) => PutForward(t)'
             /\ Untouched(t) => Untouched(t)'
             /\ ckpt'[t].paused => ckpt[t].paused
  <2>1. ~NoCheckpoint.paused
    BY DEF NoCheckpoint
  <2> QED BY <1>1, <2>1 DEF PutForward, PendingLogged, Untouched
<1>5. ASSUME NEW c \in Calls PROVE RoleOK(c)'
  <2>1. RoleOK(c)
    BY DEF LifecycleInv
  <2>2. ~Active(c)'
    BY <1>3 DEF Active, Running
  <2>3. Resumes(c) => ResumerOK(c)'
    <3>1. Resumes(c) => T(c) \in Threads /\ PutForward(T(c))
      BY <2>1 DEF RoleOK, ResumerOK
    <3>2. ASSUME NEW t \in Threads, T(c) = t, PutForward(t) PROVE ResumerOK(c)'
      <4>1. T(c)' = t /\ PutForward(t)'
        BY <1>3, <1>4, <3>2 DEF T
      <4>2. inv'[c].stage \notin Running \cup {"returned", "set_pending", "set_completed"}
        BY <2>2 DEF Active, Running
      <4> QED BY <2>2, <4>1, <4>2 DEF ResumerOK
    <3> QED BY <3>1, <3>2
  <2> QED BY <1>1, <1>3, <2>1, <2>2, <2>3 DEF RoleOK, Active, Resumes, T
<1>6. OneRunner'
  BY <1>1, <1>3 DEF LifecycleInv, OneRunner, Resumes, T
<1>7. \A t \in Threads : ThreadOK(t)'
  BY <1>3, <1>4 DEF LifecycleInv, ThreadOK, T
<1> QED BY <1>2, <1>5, <1>6, <1>7 DEF LifecycleInv

--------------------------------------------------------------------------------
(* The endpoints. *)

\* A response says what the request asked for.
LEMMA ResponseAsked ==
  ASSUME HttpOK, NEW c \in Calls, Respond(c) \/ RespondError(c)
  PROVE  /\ http'[c].asked = http[c].asked
         /\ \A d \in Calls : d # c => http'[d] = http[d]
<1>1. http \in [Calls -> Http]
  BY DEF HttpOK
<1>2. \A h \in Http : \A f, d :
        /\ [h EXCEPT !.code = 200, !.status = "completed", !.final_status = f,
                     !.decision = d].asked = h.asked
        /\ [h EXCEPT !.code = 200, !.status = "interrupted"].asked = h.asked
        /\ [h EXCEPT !.code = 500].asked = h.asked
  BY DEF Http
<1>3. PICK h : http' = [http EXCEPT ![c] = h] /\ h.asked = http[c].asked
  <2>1. CASE Respond(c)
    <3> DEFINE done(d) == Completed(c, T(c), d)
               wait == [http[c] EXCEPT !.code = 200, !.status = "interrupted"]
               h == IF http[c].asked # Null THEN done(ckpt[T(c)].values.decision)
                    ELSE IF Interrupted(T(c)) THEN wait ELSE done(Null)
    <3>1. (\A d : done(d).asked = http[c].asked) /\ wait.asked = http[c].asked
      BY <1>1, <1>2 DEF Completed
    <3>2. http' = [http EXCEPT ![c] = h]
      BY <2>1 DEF Respond
    <3> HIDE DEF done, wait
    <3>3. h.asked = http[c].asked
      BY <3>1
    <3> HIDE DEF h
    <3> QED BY <3>2, <3>3
  <2>2. CASE RespondError(c)
    <3> DEFINE h == [http[c] EXCEPT !.code = 500]
    <3>1. http' = [http EXCEPT ![c] = h] /\ h.asked = http[c].asked
      BY <1>1, <1>2, <2>2 DEF RespondError
    <3> HIDE DEF h
    <3> QED BY <3>1
  <2> QED BY <2>1, <2>2
<1> QED BY <1>1, <1>3

\* The endpoints answer.
LEMMA LifecycleRespond ==
  ASSUME GraphInv, HttpOK, LifecycleInv, NEW c \in Calls, Respond(c) \/ RespondError(c)
  PROVE  LifecycleInv'
<1>1. /\ inv[c].stage \in {"returned", "raised"} /\ unsaved[c] = {}
      /\ inv' = [inv EXCEPT ![c] = Over(c, "done")]
      /\ UNCHANGED <<runs, events, log, reports, ckpt, unsaved, clock, faults, ckptVars>>
      /\ inv \in [Calls -> Invocation] /\ CkptTypeOK
  BY DEF Respond, RespondError, storeVars, ckptVars, GraphInv, GraphTypeOK
<1>2. RoleOK(c) /\ Active(c) /\ T(c) \in Threads
  BY <1>1 DEF LifecycleInv, Active, GraphInv, CallOK, T
<1>3. PICK t \in Threads : T(c) = t
  BY <1>2
<1>4. /\ inv'[c].stage = "done" /\ inv'[c].thread = t
      /\ \A d \in Calls : d # c => inv'[d] = inv[d]
  BY <1>1, <1>3 DEF Over, NoInvocation
<1>5. ShapeInv'
  BY <1>1, <1>4, ShapeCall DEF LifecycleInv
<1>6. StepOf(c)
  BY <1>1, <1>3, <1>4, ResponseAsked DEF StepOf, SameThread
<1>7. ~Active(c)'
  BY <1>4 DEF Active, Running
<1>8. PutForward(t)' = PutForward(t) /\ Reviewed(t, ckpt[t])' = Reviewed(t, ckpt[t])
  BY <1>1 DEF PutForward, PendingLogged, Reviewed
<1>9. RoleOK(c)'
  <2>1. Resumes(c) => PutForward(t)'
    BY <1>2, <1>3, <1>8 DEF RoleOK, ResumerOK
  <2>2. Resumes(c)' <=> Resumes(c)
    BY ResponseAsked DEF Resumes
  <2>3. Resumes(c) => ResumerOK(c)'
    BY <1>4, <1>7, <2>1 DEF ResumerOK, Running, T
  <2> QED BY <1>4, <1>7, <2>2, <2>3 DEF RoleOK, T
<1>10. SharedKept(t)
  BY <1>1, <1>8 DEF SharedKept
<1>11. ckpt'[t].paused => PutForward(t)'
  BY <1>1, <1>8 DEF LifecycleInv, ThreadOK
<1> QED BY <1>3, <1>5, <1>6, <1>9, <1>10, <1>11, StepKeepsLifecycle

\* The invocation of a resume begins, wherever the thread is by now.
LEMMA LifecycleInvoke ==
  ASSUME GraphInv, LifecycleInv, NEW c \in Calls, InvokeResume(c)
  PROVE  LifecycleInv'
<1>1. /\ inv[c].stage = "checked" /\ Resume(c, T(c), inv[c].answer)
      /\ UNCHANGED <<runs, events, log, reports, ckpt, unsaved, clock, faults, http, ckptVars>>
      /\ inv \in [Calls -> Invocation]
  BY DEF InvokeResume, Resume, storeVars, ckptVars, GraphInv, GraphTypeOK
<1>2. RoleOK(c) /\ Active(c) /\ T(c) \in Threads
  BY <1>1 DEF LifecycleInv, Active, GraphInv, CallOK, T
<1>3. PICK t \in Threads : T(c) = t
  BY <1>2
<1>4. Resumes(c) /\ ResumerOK(c) /\ http[c].code = 0
  BY <1>1, <1>2 DEF RoleOK, RunnerOK
<1> DEFINE k == ckpt[t]
<1>5. /\ inv'[c].stage = IF k.next = "END" THEN "returned" ELSE "body"
      /\ inv'[c].node = k.next /\ inv'[c].thread = t /\ inv'[c].values = k.values
      /\ inv'[c].answer = IF k.answer = NoAnswer THEN inv[c].answer ELSE k.answer
      /\ \A d \in Calls : d # c => inv'[d] = inv[d]
  BY <1>1, <1>3 DEF Resume, NoInvocation
<1>6. /\ PutForward(t) /\ inv[c].answer # NoAnswer /\ unsaved[c] = {}
      /\ k.paused \/ Reviewed(t, k)
      /\ k.paused => k.next = "human_review"
  BY <1>1, <1>2, <1>3, <1>4 DEF ResumerOK, LifecycleInv, ShapeInv, SavedOK
<1>7. /\ k.next \in {"human_review", "audit_and_report", "END"}
      /\ k.next # "human_review" =>
           ~k.paused /\ k.values.review_status = "completed" /\ runs[t].resumed_at
  BY <1>6 DEF Reviewed
<1> HIDE DEF k
<1>8. inv'[c].stage \in {"body", "returned"} /\ (inv'[c].stage = "returned" <=> k.next = "END")
  BY <1>5
<1>9. ShapeInv'
  BY <1>1, <1>5, <1>6, <1>7, <1>8, ShapeCall DEF LifecycleInv, Nodes
<1>10. StepOf(c)
  BY <1>1, <1>3, <1>5 DEF StepOf, SameThread
<1>11. /\ PutForward(t)' /\ k' = k /\ (Reviewed(t, k) => Reviewed(t, k)')
  BY <1>1, <1>6 DEF PutForward, PendingLogged, Reviewed, k
<1>12. inv'[c].answer # NoAnswer
  BY <1>5, <1>6
<1>13. /\ PastResumed(c)' => runs'[t].resumed_at
       /\ ~Writing(c, {"human_review_completed", "report_written"})'
  BY <1>1, <1>5, <1>7, <1>8 DEF PastResumed, Writing
<1>14. k'.paused \/ Reviewed(t, k)'
  BY <1>6, <1>11
<1>15. ResumerOK(c)'
  <2>1. inv'[c].stage \notin {"checked", "set_pending", "set_completed", "return", "finalize"}
    BY <1>8
  <2>2. ckpt'[t] = k
    BY <1>1 DEF k
  <2>3. ckpt'[t].paused \/ Reviewed(t, ckpt[t])'
    BY <1>14 DEF k
  <2> QED BY <1>1, <1>5, <1>6, <1>7, <1>8, <1>11, <1>12, <1>13, <2>1, <2>2, <2>3
          DEF ResumerOK, T, V
<1>16. RoleOK(c)'
  BY <1>1, <1>4, <1>8, <1>15 DEF RoleOK, Resumes
<1>17. SharedKept(t)
  BY <1>1, <1>6, <1>11, <1>14 DEF SharedKept, k
<1> QED BY <1>3, <1>9, <1>10, <1>11, <1>16, <1>17, StepKeepsLifecycle

\* A call that comes to a thread: what it does to the others is at most that they are no
\* longer alone.
LEMMA ComesToThread ==
  ASSUME GraphInv, LifecycleInv, NEW c \in Calls, T(c) = Null, NEW t \in Threads,
         \A d \in Calls : d # c => inv'[d] = inv[d] /\ unsaved'[d] = unsaved[d]
                                   /\ http'[d] = http[d],
         UNCHANGED <<runs, events, log, reports, ckpt, faults>>,
         inv'[c].thread = t,
         NEW d \in Calls, d # c,
         ckpt[t].paused \/ T(d) # t
  PROVE  RoleOK(d)'
<1>1. /\ RoleOK(d) /\ inv'[d] = inv[d] /\ unsaved'[d] = unsaved[d] /\ http'[d] = http[d]
      /\ Active(d) => T(d) \in Threads
  BY DEF LifecycleInv, GraphInv, CallOK, T
<1>2. T(d) \in Threads /\ T(d) # t /\ Alone(d) => Alone(d)'
  BY DEF Alone, T
<1>3. T(d) \in Threads /\ ~Alone(d) => ~Alone(d)'
  BY ThreadsAssumption DEF Alone, T
<1>4. T(d) \in Threads /\ T(d) # t => (Alone(d)' <=> Alone(d))
  BY <1>2, <1>3
<1>5. RunnerOK(d) /\ T(d) \in Threads => RunnerOK(d)'
  <2> SUFFICES ASSUME RunnerOK(d), T(d) \in Threads PROVE RunnerOK(d)'
    OBVIOUS
  <2>1. CASE T(d) # t
    BY <1>1, <1>4, <2>1 DEF RunnerOK, PutForward, PendingLogged, Marking, Writing, At, V, T
  <2>2. CASE T(d) = t
    <3>1. ckpt[t].paused
      BY <2>2
    <3>2. /\ inv[d].stage \notin Running \cup {"raised"} /\ unsaved[d] = {}
          /\ inv[d].answer = NoAnswer /\ inv[d].stage # "checked"
      BY <2>2, <3>1 DEF RunnerOK
    <3>3. inv[d].stage \notin {"set_pending", "return", "raised"}
      BY <3>2 DEF Running
    <3> QED BY <1>1, <3>2, <3>3 DEF RunnerOK, Marking, Writing, At, V, T
  <2> QED BY <2>1, <2>2
<1>6. ResumerOK(d) => ResumerOK(d)'
  BY <1>1 DEF ResumerOK, PutForward, PendingLogged, Reviewed, PastResumed, Active, Writing, V, T
<1> QED BY <1>1, <1>5, <1>6 DEF RoleOK, Active, Resumes, T

\* run_contract begins, on a thread nobody has touched.
LEMMA LifecycleRun ==
  ASSUME GraphInv, LifecycleInv, NEW c \in Calls, RunContract(c)
  PROVE  LifecycleInv'
<1>1. PICK t \in Threads, doc \in Documents :
        /\ \A other \in Calls : T(other) # t
        /\ Start(c, t, doc)
  BY ApiAssumption DEF RunContract
<1>2. /\ inv[c].stage = "idle" /\ RoleOK(c) /\ UnsavedOK(c) /\ ShapeOK(c)
      /\ UNCHANGED <<runs, events, log, reports, faults, http>>
      /\ inv \in [Calls -> Invocation] /\ CkptTypeOK
      /\ MakeCheckpoint(c, "ingest_contract", ckpt[t].values, FALSE)
  BY <1>1 DEF RunContract, Start, LifecycleInv, ShapeInv, storeVars, GraphInv, GraphTypeOK
<1>3. /\ ~Resumes(c) /\ T(c) = Null /\ http[c].code = 0 /\ unsaved[c] = {}
  BY <1>2 DEF RoleOK, ShapeOK, Active, Running
<1>4. Untouched(t)
  BY <1>1 DEF LifecycleInv, ThreadOK
<1>5. /\ inv'[c].stage = "body" /\ inv'[c].node = "ingest_contract" /\ inv'[c].thread = t
      /\ inv'[c].answer = NoAnswer /\ inv'[c].values = ckpt[t].values
      /\ inv'[c].result = NoValues
      /\ \A d \in Calls : d # c => inv'[d] = inv[d]
  BY <1>1, <1>2 DEF Start, NoInvocation
<1> DEFINE paused == FALSE
<1>6. PICK k : /\ k.id = clock + 1 /\ k.paused = paused
               /\ unsaved'[c] = unsaved[c] \cup {k}
               /\ \A d \in Calls : d # c => unsaved'[d] = unsaved[d]
               /\ ckpt' = ckpt
  <2>1. MakeCheckpoint(c, "ingest_contract", ckpt[t].values, paused)
    BY <1>2
  <2> HIDE DEF paused
  <2> QED BY <1>2, <2>1, MakeJoins
<1>7. unsaved'[c] = {k} /\ ~k.paused
  BY <1>3, <1>6
<1>8. ShapeInv'
  BY <1>1, <1>2, ShapeStart DEF LifecycleInv
<1>9. /\ ckpt[t].id = 0 /\ ~ckpt[t].paused /\ ckpt[t].values = NoValues
      /\ ~runs[t].resumed_at /\ runs[t].review_status = Null /\ clock \in Nat
  <2>1. /\ NoCheckpoint.id = 0 /\ ~NoCheckpoint.paused /\ NoCheckpoint.values = NoValues
        /\ ~NoRow.resumed_at /\ NoRow.review_status = Null
    BY DEF NoCheckpoint, NoRow
  <2> QED BY <1>2, <1>4, <2>1 DEF Untouched, CkptTypeOK
<1>10. k.id > ckpt[t].id
  BY <1>6, <1>9
<1>11. Alone(c)'
  BY <1>1, <1>5 DEF Alone, T
<1>12. NoValues.review_status # "pending" /\ Null # "pending"
  BY DEF NoValues, Null
<1>13. RunnerOK(c)'
  <2>1. inv'[c].stage \in Running /\ inv'[c].stage \notin {"checked", "raised", "set_pending", "return"}
    BY <1>5 DEF Running
  <2>2. At(c, "ingest_contract", "body")' /\ ~Marking(c)'
    BY <1>5 DEF At, Marking, Writing
  <2> QED BY <1>2, <1>5, <1>6, <1>7, <1>9, <1>10, <1>11, <1>12, <2>1, <2>2 DEF RunnerOK, T, V
<1>14. RoleOK(c)'
  BY <1>2, <1>3, <1>5, <1>13 DEF RoleOK, Resumes
<1>15. \A d \in Calls : d # c => RoleOK(d)'
  BY <1>1, <1>2, <1>3, <1>5, <1>6, ComesToThread
<1>16. OneRunner'
  BY <1>1, <1>2, <1>5 DEF LifecycleInv, OneRunner, Resumes, T
<1>17. ASSUME NEW u \in Threads PROVE ThreadOK(u)'
  <2>1. ThreadOK(u) /\ (u = t => ~ckpt[u].paused)
    BY <1>9 DEF LifecycleInv
  <2>2. (\A d \in Calls : T(d)' # u) => \A d \in Calls : T(d) # u
    BY <1>3, <1>5, ThreadsAssumption DEF T
  <2> QED BY <1>2, <1>6, <2>1, <2>2 DEF ThreadOK, Untouched, PutForward, PendingLogged
<1> QED BY <1>8, <1>14, <1>15, <1>16, <1>17 DEF LifecycleInv

\* resume_contract finds the thread interrupted, or answers 404.
LEMMA LifecycleCheck ==
  ASSUME GraphInv, HttpOK, LifecycleInv, NEW c \in Calls, ResumeCheck(c)
  PROVE  LifecycleInv'
<1>1. /\ inv[c].stage = "idle" /\ RoleOK(c) /\ ShapeOK(c)
      /\ UNCHANGED <<runs, events, log, reports, ckpt, unsaved, clock, faults, ckptVars>>
      /\ inv \in [Calls -> Invocation] /\ http \in [Calls -> Http]
  BY DEF ResumeCheck, LifecycleInv, ShapeInv, storeVars, ckptVars, GraphInv, GraphTypeOK, HttpOK
<1>2. /\ ~Resumes(c) /\ T(c) = Null /\ http[c].code = 0 /\ unsaved[c] = {}
  BY <1>1 DEF RoleOK, ShapeOK, Active, Running
<1>3. ASSUME NEW t \in Threads, NEW d \in Decisions, NEW e \in Edits, Interrupted(t),
             inv' = [inv EXCEPT ![c] =
                       [NoInvocation EXCEPT
                          !.stage = "checked", !.thread = t,
                          !.answer = [form |-> "object", decision |-> d,
                                      edits |-> e]]],
             http' = [http EXCEPT ![c].asked = d]
      PROVE  LifecycleInv'
  <2> DEFINE a == [form |-> "object", decision |-> d, edits |-> e]
  <2>1. a # NoAnswer
    <3>1. a.form = "object" /\ NoAnswer.form = "none"
      BY DEF NoAnswer
    <3> QED BY <3>1
  <2>2. inv' = [inv EXCEPT ![c] = [NoInvocation EXCEPT !.stage = "checked", !.thread = t,
                                                       !.answer = a]]
    BY <1>3
  <2> HIDE DEF a
  <2>3. /\ inv'[c].stage = "checked" /\ inv'[c].thread = t /\ inv'[c].answer = a
        /\ \A x \in Calls : x # c => inv'[x] = inv[x]
    BY <1>1, <2>2 DEF NoInvocation
  <2>4. /\ http'[c].asked = d /\ http'[c].code = http[c].code
        /\ \A x \in Calls : x # c => http'[x] = http[x]
    BY <1>1, <1>3 DEF Http
  <2>5. Resumes(c)' /\ Active(c)'
    BY <2>3, <2>4 DEF Resumes, Active, Decisions, Null
  <2>6. ckpt[t].paused /\ PutForward(t)
    BY <1>3 DEF Interrupted, LifecycleInv, ThreadOK
  <2>7. PutForward(t)'
    BY <1>1, <2>6 DEF PutForward, PendingLogged
  <2>8. ResumerOK(c)'
    <3>1. inv'[c].stage \notin Running \cup {"returned", "set_pending", "set_completed"}
      BY <2>3 DEF Running
    <3> QED BY <1>1, <1>2, <2>1, <2>3, <2>6, <2>7, <3>1 DEF ResumerOK, T
  <2>9. RoleOK(c)'
    BY <1>2, <2>3, <2>4, <2>5, <2>8 DEF RoleOK
  <2>10. \A x \in Calls : x # c => RoleOK(x)'
    BY <1>1, <1>2, <2>3, <2>4, <2>6, ComesToThread
  <2>11. ShapeInv'
    BY <1>1, <1>2, <2>3, ShapeCall DEF LifecycleInv
  <2>12. OneRunner'
    <3>1. \A x \in Calls : x # c => (Resumes(x)' <=> Resumes(x)) /\ T(x)' = T(x)
      BY <2>3, <2>4 DEF Resumes, T
    <3> QED BY <2>5, <3>1 DEF LifecycleInv, OneRunner
  <2>13. ASSUME NEW u \in Threads PROVE ThreadOK(u)'
    <3>1. ThreadOK(u)
      BY DEF LifecycleInv
    <3>2. (\A x \in Calls : T(x)' # u) => \A x \in Calls : T(x) # u
      BY <1>2, <2>3, ThreadsAssumption DEF T
    <3> QED BY <1>1, <3>1, <3>2 DEF ThreadOK, Untouched, PutForward, PendingLogged
  <2> QED BY <2>9, <2>10, <2>11, <2>12, <2>13 DEF LifecycleInv
<1>4. ASSUME inv' = [inv EXCEPT ![c].stage = "done"], http' = [http EXCEPT ![c].code = 404]
      PROVE  LifecycleInv'
  <2>1. /\ inv'[c].stage = "done" /\ \A x \in Calls : inv'[x].thread = T(x)
        /\ \A x \in Calls : x # c => inv'[x] = inv[x]
    BY <1>1, <1>4 DEF Invocation, T
  <2>2. /\ \A x \in Calls : http'[x].asked = http[x].asked
        /\ \A x \in Calls : x # c => http'[x] = http[x]
    BY <1>1, <1>4 DEF Http
  <2>3. RoleOK(c)'
    BY <1>2, <2>1, <2>2 DEF RoleOK, Active, Running, Resumes
  <2>4. ASSUME NEW x \in Calls, x # c PROVE RoleOK(x)'
    <3>1. RoleOK(x) /\ inv'[x] = inv[x] /\ http'[x] = http[x] /\ unsaved'[x] = unsaved[x]
          /\ (Alone(x)' <=> Alone(x))
      BY <1>1, <2>1, <2>2, <2>4 DEF LifecycleInv, Alone, T
    <3>2. RunnerOK(x) => RunnerOK(x)'
      BY <1>1, <3>1 DEF RunnerOK, PutForward, PendingLogged, Marking, Writing, At, V, T
    <3>3. ResumerOK(x) => ResumerOK(x)'
      BY <1>1, <3>1 DEF ResumerOK, PutForward, PendingLogged, Reviewed, PastResumed, Active,
                        Writing, V, T
    <3> QED BY <3>1, <3>2, <3>3 DEF RoleOK, Active, Resumes, T
  <2>5. ShapeInv'
    BY <1>1, <1>2, <2>1, ShapeCall DEF LifecycleInv
  <2>6. OneRunner'
    BY <2>1, <2>2 DEF LifecycleInv, OneRunner, Resumes, T
  <2>7. \A u \in Threads : ThreadOK(u)'
    BY <1>1, <2>1 DEF LifecycleInv, ThreadOK, Untouched, PutForward, PendingLogged, T
  <2> QED BY <2>3, <2>4, <2>5, <2>6, <2>7 DEF LifecycleInv
<1> QED BY <1>3, <1>4 DEF ResumeCheck

\* Nothing happens.
LEMMA LifecycleStutter ==
  ASSUME LifecycleInv, UNCHANGED vars
  PROVE  LifecycleInv'
<1>1. UNCHANGED <<runs, events, log, reports, ckpt, unsaved, clock, inv, faults, http>>
  BY DEF vars, storeVars, ckptVars
<1>2. ShapeInv'
  BY <1>1 DEF LifecycleInv, ShapeInv, ShapeOK, UnsavedOK, SavedOK, PastAnswer, Writing, Active
<1>3. ASSUME NEW c \in Calls PROVE RoleOK(c)'
  <2>1. RoleOK(c) /\ (Alone(c)' <=> Alone(c))
    BY <1>1 DEF LifecycleInv, Alone, T
  <2>2. RunnerOK(c) => RunnerOK(c)'
    BY <1>1, <2>1 DEF RunnerOK, PutForward, PendingLogged, Marking, Writing, At, V, T
  <2>3. ResumerOK(c) => ResumerOK(c)'
    BY <1>1 DEF ResumerOK, PutForward, PendingLogged, Reviewed, PastResumed, Active, Writing, V, T
  <2> QED BY <1>1, <2>1, <2>2, <2>3 DEF RoleOK, Active, Resumes, T
<1>4. OneRunner' /\ \A t \in Threads : ThreadOK(t)'
  BY <1>1 DEF LifecycleInv, OneRunner, ThreadOK, Untouched, PutForward, PendingLogged, Resumes, T
<1> QED BY <1>2, <1>3, <1>4 DEF LifecycleInv

\* Nobody has called, and no thread was touched.
LEMMA LifecycleInit ==
  ASSUME Init
  PROVE  LifecycleInv
<1>1. /\ \A c \in Calls : inv[c].stage = "idle" /\ T(c) = Null
      /\ \A c \in Calls : http[c].asked = Null /\ http[c].code = 0
      /\ \A t \in Threads : Untouched(t)
  BY DEF Init, GraphInit, NoInvocation, StoreInit, CkptInit, NoHttp, Untouched, T
<1>2. ShapeInv
  BY ShapeInit DEF Init
<1>3. \A c \in Calls : RoleOK(c)
  BY <1>1 DEF RoleOK, Active, Running, Resumes
<1>4. OneRunner
  BY <1>1 DEF OneRunner
<1>5. ASSUME NEW t \in Threads PROVE ThreadOK(t)
  <2>1. ~NoCheckpoint.paused
    BY DEF NoCheckpoint
  <2> QED BY <1>1, <2>1 DEF ThreadOK, Untouched
<1> QED BY <1>2, <1>3, <1>4, <1>5 DEF LifecycleInv

--------------------------------------------------------------------------------
(* The theorems. *)

\* The roles of calls and the states of threads hold of every behaviour of the service,
\* whatever fails and whatever calls overlap.
THEOREM ReviewLifecycleInvariance == Spec => [](GraphInv /\ HttpOK /\ LifecycleInv)
<1>1. Init => LifecycleInv
  BY LifecycleInit
<1>2. GraphInv /\ HttpOK /\ LifecycleInv /\ [Next]_vars => LifecycleInv'
  <2> SUFFICES ASSUME GraphInv, HttpOK, LifecycleInv, [Next]_vars
               PROVE  LifecycleInv'
    OBVIOUS
  <2>1. ASSUME NEW c \in Calls,
               RunContract(c) \/ ResumeCheck(c) \/ InvokeResume(c) \/ Respond(c)
                 \/ RespondError(c)
        PROVE  LifecycleInv'
    BY <2>1, LifecycleRun, LifecycleCheck, LifecycleInvoke, LifecycleRespond
  <2>2. ASSUME NEW c \in Calls, GraphStep(c)
        PROVE  LifecycleInv'
    BY <2>2, LifecycleNodeStep, LifecycleSave, LifecycleFault DEF GraphStep
  <2>3. CASE CrashStep
    BY <2>3, LifecycleCrash
  <2>4. CASE UNCHANGED vars
    BY <2>4, LifecycleStutter
  <2> QED BY <2>1, <2>2, <2>3, <2>4 DEF Next
<1> QED BY <1>1, <1>2, ReviewInvariance, PTL DEF Spec

\* Every thread that waits for a reviewer was marked as interrupted and logged as pending
\* before it did.
THEOREM ReviewPausedIsAudited == Spec => []PausedIsAudited
<1>1. LifecycleInv => PausedIsAudited
  BY DEF LifecycleInv, ThreadOK, PutForward, PendingLogged, PausedIsAudited, Interrupted
<1> QED BY <1>1, ReviewLifecycleInvariance, PTL

\* The only steps that write a row are register_run, the two review transitions, from
\* timestamps read while nobody could take one back, and finalize_run.
LEMMA StepKeepsTimes ==
  ASSUME GraphInv, LifecycleInv, [Next]_vars, NEW t \in Threads
  PROVE  /\ runs[t].exists => runs'[t].exists
         /\ runs[t].interrupted_at => runs'[t].interrupted_at
         /\ runs[t].resumed_at => runs'[t].resumed_at
         /\ runs[t].completed_at => runs'[t].completed_at
<1> DEFINE Kept == /\ runs[t].exists => runs'[t].exists
                   /\ runs[t].interrupted_at => runs'[t].interrupted_at
                   /\ runs[t].resumed_at => runs'[t].resumed_at
                   /\ runs[t].completed_at => runs'[t].completed_at
<1>1. \/ UNCHANGED runs
      \/ \E c \in Calls :
           \/ IngestContract(c) \/ SetPending(c) \/ SetCompleted(c) \/ Finalize(c)
  <2>1. ASSUME NEW c \in Calls,
               RunContract(c) \/ ResumeCheck(c) \/ InvokeResume(c) \/ Respond(c)
                 \/ RespondError(c) \/ CrashStep \/ UNCHANGED vars
        PROVE  UNCHANGED runs
    BY <2>1 DEF RunContract, Start, ResumeCheck, InvokeResume, Resume, Respond, RespondError,
                CrashStep, Crash, vars, storeVars
  <2>2. ASSUME NEW c \in Calls, Save(c) \/ StatementFails(c)
        PROVE  UNCHANGED runs
    BY <2>2 DEF Save, StatementFails, storeVars
  <2>3. ASSUME NEW c \in Calls, NodeStep(c)
        PROVE  \/ UNCHANGED runs
               \/ IngestContract(c) \/ SetPending(c) \/ SetCompleted(c) \/ Finalize(c)
    BY <2>3 DEF NodeStep, ParseAndChunkClauses, ExtractDetailsAndFlagRisk, CheckPolicyRules,
                AutoAdvanceStandardCases, SelectPending, Pause, SelectCompleted, Decide,
                RefuseAnswer, AuditAndReport, ReportFails, Insert, Line, Return, storeVars
  <2>4. CrashStep \/ UNCHANGED vars => UNCHANGED runs
    BY DEF CrashStep, Crash, vars, storeVars
  <2> QED BY <2>1, <2>2, <2>3, <2>4 DEF Next, GraphStep
<1>2. ASSUME NEW c \in Calls, IngestContract(c) PROVE Kept
  <2>1. PICK u \in Threads : T(c) = u
    BY <1>2, RolesOfRunning DEF IngestContract, At, Running
  <2>2. runs \in [Threads -> Row] /\ \E f, r : RegisterRun(u, f, r)
    BY <1>2, <2>1 DEF IngestContract, IngestFound, IngestMissing, GraphInv, StoreTypeOK
  <2> QED BY <2>2, RegisterFields
<1>3. ASSUME NEW c \in Calls, SetPending(c) \/ SetCompleted(c) PROVE Kept
  <2>1. inv[c].stage \in Running /\ runs \in [Threads -> Row]
    BY <1>3 DEF SetPending, SetCompleted, At, Running, GraphInv, StoreTypeOK
  <2>2. PICK u \in Threads : T(c) = u
    BY <2>1, RolesOfRunning
  <2>3. CASE SetPending(c)
    <3> DEFINE status == "pending"
               read == inv[c].read
    <3>1. UpdateReviewStatus(u, status, read)
      BY <2>2, <2>3 DEF SetPending
    <3> HIDE DEF status, read
    <3>2. /\ \A x \in Threads : x # u => runs'[x] = runs[x]
          /\ runs'[u].exists = runs[u].exists /\ runs'[u].completed_at = runs[u].completed_at
          /\ read.interrupted_at \/ status = "pending" => runs'[u].interrupted_at
          /\ read.resumed_at \/ status = "completed" => runs'[u].resumed_at
      BY <2>1, <3>1, TransitionFields
    <3>3. runs[u].resumed_at => inv[c].read.resumed_at
      BY <2>1, <2>2, <2>3, RolesOfRunning DEF SetPending, At, RunnerOK, ResumerOK
    <3>4. /\ runs'[u].interrupted_at
          /\ inv[c].read.resumed_at => runs'[u].resumed_at
      BY <3>2 DEF status, read
    <3> QED BY <3>2, <3>3, <3>4
  <2>4. CASE SetCompleted(c)
    <3> DEFINE status == "completed"
               read == inv[c].read
    <3>1. UpdateReviewStatus(u, status, read)
      BY <2>2, <2>4 DEF SetCompleted
    <3> HIDE DEF status, read
    <3>2. /\ \A x \in Threads : x # u => runs'[x] = runs[x]
          /\ runs'[u].exists = runs[u].exists /\ runs'[u].completed_at = runs[u].completed_at
          /\ read.interrupted_at \/ status = "pending" => runs'[u].interrupted_at
          /\ read.resumed_at \/ status = "completed" => runs'[u].resumed_at
      BY <2>1, <3>1, TransitionFields
    <3>3. inv[c].read.interrupted_at
      BY <2>1, <2>4, AnsweredResumes DEF SetCompleted, At, ResumerOK, PastAnswer
    <3>4. runs'[u].interrupted_at /\ runs'[u].resumed_at
      BY <3>2, <3>3 DEF status, read
    <3> QED BY <3>2, <3>4
  <2> QED BY <1>3, <2>3, <2>4
<1>4. ASSUME NEW c \in Calls, Finalize(c) PROVE Kept
  <2>1. inv[c].stage \in Running /\ runs \in [Threads -> Row]
    BY <1>4 DEF Finalize, At, Running, GraphInv, StoreTypeOK
  <2>2. PICK u \in Threads : T(c) = u
    BY <2>1, RolesOfRunning
  <2>3. FinalizeRun(u, V(c)) /\ runs[u].exists
    BY <1>4, <2>1, <2>2, RolesOfRunning DEF Finalize, At, RunnerOK, ResumerOK, PutForward
  <2> QED BY <2>1, <2>3, FinalizeFields
<1> QED BY <1>1, <1>2, <1>3, <1>4

\* interrupted_at, resumed_at and completed_at are never taken back, whatever the review
\* transitions of overlapping calls write from what they have read.
THEOREM ReviewTimestampsKept == Spec => TimestampsKept
<1> DEFINE Kept == \A t \in Threads :
                     /\ runs[t].exists => runs'[t].exists
                     /\ runs[t].interrupted_at => runs'[t].interrupted_at
                     /\ runs[t].resumed_at => runs'[t].resumed_at
                     /\ runs[t].completed_at => runs'[t].completed_at
<1>1. GraphInv /\ HttpOK /\ LifecycleInv /\ [Next]_vars => [Kept]_runs
  BY StepKeepsTimes
<1> QED BY <1>1, ReviewLifecycleInvariance, PTL DEF Spec, TimestampsKept

--------------------------------------------------------------------------------
(***************************************************************************)
(* What the service promises about a failed policy evaluation and about the  *)
(* reviewers' inbox: PolicyInv and InboxInv, on top of the roles of calls    *)
(* that LifecycleInv gives.                                                  *)
(***************************************************************************)

NotApproved == {"failed", Null}

\* The nodes up to the policy's decision.
EarlyNodes == {"ingest_contract", "parse_and_chunk_clauses", "extract_details_and_flag_risk"}

--------------------------------------------------------------------------------
(* Frames. *)

\* A step of call c leaves another runner, on a thread of its own, where it was, and
\* every thread but c's.
LEMMA PolicyStep ==
  ASSUME GraphInv, LifecycleInv, PolicyInv, NEW c \in Calls, NEW t \in Threads, T(c) = t,
         StepOf(c), PolicyCallOK(c)', PolicyHolds(t)'
  PROVE  PolicyInv'
<1>1. ASSUME NEW d \in Calls, d # c PROVE PolicyCallOK(d)'
  <2>1. /\ PolicyCallOK(d) /\ inv'[d] = inv[d] /\ unsaved'[d] = unsaved[d]
        /\ http'[d] = http[d]
    BY <1>1 DEF PolicyInv, StepOf
  <2>2. CASE inv[d].stage \in Running /\ ~Resumes(d)
    <3>1. T(d) \in Threads /\ Alone(d)
      BY <2>2, RolesOfRunning
    <3>2. T(d) # t
      BY <1>1, <3>1 DEF Alone
    <3>3. events'[T(d)] = events[T(d)] /\ ckpt'[T(d)] = ckpt[T(d)]
      BY <3>1, <3>2 DEF StepOf, SameThread
    <3> QED BY <2>1, <3>3 DEF PolicyCallOK, BeforePolicy, Returning, Types, V, T, Resumes
  <2>3. CASE ~(inv[d].stage \in Running /\ ~Resumes(d))
    BY <2>1, <2>3 DEF PolicyCallOK, Resumes
  <2> QED BY <2>2, <2>3
<1>2. ASSUME NEW u \in Threads, u # t PROVE PolicyHolds(u)'
  <2>1. PolicyHolds(u) /\ events'[u] = events[u] /\ ckpt'[u] = ckpt[u]
    BY <1>2 DEF PolicyInv, StepOf, SameThread
  <2>2. \A d \in Calls : T(d)' = u => /\ T(d) = u /\ inv'[d] = inv[d]
                                      /\ unsaved'[d] = unsaved[d]
    BY <1>2 DEF StepOf, T
  <2>3. ASSUME NEW d \in Calls, T(d)' = u, FailsClosed(d) PROVE FailsClosed(d)'
    BY <2>2, <2>3 DEF FailsClosed, V
  <2> QED BY <2>1, <2>2, <2>3 DEF PolicyHolds, Types
<1> QED BY <1>1, <1>2 DEF PolicyInv

\* A step of a running runner: it is alone on its thread.
LEMMA PolicyRunner ==
  ASSUME GraphInv, LifecycleInv, PolicyInv, NEW c \in Calls, inv[c].stage \in Running,
         ~Resumes(c), NEW t \in Threads, T(c) = t, StepOf(c), PolicyCallOK(c)',
         "policy_failed" \in Types(t)' =>
           /\ Types(t)' \cap {"human_review_pending", "auto_approved"} = {}
           /\ ckpt'[t].values.final_status \in NotApproved
           /\ FailsClosed(c)'
  PROVE  PolicyInv'
<1>1. Alone(c)
  BY RolesOfRunning
<1>2. \A d \in Calls : T(d)' = t => d = c
  BY <1>1, StepKeepsThreads DEF Alone, T
<1>3. PolicyHolds(t)'
  BY <1>2 DEF PolicyHolds, NotApproved
<1> QED BY <1>3, PolicyStep

\* A resumer's thread was put before a reviewer: its policy evaluation did not fail, and
\* no event of a review says otherwise.
LEMMA ResumedPolicyHeld ==
  ASSUME GraphInv, LifecycleInv, PolicyInv, NEW c \in Calls, Resumes(c), NEW t \in Threads,
         T(c) = t
  PROVE  "policy_failed" \notin Types(t)
<1>1. PutForward(t)
  BY DEF LifecycleInv, RoleOK, ResumerOK
<1>2. "human_review_pending" \in Types(t)
  BY <1>1 DEF PutForward, PendingLogged, Types, GraphInv, StreamsAgree
<1> QED BY <1>2 DEF PolicyInv, PolicyHolds

\* A step of a resumer that logs no failed evaluation.
LEMMA PolicyResumer ==
  ASSUME GraphInv, LifecycleInv, PolicyInv, NEW c \in Calls, Resumes(c), NEW t \in Threads,
         T(c) = t, StepOf(c),
         \A e \in events'[t] \ events[t] : e.type # "policy_failed"
  PROVE  PolicyInv'
<1>1. "policy_failed" \notin Types(t)'
  BY ResumedPolicyHeld DEF Types
<1>2. PolicyCallOK(c)'
  BY DEF PolicyCallOK, StepOf, Resumes
<1> QED BY <1>1, <1>2, PolicyStep DEF PolicyHolds

--------------------------------------------------------------------------------
(* Steps of a runner. *)

\* What is known of a runner by where it is.
LEMMA PolicyFacts ==
  ASSUME LifecycleInv, PolicyInv, NEW c \in Calls, inv[c].stage \in Running, ~Resumes(c),
         NEW t \in Threads, T(c) = t
  PROVE  /\ "policy_failed" \in Types(t) =>
              /\ Types(t) \cap {"human_review_pending", "auto_approved"} = {}
              /\ ckpt[t].values.final_status \in NotApproved
              /\ FailsClosed(c)
         /\ BeforePolicy(c) =>
              /\ Types(t) \cap {"human_review_pending", "auto_approved", "policy_failed"} = {}
              /\ ckpt[t].values.final_status \in NotApproved
              /\ \A k \in unsaved[c] : k.values.final_status \in NotApproved
              /\ V(c).final_status \in NotApproved
              /\ Returning(c) =>
                   \/ inv[c].result.final_status \in NotApproved
                   \/ /\ inv[c].node = "parse_and_chunk_clauses"
                      /\ inv[c].result.parse_status # "parsed"
         /\ inv[c].node = "check_policy_rules" =>
              /\ Types(t) \cap {"human_review_pending", "auto_approved"} = {}
              /\ Returning(c) /\ inv[c].event.type = "policy_failed" =>
                   inv[c].result.final_status = "failed" /\ inv[c].result.route = "audit_only"
BY DEF PolicyInv, PolicyHolds, PolicyCallOK, NotApproved

\* A runner calls append_event.
LEMMA PolicyEmits ==
  ASSUME GraphInv, LifecycleInv, PolicyInv, NEW c \in Calls, inv[c].stage \in Running,
         ~Resumes(c), NEW t \in Threads, T(c) = t,
         http' = http, UNCHANGED <<events, ckpt, unsaved>>, faults > 0 => faults' > 0,
         \A u \in Threads : u # t => SameThread(u),
         NEW type, NEW info, NEW result, Emit(c, type, info, result),
         inv[c].node = "check_policy_rules" => BeforePolicy(c),
         BeforePolicy(c) =>
           \/ result.final_status \in {"failed", V(c).final_status}
           \/ inv[c].node = "parse_and_chunk_clauses" /\ result.parse_status # "parsed",
         type = "policy_failed" => result.final_status = "failed" /\ result.route = "audit_only",
         inv[c].node = "audit_and_report" => result = V(c)
  PROVE  PolicyInv'
<1>1. inv \in [Calls -> Invocation]
  BY DEF GraphInv, GraphTypeOK
<1>2. /\ Becomes(c, "insert", inv[c].node, V(c), result, [type |-> type, info |-> info],
                 inv[c].read)
      /\ inv'[c].event.type = type
  BY <1>1, EmitBecomes
<1>3. StepOf(c)
  BY <1>2, BecomesStep
<1>4. /\ inv'[c].stage = "insert" /\ inv'[c].node = inv[c].node /\ inv'[c].thread = t
      /\ inv'[c].values = V(c) /\ inv'[c].result = result
  BY <1>2 DEF Becomes
<1>5. Types(t)' = Types(t) /\ Types(T(c))' = Types(t)
  BY <1>4 DEF Types, T
<1>6. BeforePolicy(c)' => BeforePolicy(c)
  BY <1>4 DEF BeforePolicy
<1>7. PolicyCallOK(c)'
  <2>1. BeforePolicy(c)' =>
          /\ Types(t) \cap {"human_review_pending", "auto_approved", "policy_failed"} = {}
          /\ ckpt[t].values.final_status \in NotApproved
          /\ \A k \in unsaved[c] : k.values.final_status \in NotApproved
          /\ V(c).final_status \in NotApproved
          /\ \/ result.final_status \in NotApproved
             \/ inv[c].node = "parse_and_chunk_clauses" /\ result.parse_status # "parsed"
    BY <1>6, PolicyFacts DEF NotApproved
  <2>2. inv[c].node = "check_policy_rules" =>
          Types(t) \cap {"human_review_pending", "auto_approved"} = {}
    BY PolicyFacts
  <2> QED BY <1>2, <1>4, <1>5, <2>1, <2>2 DEF PolicyCallOK, NotApproved, V, T
<1>8. "policy_failed" \in Types(t)' =>
        /\ Types(t)' \cap {"human_review_pending", "auto_approved"} = {}
        /\ ckpt'[t].values.final_status \in NotApproved
        /\ FailsClosed(c)'
  <2> SUFFICES ASSUME "policy_failed" \in Types(t)
               PROVE  /\ Types(t) \cap {"human_review_pending", "auto_approved"} = {}
                      /\ ckpt[t].values.final_status \in NotApproved
                      /\ FailsClosed(c)'
    BY <1>5
  <2>1. /\ Types(t) \cap {"human_review_pending", "auto_approved"} = {}
        /\ ckpt[t].values.final_status \in NotApproved
        /\ FailsClosed(c) /\ ~BeforePolicy(c)
    BY PolicyFacts
  <2>2. inv[c].node = "audit_and_report"
    BY <2>1 DEF FailsClosed
  <2> QED BY <1>4, <2>1, <2>2 DEF FailsClosed, V
<1> QED BY <1>3, <1>7, <1>8, PolicyRunner

\* A runner goes to another stage of its node, or gives up.
LEMMA PolicyMoves ==
  ASSUME GraphInv, LifecycleInv, PolicyInv, NEW c \in Calls, inv[c].stage \in Running,
         ~Resumes(c), NEW t \in Threads, T(c) = t,
         http' = http, UNCHANGED <<events, unsaved>>, faults > 0 => faults' > 0,
         ckpt'[t].values = ckpt[t].values,
         \A u \in Threads : u # t => SameThread(u),
         NEW stage, stage \notin {"body", "insert"}, NEW read,
         Becomes(c, stage, inv[c].node, V(c), inv[c].result, inv[c].event, read),
         stage \in Running =>
           /\ \/ inv[c].stage = "line" /\ stage = "return"
              \/ inv[c].node \notin EarlyNodes \cup {"check_policy_rules"}
           /\ inv[c].stage # "body" \/ inv[c].node # "audit_and_report"
  PROVE  PolicyInv'
<1>1. StepOf(c)
  BY BecomesStep
<1>2. /\ inv'[c].stage = stage /\ inv'[c].node = inv[c].node /\ inv'[c].thread = t
      /\ inv'[c].values = V(c) /\ inv'[c].result = inv[c].result
      /\ inv'[c].event = inv[c].event
  BY DEF Becomes
<1>3. Types(t)' = Types(t) /\ Types(T(c))' = Types(t)
  BY <1>2 DEF Types, T
<1>4. PolicyCallOK(c)'
  <2>1. CASE stage \notin Running
    BY <1>2, <2>1 DEF PolicyCallOK
  <2>2. CASE inv[c].stage = "line" /\ stage = "return"
    <3>1. (BeforePolicy(c)' => BeforePolicy(c)) /\ Returning(c)
      BY <1>2, <2>2 DEF BeforePolicy, Returning
    <3> QED BY <1>2, <1>3, <3>1, PolicyFacts DEF PolicyCallOK, NotApproved, V, T
  <2>3. CASE inv[c].node \notin EarlyNodes \cup {"check_policy_rules"}
    BY <1>2, <2>3 DEF PolicyCallOK, BeforePolicy, EarlyNodes
  <2> QED BY <2>1, <2>2, <2>3
<1>5. ASSUME "policy_failed" \in Types(t)
      PROVE  FailsClosed(c)'
  <2>1. FailsClosed(c)
    BY <1>5, PolicyFacts
  <2>2. CASE stage \notin Running
    BY <1>2, <2>1, <2>2 DEF FailsClosed
  <2>3. CASE stage \in Running
    BY <1>2, <2>1, <2>3 DEF FailsClosed, V, EarlyNodes
  <2> QED BY <2>2, <2>3
<1> QED BY <1>1, <1>3, <1>4, <1>5, PolicyFacts, PolicyRunner

\* The nodes before human_review, and the automatic approval.
LEMMA PolicyEarly ==
  ASSUME GraphInv, LifecycleInv, PolicyInv, NEW c \in Calls, http' = http,
         \/ IngestContract(c) \/ ParseAndChunkClauses(c) \/ ExtractDetailsAndFlagRisk(c)
         \/ CheckPolicyRules(c) \/ AutoAdvanceStandardCases(c)
  PROVE  PolicyInv'
<1>1. /\ inv[c].stage = "body" /\ inv[c].stage \in Running
      /\ inv[c].node \notin {"human_review", "audit_and_report", "END"}
      /\ UNCHANGED <<events, log, ckpt, unsaved, faults>>
      /\ inv \in [Calls -> Invocation] /\ runs \in [Threads -> Row]
  BY DEF IngestContract, ParseAndChunkClauses, ExtractDetailsAndFlagRisk, CheckPolicyRules,
         AutoAdvanceStandardCases, At, Running, storeVars, ckptVars, GraphInv, GraphTypeOK,
         StoreTypeOK
<1>2. PICK t \in Threads : T(c) = t
  BY <1>1, RolesOfRunning
<1>3. ~Resumes(c) /\ V(c) \in Values
  BY <1>1, RolesOfRunning, CallFacts DEF ResumerOK
<1>4. \A u \in Threads : u # t => SameThread(u)
  <2>1. CASE IngestContract(c)
    <3>1. reports' = reports /\ \E f, r : RegisterRun(t, f, r)
      BY <1>2, <2>1 DEF IngestContract, IngestFound, IngestMissing
    <3> QED BY <1>1, <3>1, RegisterFields DEF SameThread
  <2>2. CASE ~IngestContract(c)
    BY <1>1, <2>2 DEF ParseAndChunkClauses, ExtractDetailsAndFlagRisk, CheckPolicyRules,
       AutoAdvanceStandardCases, storeVars, SameThread
  <2> QED BY <2>1, <2>2
<1>5. inv[c].node = "check_policy_rules" => BeforePolicy(c)
  BY <1>1 DEF BeforePolicy
<1>6. ASSUME NEW type, NEW info, NEW result, Emit(c, type, info, result),
             \/ result.final_status \in {"failed", V(c).final_status}
             \/ inv[c].node = "parse_and_chunk_clauses" /\ result.parse_status # "parsed"
             \/ inv[c].node = "auto_advance_standard_cases",
             type = "policy_failed" =>
               result.final_status = "failed" /\ result.route = "audit_only"
      PROVE  PolicyInv'
  <2>1. inv[c].node = "auto_advance_standard_cases" => ~BeforePolicy(c)
    BY DEF BeforePolicy
  <2> QED BY <1>1, <1>2, <1>3, <1>4, <1>5, <1>6, <2>1, PolicyEmits
<1>7. /\ [V(c) EXCEPT !.parse_status = "pending",
                      !.review_status = "not_required"].final_status = V(c).final_status
      /\ [V(c) EXCEPT !.final_status = "failed", !.route = "audit_only",
                      !.review_status = "not_required"].final_status = "failed"
      /\ [V(c) EXCEPT !.parse_status = "parsed"].final_status = V(c).final_status
      /\ [V(c) EXCEPT !.parse_status = "needs_manual_parse", !.route = "audit_only",
                      !.final_status = "needs_manual_parse"].parse_status # "parsed"
      /\ \A x : [V(c) EXCEPT !.extractions = x,
                             !.printable = TRUE].final_status = V(c).final_status
      /\ \A r : [V(c) EXCEPT !.route = r].final_status = V(c).final_status
      /\ FailedValues(c).final_status = "failed" /\ FailedValues(c).route = "audit_only"
  BY <1>3 DEF FailedValues, Values
<1>8. CASE IngestContract(c)
  <2> DEFINE w1 == [V(c) EXCEPT !.parse_status = "pending", !.review_status = "not_required"]
             w2 == [V(c) EXCEPT !.final_status = "failed", !.route = "audit_only",
                                !.review_status = "not_required"]
  <2>1. Emit(c, "ingested", Null, w1) \/ Emit(c, "ingest_failed", Null, w2)
    BY <1>8 DEF IngestContract, IngestFound, IngestMissing
  <2>2. w1.final_status = V(c).final_status /\ w2.final_status = "failed"
    BY <1>7
  <2> HIDE DEF w1, w2
  <2> QED BY <1>6, <2>1, <2>2
<1>9. CASE ParseAndChunkClauses(c)
  <2> DEFINE w1 == [V(c) EXCEPT !.parse_status = "parsed"]
             w2 == [V(c) EXCEPT !.parse_status = "needs_manual_parse", !.route = "audit_only",
                                !.final_status = "needs_manual_parse"]
  <2>1. \/ Emit(c, "parsed", Null, w1) \/ Emit(c, "parse_unsupported", Null, w2)
        \/ Go(c, "raised")
    BY <1>9 DEF ParseAndChunkClauses
  <2>2. /\ w1.final_status = V(c).final_status /\ w2.parse_status # "parsed"
        /\ inv[c].node = "parse_and_chunk_clauses"
    BY <1>7, <1>9 DEF ParseAndChunkClauses, At
  <2> HIDE DEF w1, w2
  <2>3. ASSUME Go(c, "raised") PROVE PolicyInv'
    <3>1. Becomes(c, "raised", inv[c].node, V(c), inv[c].result, inv[c].event, inv[c].read)
      BY <1>1, <2>3, GoBecomes
    <3>2. "raised" \notin Running
      BY DEF Running
    <3> QED BY <1>1, <1>2, <1>3, <1>4, <3>1, <3>2, PolicyMoves
  <2> QED BY <1>6, <2>1, <2>2, <2>3
<1>10. CASE ExtractDetailsAndFlagRisk(c)
  <2> DEFINE w(x) == [V(c) EXCEPT !.extractions = x, !.printable = TRUE]
  <2>1. \/ \E x \in Extractions : Emit(c, "extracted", Null, w(x))
        \/ Emit(c, "extraction_failed", Null, FailedValues(c))
    BY <1>10 DEF ExtractDetailsAndFlagRisk
  <2>2. \A x : w(x).final_status = V(c).final_status
    BY <1>7
  <2> HIDE DEF w
  <2> QED BY <1>6, <1>7, <2>1, <2>2
<1>11. CASE CheckPolicyRules(c)
  <2> DEFINE w == [V(c) EXCEPT !.route = EvaluatePolicy(V(c).extractions)]
  <2>1. \/ Emit(c, "policy_evaluated", Null, w)
        \/ Emit(c, "policy_failed", Null, FailedValues(c))
    BY <1>11 DEF CheckPolicyRules
  <2>2. w.final_status = V(c).final_status
    BY <1>7
  <2> HIDE DEF w
  <2> QED BY <1>6, <1>7, <2>1, <2>2
<1>12. CASE AutoAdvanceStandardCases(c)
  <2>1. /\ inv[c].node = "auto_advance_standard_cases"
        /\ \E w : Emit(c, "auto_approved", Null, w)
    BY <1>12 DEF AutoAdvanceStandardCases, At
  <2> QED BY <1>6, <2>1
<1> QED BY <1>8, <1>9, <1>10, <1>11, <1>12

\* human_review and audit_and_report.
LEMMA PolicyLate ==
  ASSUME GraphInv, LifecycleInv, PolicyInv, NEW c \in Calls, http' = http,
         \/ SelectPending(c) \/ SetPending(c) \/ SelectCompleted(c) \/ SetCompleted(c)
         \/ Decide(c) \/ RefuseAnswer(c) \/ AuditAndReport(c) \/ ReportFails(c) \/ Finalize(c)
  PROVE  PolicyInv'
<1>1. /\ inv[c].stage \in {"body", "set_pending", "set_completed", "interrupt", "decide",
                           "finalize"}
      /\ inv[c].stage \in Running
      /\ inv[c].node \in {"human_review", "audit_and_report"}
      /\ UNCHANGED <<events, log, unsaved, faults>>
      /\ inv \in [Calls -> Invocation] /\ runs \in [Threads -> Row]
      /\ reports \in [Threads -> Report] /\ CkptTypeOK
  BY KeepAnswerFields
     DEF SelectPending, SetPending, SelectCompleted, SetCompleted, Decide, RefuseAnswer,
         AuditAndReport, ReportFails, Finalize, At, Running, storeVars, ckptVars, GraphInv,
         GraphTypeOK, StoreTypeOK, CallOK, Active, T
<1>2. PICK t \in Threads : T(c) = t
  BY <1>1, RolesOfRunning
<1>3. /\ \A u \in Threads : u # t => SameThread(u)
      /\ ckpt'[t].values = ckpt[t].values
  <2>1. /\ \A u \in Threads : ckpt'[u].values = ckpt[u].values
        /\ \A u \in Threads : u # t => ckpt'[u] = ckpt[u]
    BY <1>1, <1>2, KeepAnswerFields
       DEF SelectPending, SetPending, SelectCompleted, SetCompleted, Decide, RefuseAnswer,
           AuditAndReport, ReportFails, Finalize, ckptVars
  <2>2. \A u \in Threads : u # t => runs'[u] = runs[u]
    BY <1>1, <1>2
       DEF SelectPending, SetPending, SelectCompleted, SetCompleted, Decide, RefuseAnswer,
           AuditAndReport, ReportFails, Finalize, UpdateReviewStatus, FinalizeRun, storeVars
  <2>3. \A u \in Threads : u # t => reports'[u] = reports[u]
    BY <1>1, <1>2
       DEF SelectPending, SetPending, SelectCompleted, SetCompleted, Decide, RefuseAnswer,
           AuditAndReport, ReportFails, Finalize, WriteReport, storeVars
  <2> QED BY <1>1, <2>1, <2>2, <2>3 DEF SameThread
<1>4. ASSUME NEW type, type # "policy_failed", NEW info, NEW result,
             Emit(c, type, info, result), ~Resumes(c) => ckpt' = ckpt /\ result = V(c)
      PROVE  PolicyInv'
  <2>1. ~BeforePolicy(c) /\ inv[c].node # "check_policy_rules"
    BY <1>1 DEF BeforePolicy
  <2>2. CASE ~Resumes(c)
    BY <1>1, <1>2, <1>3, <1>4, <2>1, <2>2, PolicyEmits
  <2>3. CASE Resumes(c)
    <3>1. Becomes(c, "insert", inv[c].node, V(c), result, [type |-> type, info |-> info],
                  inv[c].read)
      BY <1>1, <1>4, EmitBecomes
    <3>2. StepOf(c)
      BY <1>1, <1>2, <1>3, <3>1, BecomesStep
    <3> QED BY <1>1, <1>2, <2>3, <3>2, PolicyResumer
  <2> QED BY <2>2, <2>3
<1>5. ASSUME NEW stage \in {"set_pending", "interrupt", "set_completed", "decide", "return",
                            "raised"},
             NEW read,
             Becomes(c, stage, inv[c].node, V(c), inv[c].result, inv[c].event, read),
             stage = "raised" \/ inv[c].stage # "body" \/ inv[c].node # "audit_and_report"
      PROVE  PolicyInv'
  <2>1. inv[c].node \notin EarlyNodes \cup {"check_policy_rules"} /\ "raised" \notin Running
    BY <1>1 DEF EarlyNodes, Running
  <2>2. CASE ~Resumes(c)
    BY <1>1, <1>2, <1>3, <1>5, <2>1, <2>2, PolicyMoves
  <2>3. CASE Resumes(c)
    <3>1. StepOf(c)
      BY <1>1, <1>2, <1>3, <1>5, BecomesStep
    <3> QED BY <1>1, <1>2, <2>3, <3>1, PolicyResumer
  <2> QED BY <2>2, <2>3
<1>6. CASE SelectPending(c) \/ SelectCompleted(c)
  <2>1. inv[c].node = "human_review"
    BY <1>6 DEF SelectPending, SelectCompleted, At
  <2>2. CASE SelectPending(c)
    <3>1. Becomes(c, IF WillTransition(T(c), "pending") THEN "set_pending" ELSE "interrupt",
                  inv[c].node, V(c), inv[c].result, inv[c].event, inv'[c].read)
      BY <1>1, <2>2, SelectBecomes DEF SelectPending
    <3> QED BY <1>5, <2>1, <3>1
  <2>3. CASE SelectCompleted(c)
    <3>1. Becomes(c, IF WillTransition(T(c), "completed") THEN "set_completed" ELSE "decide",
                  inv[c].node, V(c), inv[c].result, inv[c].event, inv'[c].read)
      BY <1>1, <2>3, SelectBecomes DEF SelectCompleted
    <3> QED BY <1>5, <2>1, <3>1
  <2> QED BY <1>6, <2>2, <2>3
<1>7. CASE RefuseAnswer(c) \/ ReportFails(c) \/ Finalize(c)
  <2>1. \/ Go(c, "raised")
        \/ Go(c, "return") /\ inv[c].stage # "body"
    BY <1>7 DEF RefuseAnswer, ReportFails, Finalize, At
  <2> QED BY <1>1, <1>5, <2>1, GoBecomes
<1>8. CASE SetPending(c) \/ AuditAndReport(c)
  <2>1. ckpt' = ckpt
    BY <1>8 DEF SetPending, AuditAndReport, ckptVars
  <2> QED BY <1>4, <1>8, <2>1 DEF SetPending, AuditAndReport
<1>9. CASE SetCompleted(c) \/ Decide(c)
  <2>1. Resumes(c)
    BY <1>1, <1>9, AnsweredResumes DEF SetCompleted, Decide, At, PastAnswer
  <2>2. \E info, w : Emit(c, "human_review_resumed", info, w)
                     \/ Emit(c, "human_review_completed", info, w)
    BY <1>9 DEF SetCompleted, Decide
  <2> QED BY <1>4, <2>1, <2>2
<1> QED BY <1>6, <1>7, <1>8, <1>9

--------------------------------------------------------------------------------
(* The two writes of append_event, and checkpoints. *)

\* The event of a failed evaluation comes with the values of one.
LEMMA PolicyWrites ==
  ASSUME GraphInv, LifecycleInv, PolicyInv, NEW c \in Calls, http' = http,
         Insert(c) \/ Line(c)
  PROVE  PolicyInv'
<1>1. /\ inv[c].stage \in {"insert", "line"} /\ inv[c].stage \in Running
      /\ UNCHANGED <<runs, reports, ckpt, unsaved, faults>>
      /\ inv \in [Calls -> Invocation] /\ StoreTypeOK
      /\ inv[c].event.type \in EventsOf(inv[c].node) /\ inv[c].node \in Nodes
  BY DEF Insert, Line, Running, ckptVars, GraphInv, GraphTypeOK, LifecycleInv, ShapeInv, ShapeOK
<1>2. PICK t \in Threads : T(c) = t
  BY <1>1, RolesOfRunning
<1>3. CASE Insert(c)
  <2>1. /\ inv[c].stage = "insert" /\ log' = log /\ InsertEvent(t, Written(c))
        /\ Becomes(c, "line", inv[c].node, V(c), inv[c].result, inv[c].event, inv[c].read)
        /\ "line" \in Running
    BY <1>1, <1>2, <1>3, GoBecomes DEF Insert, Running
  <2>2. /\ \A u \in Threads : u # t => SameThread(u)
        /\ events'[t] = events[t] \cup {Written(c)} /\ Written(c).type = inv[c].event.type
    BY <1>1, <1>2, <2>1 DEF InsertEvent, SameThread, StoreTypeOK, Written
  <2>3. StepOf(c)
    BY <1>1, <1>2, <2>1, <2>2, BecomesStep
  <2>4. Types(t)' = Types(t) \cup {inv[c].event.type}
    BY <2>2 DEF Types
  <2>5. /\ inv'[c].stage = "line" /\ inv'[c].node = inv[c].node /\ inv'[c].thread = t
        /\ inv'[c].values = V(c) /\ inv'[c].result = inv[c].result
        /\ inv'[c].event = inv[c].event
    BY <1>2, <2>1 DEF Becomes
  <2>6. CASE Resumes(c)
    <3>1. inv[c].node \in {"human_review", "audit_and_report", "END"}
      BY <1>1, <2>6, RolesOfRunning DEF ResumerOK
    <3>2. inv[c].event.type # "policy_failed"
      BY <1>1, <3>1 DEF EventsOf
    <3> QED BY <1>2, <2>2, <2>3, <2>6, <3>2, PolicyResumer
  <2>7. CASE ~Resumes(c)
    <3>1. /\ inv[c].event.type = "policy_failed" => inv[c].node = "check_policy_rules"
          /\ inv[c].node \in EarlyNodes =>
               inv[c].event.type \notin {"policy_failed", "human_review_pending", "auto_approved"}
          /\ inv[c].node = "check_policy_rules" =>
               inv[c].event.type \notin {"human_review_pending", "auto_approved"}
          /\ inv[c].node = "audit_and_report" => inv[c].event.type = "report_written"
      BY <1>1 DEF EventsOf, EarlyNodes, Nodes
    <3>2. inv[c].node \in EarlyNodes \cup {"check_policy_rules"} => BeforePolicy(c)
      BY <2>1 DEF BeforePolicy, EarlyNodes
    <3>3. BeforePolicy(c)' =>
            inv[c].node \in EarlyNodes \/ inv[c].event.type = "policy_evaluated"
      BY <2>5 DEF BeforePolicy, EarlyNodes
    <3>4. BeforePolicy(c)' => BeforePolicy(c) /\ Returning(c)
      BY <2>1, <2>5 DEF BeforePolicy, Returning
    <3>5. PolicyCallOK(c)'
      <4>1. BeforePolicy(c)' =>
              Types(t)' \cap {"human_review_pending", "auto_approved", "policy_failed"} = {}
        BY <1>2, <2>4, <2>7, <3>1, <3>3, <3>4, <1>1, PolicyFacts
      <4>2. inv[c].node = "check_policy_rules" =>
              Types(t)' \cap {"human_review_pending", "auto_approved"} = {}
        BY <1>1, <1>2, <2>4, <2>7, <3>1, PolicyFacts
      <4>3. Types(T(c))' = Types(t)' /\ V(c)' = V(c) /\ T(c)' = t /\ Returning(c)
        BY <2>1, <2>5 DEF Types, T, V, Returning
      <4> QED BY <1>1, <1>2, <2>5, <2>7, <3>4, <4>1, <4>2, <4>3, PolicyFacts
              DEF PolicyCallOK, NotApproved
    <3>6. ASSUME "policy_failed" \in Types(t)'
          PROVE  /\ Types(t)' \cap {"human_review_pending", "auto_approved"} = {}
                 /\ ckpt'[t].values.final_status \in NotApproved
                 /\ FailsClosed(c)'
      <4>1. CASE "policy_failed" \in Types(t)
        <5>1. FailsClosed(c) /\ ~BeforePolicy(c)
          BY <1>1, <1>2, <2>7, <4>1, PolicyFacts
        <5>2. inv[c].node = "audit_and_report"
          BY <1>1, <2>1, <5>1 DEF FailsClosed
        <5>3. FailsClosed(c)'
          BY <1>1, <2>1, <2>5, <5>1, <5>2 DEF FailsClosed, V
        <5> QED BY <1>1, <1>2, <2>4, <2>7, <3>1, <4>1, <5>2, <5>3, PolicyFacts
      <4>2. CASE "policy_failed" \notin Types(t)
        <5>1. inv[c].event.type = "policy_failed" /\ inv[c].node = "check_policy_rules"
          BY <2>4, <3>1, <3>6, <4>2
        <5>2. BeforePolicy(c) /\ Returning(c)
          BY <2>1, <3>2, <5>1 DEF Returning
        <5>3. /\ \A k \in unsaved[c] : k.values.final_status \in NotApproved
              /\ ckpt[t].values.final_status \in NotApproved
              /\ inv[c].result.final_status = "failed" /\ inv[c].result.route = "audit_only"
              /\ Types(t) \cap {"human_review_pending", "auto_approved"} = {}
          BY <1>1, <1>2, <2>7, <5>1, <5>2, PolicyFacts
        <5>4. FailsClosed(c)'
          BY <1>1, <2>5, <5>1, <5>3 DEF FailsClosed, NotApproved
        <5> QED BY <1>1, <2>4, <5>1, <5>3, <5>4
      <4> QED BY <4>1, <4>2
    <3> QED BY <1>1, <1>2, <2>3, <2>7, <3>5, <3>6, PolicyRunner
  <2> QED BY <2>6, <2>7
<1>4. CASE Line(c)
  <2> DEFINE s == AfterEvent(inv[c].event.type)
  <2>1. /\ inv[c].stage = "line" /\ events' = events /\ AppendLine(t, Written(c))
        /\ Becomes(c, s, inv[c].node, V(c), inv[c].result, inv[c].event, inv[c].read)
    BY <1>1, <1>2, <1>4, GoBecomes DEF Line
  <2>2. \A u \in Threads : u # t => SameThread(u)
    BY <1>1, <2>1 DEF AppendLine, SameThread, StoreTypeOK
  <2>3. /\ s \in {"interrupt", "decide", "finalize", "return"}
        /\ s = "return" \/ inv[c].node \notin EarlyNodes \cup {"check_policy_rules"}
    BY <1>1 DEF AfterEvent, EventsOf, EarlyNodes
  <2> HIDE DEF s
  <2>4. CASE Resumes(c)
    <3>1. StepOf(c)
      BY <1>1, <1>2, <2>1, <2>2, BecomesStep
    <3> QED BY <1>2, <2>1, <2>4, <3>1, PolicyResumer
  <2>5. CASE ~Resumes(c)
    BY <1>1, <1>2, <2>1, <2>2, <2>3, <2>5, PolicyMoves
  <2> QED BY <2>4, <2>5
<1> QED BY <1>3, <1>4

\* A runner pauses a thread whose policy was evaluated.
LEMMA PolicyPause ==
  ASSUME GraphInv, LifecycleInv, PolicyInv, NEW c \in Calls, http' = http, Pause(c)
  PROVE  PolicyInv'
<1>1. /\ inv[c].stage = "interrupt" /\ inv[c].stage \in Running /\ inv[c].answer = NoAnswer
      /\ inv[c].node = "human_review"
      /\ UNCHANGED <<runs, events, log, reports, faults>>
      /\ inv \in [Calls -> Invocation] /\ CkptTypeOK /\ Go(c, "returned")
      /\ MakeCheckpoint(c, "human_review", V(c), TRUE)
  BY DEF Pause, At, Running, storeVars, GraphInv, GraphTypeOK
<1>2. PICK t \in Threads : T(c) = t
  BY <1>1, RolesOfRunning
<1>3. ~Resumes(c)
  BY <1>1, RolesOfRunning DEF ResumerOK, Active, Running
<1>4. ckpt' = ckpt /\ \A d \in Calls : d # c => unsaved'[d] = unsaved[d]
  BY <1>1, MakeJoins
<1>5. Becomes(c, "returned", inv[c].node, V(c), inv[c].result, inv[c].event, inv[c].read)
  BY <1>1, GoBecomes
<1>6. StepOf(c)
  BY <1>1, <1>4, <1>5, BecomesStep DEF SameThread
<1>7. "policy_failed" \notin Types(t)
  BY <1>1, <1>2, <1>3, PolicyFacts DEF FailsClosed
<1>8. PolicyCallOK(c)'
  BY <1>5 DEF PolicyCallOK, Becomes, Running
<1> QED BY <1>1, <1>2, <1>3, <1>6, <1>7, <1>8, PolicyRunner DEF Types

\* A node returns: after a failed evaluation, to the report and from there to the end.
LEMMA PolicyReturn ==
  ASSUME GraphInv, LifecycleInv, PolicyInv, NEW c \in Calls, http' = http, Return(c)
  PROVE  PolicyInv'
<1> DEFINE next == NextNode(inv[c].node, inv[c].result)
<1>1. /\ inv[c].stage = "return" /\ inv[c].stage \in Running
      /\ inv \in [Calls -> Invocation] /\ CkptTypeOK
  BY DEF Return, Running, GraphInv, GraphTypeOK
<1>2. /\ UNCHANGED <<runs, events, log, reports, faults>>
      /\ MakeCheckpoint(c, next, inv[c].result, FALSE)
      /\ Becomes(c, IF next = "END" THEN "returned" ELSE "body", next,
                    inv[c].result, inv[c].result, inv[c].event, inv[c].read)
  BY <1>1, ReturnBecomes DEF storeVars
<1>3. /\ next = "END" <=> inv[c].node = "audit_and_report"
      /\ next \in EarlyNodes \cup {"check_policy_rules"} => inv[c].node \in EarlyNodes
      /\ inv[c].node = "parse_and_chunk_clauses" /\ inv[c].result.parse_status # "parsed" =>
           next = "audit_and_report"
      /\ inv[c].node = "check_policy_rules" /\ inv[c].result.route = "audit_only" =>
           next = "audit_and_report"
  BY DEF NextNode, AfterIngest, AfterParse, AfterPolicy, EarlyNodes
<1> HIDE DEF next
<1>4. PICK t \in Threads : T(c) = t
  BY <1>1, RolesOfRunning
<1>5. PICK k : /\ k.values = inv[c].result /\ unsaved'[c] = unsaved[c] \cup {k}
               /\ \A d \in Calls : d # c => unsaved'[d] = unsaved[d]
               /\ ckpt' = ckpt
  <2> DEFINE paused == FALSE
  <2>1. MakeCheckpoint(c, next, inv[c].result, paused)
    BY <1>2
  <2> HIDE DEF paused
  <2> QED BY <1>1, <2>1, MakeJoins
<1>6. /\ inv'[c].stage \in {"body", "returned"} /\ inv'[c].node = next
      /\ inv'[c].stage = "returned" <=> next = "END"
      /\ inv'[c].thread = t
      /\ inv'[c].values = inv[c].result /\ inv'[c].result = inv[c].result
  BY <1>2, <1>4 DEF Becomes
<1>7. StepOf(c)
  BY <1>2, <1>5, <1>6, BecomesStep DEF SameThread
<1>8. Returning(c) /\ ~Returning(c)' /\ "returned" \notin Running
  BY <1>1, <1>6 DEF Returning, Running
<1>9. /\ Types(t)' = Types(t) /\ Types(T(c))' = Types(t) /\ T(c)' = t /\ V(c)' = inv[c].result
  BY <1>2, <1>6 DEF Types, T, V
<1>10. CASE Resumes(c)
  BY <1>2, <1>4, <1>7, <1>10, PolicyResumer
<1>11. CASE ~Resumes(c)
  <2>1. inv[c].node \in EarlyNodes => BeforePolicy(c)
    BY DEF BeforePolicy, EarlyNodes
  <2>2. PolicyCallOK(c)'
    <3>1. CASE next \in EarlyNodes \cup {"check_policy_rules"}
      <4>1. /\ Types(t) \cap {"human_review_pending", "auto_approved", "policy_failed"} = {}
            /\ ckpt[t].values.final_status \in NotApproved
            /\ \A x \in unsaved[c] : x.values.final_status \in NotApproved
            /\ \/ inv[c].result.final_status \in NotApproved
               \/ /\ inv[c].node = "parse_and_chunk_clauses"
                  /\ inv[c].result.parse_status # "parsed"
        BY <1>1, <1>3, <1>4, <1>8, <1>11, <2>1, <3>1, PolicyFacts
      <4>2. inv[c].result.final_status \in NotApproved
        BY <1>3, <3>1, <4>1 DEF EarlyNodes
      <4>3. \A x \in unsaved'[c] : x.values.final_status \in NotApproved
        BY <1>5, <4>1, <4>2
      <4> QED BY <1>5, <1>6, <1>8, <1>9, <4>1, <4>2, <4>3 DEF PolicyCallOK, NotApproved
    <3>2. CASE next \notin EarlyNodes \cup {"check_policy_rules"}
      BY <1>6, <3>2 DEF PolicyCallOK, BeforePolicy, EarlyNodes
    <3> QED BY <3>1, <3>2
  <2>3. ASSUME "policy_failed" \in Types(t)
        PROVE  /\ Types(t) \cap {"human_review_pending", "auto_approved"} = {}
               /\ ckpt[t].values.final_status \in NotApproved
               /\ FailsClosed(c)'
    <3>1. /\ Types(t) \cap {"human_review_pending", "auto_approved"} = {}
          /\ ckpt[t].values.final_status \in NotApproved
          /\ FailsClosed(c)
      BY <1>1, <1>4, <1>11, <2>3, PolicyFacts
    <3>2. /\ inv[c].result.final_status = "failed"
          /\ next \in {"audit_and_report", "END"}
      BY <1>1, <1>3, <3>1 DEF FailsClosed
    <3>3. \A x \in unsaved'[c] : x.values.final_status \in {"failed", Null}
      BY <1>5, <3>1, <3>2 DEF FailsClosed
    <3>4. inv'[c].stage \in Running => /\ inv'[c].node = "audit_and_report"
                                      /\ inv'[c].stage = "body"
      BY <1>6, <1>8, <3>2
    <3>5. FailsClosed(c)'
      BY <1>9, <3>2, <3>3, <3>4 DEF FailsClosed
    <3> QED BY <3>1, <3>5
  <2> QED BY <1>1, <1>4, <1>5, <1>7, <1>9, <1>11, <2>2, <2>3, PolicyRunner
<1> QED BY <1>10, <1>11

\* Every step of a node, and of the loop around the nodes.
LEMMA PolicyNodeStep ==
  ASSUME GraphInv, LifecycleInv, PolicyInv, NEW c \in Calls, http' = http, NodeStep(c)
  PROVE  PolicyInv'
BY PolicyEarly, PolicyLate, PolicyWrites, PolicyPause, PolicyReturn DEF NodeStep

\* The checkpoint writer saves what the calls of the thread have made.
LEMMA PolicySave ==
  ASSUME GraphInv, LifecycleInv, PolicyInv, NEW c \in Calls, http' = http, Save(c)
  PROVE  PolicyInv'
<1>1. /\ UNCHANGED <<runs, events, log, reports, inv, faults>>
      /\ T(c) \in Threads /\ Active(c)
      /\ \A d \in Calls : d # c => unsaved'[d] = unsaved[d]
      /\ \A t \in Threads : t # T(c) => ckpt'[t] = ckpt[t]
  BY SaveParts DEF LifecycleInv
<1>2. PICK t \in Threads : T(c) = t
  BY <1>1
<1>3. PICK k \in unsaved[c] :
        /\ unsaved'[c] = unsaved[c] \ {k}
        /\ ckpt'[t] = IF k.id > ckpt[t].id THEN k ELSE ckpt[t]
  BY <1>2, SaveParts DEF LifecycleInv
<1>4. StepOf(c)
  BY <1>1, <1>2 DEF StepOf, SameThread, T
<1>5. \A d \in Calls : FailsClosed(d) => FailsClosed(d)'
  BY <1>1, <1>3 DEF FailsClosed, V
<1>6. /\ Types(t)' = Types(t) /\ Types(T(c))' = Types(t) /\ T(c)' = t /\ V(c)' = V(c)
      /\ \A d \in Calls : T(d)' = T(d)
  BY <1>1, <1>2 DEF Types, T, V
<1>7. PolicyHolds(t)'
  <2>1. ASSUME "policy_failed" \in Types(t)
        PROVE  /\ Types(t) \cap {"human_review_pending", "auto_approved"} = {}
               /\ ckpt'[t].values.final_status \in {"failed", Null}
               /\ \A d \in Calls : T(d) = t => FailsClosed(d)'
    <3>1. /\ Types(t) \cap {"human_review_pending", "auto_approved"} = {}
          /\ ckpt[t].values.final_status \in {"failed", Null}
          /\ \A d \in Calls : T(d) = t => FailsClosed(d)
      BY <2>1 DEF PolicyInv, PolicyHolds
    <3>2. k.values.final_status \in {"failed", Null}
      BY <1>2, <3>1 DEF FailsClosed
    <3> QED BY <1>3, <1>5, <3>1, <3>2
  <2> QED BY <1>6, <2>1 DEF PolicyHolds
<1>8. PolicyCallOK(c)'
  <2>1. PolicyCallOK(c)
    BY DEF PolicyInv
  <2>2. BeforePolicy(c)' = BeforePolicy(c) /\ Returning(c)' = Returning(c)
        /\ Resumes(c)' = Resumes(c)
    BY <1>1 DEF BeforePolicy, Returning, Resumes
  <2> QED BY <1>1, <1>2, <1>3, <1>6, <2>1, <2>2 DEF PolicyCallOK
<1> QED BY <1>2, <1>4, <1>7, <1>8, PolicyStep

\* A failed statement.
LEMMA PolicyFault ==
  ASSUME GraphInv, LifecycleInv, PolicyInv, NEW c \in Calls, http' = http, StatementFails(c)
  PROVE  PolicyInv'
<1>1. /\ inv[c].stage \in Running
      /\ UNCHANGED <<runs, events, log, reports, unsaved>>
      /\ faults' > 0
      /\ \A t \in Threads : ckpt'[t].values = ckpt[t].values
      /\ \A t \in Threads : t # T(c) => ckpt'[t] = ckpt[t]
  BY FaultParts
<1>2. PICK t \in Threads : T(c) = t
  BY <1>1, RolesOfRunning
<1>3. \A u \in Threads : u # t => SameThread(u)
  BY <1>1, <1>2 DEF SameThread
<1>4. inv \in [Calls -> Invocation] /\ ShapeOK(c)
  BY DEF GraphInv, GraphTypeOK, LifecycleInv, ShapeInv
<1>5. CASE Becomes(c, "raised", inv[c].node, V(c), inv[c].result, inv[c].event, inv[c].read)
  <2>1. "raised" \notin Running
    BY DEF Running
  <2>2. CASE ~Resumes(c)
    BY <1>1, <1>2, <1>3, <1>5, <2>1, <2>2, PolicyMoves
  <2>3. CASE Resumes(c)
    <3>1. StepOf(c)
      BY <1>1, <1>2, <1>3, <1>5, BecomesStep
    <3> QED BY <1>1, <1>2, <2>3, <3>1, PolicyResumer
  <2> QED BY <2>2, <2>3
<1>6. ASSUME NEW type, inv[c].stage \in {"insert", "line"},
             inv[c].event.type \in {"extracted", "policy_evaluated"},
             Emit(c, type, Null, FailedValues(c)), UNCHANGED ckpt
      PROVE  PolicyInv'
  <2>1. inv[c].node \in {"extract_details_and_flag_risk", "check_policy_rules"}
    BY <1>1, <1>4, <1>6 DEF ShapeOK, EventsOf
  <2>2. ~Resumes(c)
    BY <1>1, <2>1, RolesOfRunning DEF ResumerOK
  <2>3. inv[c].node = "check_policy_rules" => BeforePolicy(c)
    BY <1>4, <1>6 DEF ShapeOK, EventsOf, BeforePolicy
  <2>4. FailedValues(c).final_status = "failed" /\ FailedValues(c).route = "audit_only"
    BY <1>1, CallFacts DEF FailedValues, Values
  <2> QED BY <1>1, <1>2, <1>3, <1>6, <2>1, <2>2, <2>3, <2>4, PolicyEmits
<1>7. Becomes(c, "raised", inv[c].node, V(c), inv[c].result, inv[c].event, inv[c].read)
      \/ UNCHANGED ckpt
  <2>1. Go(c, "raised") \/ UNCHANGED ckpt
    BY DEF StatementFails, ckptVars
  <2> QED BY <1>4, <2>1, GoBecomes
<1> QED BY <1>5, <1>6, <1>7, FaultParts

--------------------------------------------------------------------------------
(* Crashes and the endpoints. *)

\* The process stops: nobody runs, and nothing unsaved is left.
LEMMA PolicyCrash ==
  ASSUME GraphInv, PolicyInv, CrashStep
  PROVE  PolicyInv'
<1>1. /\ unsaved' = [c \in Calls |-> {}]
      /\ ckpt' = ckpt \/ ckpt' = [t \in Threads |-> NoCheckpoint]
      /\ inv' = [c \in Calls |-> IF Active(c) THEN Over(c, "dead") ELSE inv[c]]
      /\ events' = events
  BY DEF CrashStep, Crash, LoseUnsaved, storeVars
<1>2. ASSUME NEW c \in Calls
      PROVE  T(c)' = T(c) /\ inv'[c].stage \notin Running /\ unsaved'[c] = {}
  BY <1>1 DEF Over, NoInvocation, T, Active, Running
<1>3. ASSUME NEW t \in Threads PROVE PolicyHolds(t)'
  <2>1. ckpt'[t] = ckpt[t] \/ ckpt'[t].values.final_status = Null
    BY <1>1 DEF NoCheckpoint, NoValues
  <2>2. \A c \in Calls : FailsClosed(c)'
    BY <1>2 DEF FailsClosed
  <2> QED BY <1>1, <1>2, <2>1, <2>2 DEF PolicyInv, PolicyHolds, Types
<1>4. \A c \in Calls : PolicyCallOK(c)'
  BY <1>2 DEF PolicyCallOK
<1> QED BY <1>3, <1>4 DEF PolicyInv

\* The endpoints answer.
LEMMA PolicyRespond ==
  ASSUME GraphInv, HttpOK, LifecycleInv, PolicyInv, NEW c \in Calls,
         Respond(c) \/ RespondError(c)
  PROVE  PolicyInv'
<1>1. /\ inv[c].stage \in {"returned", "raised"}
      /\ inv' = [inv EXCEPT ![c] = Over(c, "done")]
      /\ UNCHANGED <<runs, events, log, reports, ckpt, unsaved, faults>>
      /\ inv \in [Calls -> Invocation]
  BY DEF Respond, RespondError, storeVars, ckptVars, GraphInv, GraphTypeOK
<1>2. T(c) \in Threads
  BY <1>1 DEF Active, GraphInv, CallOK, T
<1>3. PICK t \in Threads : T(c) = t
  BY <1>2
<1>4. /\ inv'[c].stage = "done" /\ inv'[c].thread = t /\ "done" \notin Running
      /\ \A d \in Calls : d # c => inv'[d] = inv[d]
  BY <1>1, <1>3 DEF Over, NoInvocation, Running
<1>5. StepOf(c)
  BY <1>1, <1>3, <1>4, ResponseAsked DEF StepOf, SameThread
<1>6. \A d \in Calls : (FailsClosed(d) => FailsClosed(d)') /\ T(d)' = T(d)
  BY <1>1, <1>3, <1>4 DEF FailsClosed, V, T
<1>7. PolicyHolds(t)'
  BY <1>1, <1>6 DEF PolicyInv, PolicyHolds, Types
<1>8. PolicyCallOK(c)'
  BY <1>4 DEF PolicyCallOK
<1> QED BY <1>3, <1>5, <1>7, <1>8, PolicyStep

\* The invocation of a resume begins.
LEMMA PolicyInvoke ==
  ASSUME GraphInv, LifecycleInv, PolicyInv, NEW c \in Calls, InvokeResume(c)
  PROVE  PolicyInv'
<1>1. /\ inv[c].stage = "checked" /\ Resume(c, T(c), inv[c].answer)
      /\ UNCHANGED <<runs, events, log, reports, ckpt, unsaved, faults, http>>
      /\ inv \in [Calls -> Invocation]
  BY DEF InvokeResume, Resume, storeVars, ckptVars, GraphInv, GraphTypeOK
<1>2. RoleOK(c) /\ T(c) \in Threads
  BY <1>1 DEF LifecycleInv, Active, GraphInv, CallOK, T
<1>3. Resumes(c)
  BY <1>1, <1>2 DEF RoleOK, RunnerOK, Active
<1>4. /\ inv'[c].thread = T(c)
      /\ \A d \in Calls : d # c => inv'[d] = inv[d]
  BY <1>1 DEF Resume, NoInvocation
<1>5. StepOf(c)
  BY <1>1, <1>4 DEF StepOf, SameThread
<1> QED BY <1>1, <1>2, <1>3, <1>5, PolicyResumer

\* A call that comes to a thread, and does not run yet unless the thread is new.
LEMMA PolicyComes ==
  ASSUME GraphInv, LifecycleInv, PolicyInv, NEW c \in Calls, T(c) \notin Threads,
         unsaved[c] = {}, \A d \in Calls : d # c => inv'[d] = inv[d] /\ unsaved'[d] = unsaved[d]
                                                    /\ http'[d] = http[d],
         UNCHANGED <<events, ckpt>>, PolicyCallOK(c)',
         T(c)' \in Threads => FailsClosed(c)' \/ "policy_failed" \notin Types(T(c)')
  PROVE  PolicyInv'
<1>1. ASSUME NEW d \in Calls, d # c
      PROVE  /\ T(d)' = T(d) /\ PolicyCallOK(d)'
             /\ FailsClosed(d) => FailsClosed(d)'
  <2>1. PolicyCallOK(d) /\ inv'[d] = inv[d] /\ unsaved'[d] = unsaved[d] /\ http'[d] = http[d]
    BY <1>1 DEF PolicyInv
  <2> QED BY <2>1 DEF PolicyCallOK, BeforePolicy, Returning, FailsClosed, Types, V, T, Resumes
<1>2. ASSUME NEW t \in Threads PROVE PolicyHolds(t)'
  BY <1>1 DEF PolicyInv, PolicyHolds, Types
<1> QED BY <1>1, <1>2 DEF PolicyInv

\* run_contract begins, on a thread without events.
LEMMA PolicyRun ==
  ASSUME GraphInv, LifecycleInv, PolicyInv, NEW c \in Calls, RunContract(c)
  PROVE  PolicyInv'
<1>1. PICK t \in Threads, doc \in Documents :
        /\ \A other \in Calls : T(other) # t
        /\ Start(c, t, doc)
  BY ApiAssumption DEF RunContract
<1>2. /\ inv[c].stage = "idle" /\ RoleOK(c) /\ ShapeOK(c)
      /\ UNCHANGED <<runs, events, log, reports, faults, http>>
      /\ inv \in [Calls -> Invocation] /\ CkptTypeOK
      /\ MakeCheckpoint(c, "ingest_contract", ckpt[t].values, FALSE)
  BY <1>1 DEF RunContract, Start, LifecycleInv, ShapeInv, storeVars, GraphInv, GraphTypeOK
<1>3. /\ ~Resumes(c) /\ T(c) = Null /\ unsaved[c] = {}
  BY <1>2 DEF RoleOK, ShapeOK, Active, Running
<1>4. /\ events[t] = {} /\ ckpt[t] = NoCheckpoint
  BY <1>1 DEF LifecycleInv, ThreadOK, Untouched
<1>5. ckpt[t].values.final_status = Null
  BY <1>4 DEF NoCheckpoint, NoValues
<1>6. /\ inv'[c].stage = "body" /\ inv'[c].node = "ingest_contract" /\ inv'[c].thread = t
      /\ inv'[c].values = ckpt[t].values
      /\ \A d \in Calls : d # c => inv'[d] = inv[d]
  BY <1>1, <1>2 DEF Start, NoInvocation
<1>7. PICK k : /\ k.values = ckpt[t].values
               /\ unsaved'[c] = unsaved[c] \cup {k}
               /\ \A d \in Calls : d # c => unsaved'[d] = unsaved[d]
               /\ ckpt' = ckpt
  <2> DEFINE paused == FALSE
  <2>1. MakeCheckpoint(c, "ingest_contract", ckpt[t].values, paused)
    BY <1>2
  <2> HIDE DEF paused
  <2> QED BY <1>2, <2>1, MakeJoins
<1>8. PolicyCallOK(c)'
  <2>1. Types(T(c))' = {} /\ T(c)' = t /\ V(c)' = ckpt[t].values /\ ~Returning(c)'
    BY <1>2, <1>4, <1>6 DEF Types, T, V, Returning
  <2>2. \A x \in unsaved'[c] : x.values.final_status = Null
    BY <1>3, <1>5, <1>7
  <2> QED BY <1>5, <1>7, <2>1, <2>2, <1>6 DEF PolicyCallOK
<1>9. "policy_failed" \notin Types(T(c)')
  BY <1>4, <1>6 DEF Types, T
<1>10. T(c) \notin Threads
  BY <1>3, ThreadsAssumption
<1> QED BY <1>2, <1>3, <1>6, <1>7, <1>8, <1>9, <1>10, PolicyComes

\* resume_contract looks at the thread.
LEMMA PolicyCheck ==
  ASSUME GraphInv, HttpOK, LifecycleInv, PolicyInv, NEW c \in Calls, ResumeCheck(c)
  PROVE  PolicyInv'
<1>1. /\ inv[c].stage = "idle" /\ RoleOK(c) /\ ShapeOK(c)
      /\ UNCHANGED <<events, ckpt, unsaved>>
      /\ inv \in [Calls -> Invocation] /\ http \in [Calls -> Http]
  BY DEF ResumeCheck, LifecycleInv, ShapeInv, storeVars, ckptVars, GraphInv, GraphTypeOK, HttpOK
<1>2. T(c) = Null /\ unsaved[c] = {}
  BY <1>1 DEF RoleOK, ShapeOK, Active, Running
<1>3. /\ inv'[c].stage \in {"checked", "done"}
      /\ \A d \in Calls : d # c => inv'[d] = inv[d] /\ http'[d] = http[d]
  <2>1. ASSUME NEW a, NEW t,
               inv' = [inv EXCEPT ![c] = [NoInvocation EXCEPT !.stage = "checked",
                                                              !.thread = t, !.answer = a]]
        PROVE  inv'[c].stage = "checked"
    BY <1>1, <2>1 DEF NoInvocation
  <2>2. (\E a, t : inv' = [inv EXCEPT ![c] = [NoInvocation EXCEPT !.stage = "checked",
                                                                 !.thread = t, !.answer = a]])
        \/ inv' = [inv EXCEPT ![c].stage = "done"]
    BY DEF ResumeCheck
  <2>3. \A d \in Calls : d # c => inv'[d] = inv[d]
    BY <1>1, <2>2
  <2>4. \A d \in Calls : d # c => http'[d] = http[d]
    BY <1>1 DEF ResumeCheck
  <2>5. inv'[c].stage \in {"checked", "done"}
    BY <1>1, <2>1, <2>2 DEF Invocation
  <2> QED BY <2>3, <2>4, <2>5
<1>4. inv'[c].stage \notin Running
  BY <1>3 DEF Running
<1>5. PolicyCallOK(c)' /\ FailsClosed(c)'
  BY <1>1, <1>2, <1>4 DEF PolicyCallOK, FailsClosed
<1>6. T(c) \notin Threads
  BY <1>2, ThreadsAssumption
<1> QED BY <1>1, <1>2, <1>3, <1>5, <1>6, PolicyComes

--------------------------------------------------------------------------------
(* The theorem. *)

\* PolicyInv holds of every behaviour, from the first state on.
LEMMA PolicyInvariance == Spec => []PolicyInv
<1>1. Init => PolicyInv
  <2> SUFFICES ASSUME Init PROVE PolicyInv
    OBVIOUS
  <2>1. /\ \A c \in Calls : inv[c].stage = "idle" /\ T(c) = Null
        /\ \A t \in Threads : events[t] = {}
    BY DEF Init, GraphInit, NoInvocation, StoreInit, T
  <2> QED BY <2>1 DEF PolicyInv, PolicyHolds, PolicyCallOK, Types, Running
<1>2. GraphInv /\ HttpOK /\ LifecycleInv /\ PolicyInv /\ [Next]_vars => PolicyInv'
  <2> SUFFICES ASSUME GraphInv, HttpOK, LifecycleInv, PolicyInv, [Next]_vars
               PROVE  PolicyInv'
    OBVIOUS
  <2>1. ASSUME NEW c \in Calls,
               RunContract(c) \/ ResumeCheck(c) \/ InvokeResume(c) \/ Respond(c)
                 \/ RespondError(c)
        PROVE  PolicyInv'
    BY <2>1, PolicyRun, PolicyCheck, PolicyInvoke, PolicyRespond
  <2>2. ASSUME NEW c \in Calls, GraphStep(c)
        PROVE  PolicyInv'
    BY <2>2, PolicyNodeStep, PolicySave, PolicyFault DEF GraphStep
  <2>3. CASE CrashStep
    BY <2>3, PolicyCrash
  <2>4. CASE UNCHANGED vars
    <3>1. UNCHANGED <<inv, unsaved, ckpt, events, http>>
      BY <2>4 DEF vars, storeVars, ckptVars
    <3>2. \A c \in Calls : (FailsClosed(c) => FailsClosed(c)') /\ T(c)' = T(c)
      BY <3>1 DEF FailsClosed, V, T
    <3>3. \A t \in Threads : PolicyHolds(t)'
      BY <3>1, <3>2 DEF PolicyInv, PolicyHolds, Types
    <3>4. \A c \in Calls : PolicyCallOK(c)'
      BY <3>1 DEF PolicyInv, PolicyCallOK, BeforePolicy, Returning, Types, V, T, Resumes
    <3> QED BY <3>3, <3>4 DEF PolicyInv
  <2> QED BY <2>1, <2>2, <2>3, <2>4 DEF Next
<1> QED BY <1>1, <1>2, ReviewLifecycleInvariance, PTL DEF Spec

\* A run whose policy evaluation failed is never put before a reviewer and never approved,
\* whatever fails and whatever calls of its thread there are.
THEOREM ReviewPolicyFailsClosed == Spec => []PolicyFailsClosed
<1>1. PolicyInv => PolicyFailsClosed
  BY DEF PolicyInv, PolicyHolds, PolicyFailsClosed
<1> QED BY <1>1, PolicyInvariance, PTL

--------------------------------------------------------------------------------
(* The inbox: frames. *)

\* A step of a node touches its own thread only.
LEMMA NodeStepOf ==
  ASSUME GraphInv, LifecycleInv, NEW c \in Calls, NodeStep(c), http' = http
  PROVE  StepOf(c) /\ faults' = faults
BY NodeStepGoes, NodeStepFrame DEF StepOf, LifecycleInv

\* While nothing has gone wrong, nothing had gone wrong before a step of call c.
LEMMA SmoothBefore ==
  ASSUME GraphInv, LifecycleInv, Smooth', NEW c \in Calls,
         Active(c) \/ inv[c].stage = "idle",
         \A d \in Calls : d # c => http'[d] = http[d],
         faults > 0 => faults' > 0
  PROVE  Smooth
<1>1. http[c].code = 0
  BY DEF LifecycleInv, RoleOK
<1>2. faults \in Nat /\ faults' = 0
  BY GraphAssumption DEF GraphInv, GraphTypeOK, Smooth
<1>3. faults = 0
  BY <1>2
<1> QED BY <1>1, <1>3 DEF Smooth

\* A step of call c leaves the inbox of other threads alone.
LEMMA InboxStep ==
  ASSUME GraphInv, LifecycleInv, InboxInv, NEW c \in Calls, NEW t \in Threads, T(c) = t,
         Active(c), StepOf(c), Smooth' /\ InboxOK(t) => InboxOK(t)'
  PROVE  InboxInv'
<1> SUFFICES ASSUME Smooth', NEW u \in Threads PROVE InboxOK(u)'
  BY DEF InboxInv
<1>1. Smooth
  BY SmoothBefore DEF StepOf
<1>2. InboxOK(u) /\ InboxOK(t)
  BY <1>1 DEF InboxInv
<1>3. CASE u # t
  <2>1. ckpt'[u] = ckpt[u] /\ runs'[u] = runs[u]
    BY <1>3 DEF StepOf, SameThread
  <2>2. \A d \in Calls : (T(d)' = u <=> T(d) = u)
    BY StepKeepsThreads DEF T
  <2>3. \A d \in Calls : T(d) = u => /\ inv'[d] = inv[d] /\ unsaved'[d] = unsaved[d]
                                     /\ http'[d] = http[d]
    BY <1>3 DEF StepOf
  <2>4. Awaits(u)' <=> Awaits(u)
    BY <2>1, <2>2, <2>3 DEF Awaits, Interrupted
  <2>5. \A d \in Calls : T(d) = u =>
          /\ Resumes(d)' = Resumes(d) /\ Active(d)' = Active(d) /\ Owing(d)' = Owing(d)
          /\ inv'[d].stage = inv[d].stage
    BY <2>3 DEF Resumes, Active, Owing, At
  <2> QED BY <1>2, <2>1, <2>2, <2>4, <2>5 DEF InboxOK
<1> QED BY <1>2, <1>3

\* Once the thread is resumed, nobody has a pause left to save.
LEMMA AwaitsResumed ==
  ASSUME LifecycleInv, NEW c \in Calls, Resumes(c), NEW t \in Threads, T(c) = t
  PROVE  /\ \A d \in Calls : T(d) = t => \A k \in unsaved[d] : ~k.paused
         /\ Awaits(t) <=> ckpt[t].paused
<1>1. ASSUME NEW d \in Calls, T(d) = t, NEW k \in unsaved[d] PROVE ~k.paused
  <2>1. Active(d) /\ RoleOK(d)
    BY <1>1 DEF LifecycleInv, ShapeInv, ShapeOK
  <2>2. CASE Resumes(d)
    BY <1>1, <2>1, <2>2 DEF RoleOK, ResumerOK
  <2>3. CASE ~Resumes(d)
    BY <1>1, <2>1, <2>3 DEF RoleOK, RunnerOK, Alone
  <2> QED BY <2>2, <2>3
<1> QED BY <1>1 DEF Awaits, Interrupted

--------------------------------------------------------------------------------
(* The inbox: steps of a node. *)

\* A runner, alone on its thread.
LEMMA InboxRunner ==
  ASSUME GraphInv, LifecycleInv, InboxInv, LifecycleInv', NEW c \in Calls, ~Resumes(c),
         http' = http, NodeStep(c)
  PROVE  InboxInv'
<1>1. /\ inv[c].stage \in Running /\ StepOf(c)
      /\ inv'[c].stage \in Running \cup {"raised", "returned"}
      /\ inv'[c].stage = "returned" =>
           Pause(c) \/ (Return(c) /\ inv[c].node = "audit_and_report")
  BY NodeStepGoes, NodeStepOf DEF LifecycleInv
<1>2. PICK t \in Threads : T(c) = t
  BY <1>1, RolesOfRunning
<1>3. /\ Active(c) /\ RunnerOK(c) /\ Alone(c)
      /\ \A d \in Calls : T(d)' = t <=> d = c
  BY <1>1, <1>2, RolesOfRunning, StepKeepsThreads DEF Alone, Active, T
<1>4. RunnerOK(c)' /\ ~Resumes(c)'
  BY <1>1 DEF LifecycleInv, RoleOK, Active, Resumes
<1>5. ASSUME Smooth' PROVE InboxOK(t)'
  <2>1. faults' = 0
    BY <1>5 DEF Smooth
  <2>2. CASE inv'[c].stage \in Running \cup {"raised"}
    <3>1. ~Awaits(t)'
      BY <1>2, <1>3, <1>4, <2>2 DEF RunnerOK, Awaits, Interrupted, T
    <3>2. inv'[c].stage \in Running => Owing(c)'
      BY <1>4 DEF Owing
    <3>3. inv'[c].stage = "raised" => runs'[t].review_status # "pending"
      BY <1>3, <1>4, <2>1 DEF RunnerOK
    <3> QED BY <1>3, <2>2, <3>1, <3>2, <3>3 DEF InboxOK
  <2>3. CASE Pause(c)
    <3>1. /\ inv[c].stage = "interrupt" /\ runs' = runs
          /\ MakeCheckpoint(c, "human_review", V(c), TRUE) /\ CkptTypeOK
      BY <2>3 DEF Pause, At, storeVars, GraphInv
    <3>2. runs'[t].review_status = "pending"
      BY <1>1, <1>2, <1>3, <3>1 DEF RunnerOK, Marking
    <3>3. \E k \in unsaved'[c] : k.paused = TRUE
      <4> DEFINE paused == TRUE
      <4>1. MakeCheckpoint(c, "human_review", V(c), paused)
        BY <3>1
      <4> HIDE DEF paused
      <4>2. \E k \in unsaved'[c] : k.paused = paused
        BY <3>1, <4>1, MakeJoins
      <4> QED BY <4>2 DEF paused
    <3>4. Awaits(t)'
      BY <1>3, <3>3 DEF Awaits
    <3> QED BY <1>3, <1>4, <3>2, <3>4 DEF InboxOK
  <2>4. CASE Return(c) /\ inv[c].node = "audit_and_report"
    <3>1. /\ inv[c].stage = "return" /\ runs' = runs /\ CkptTypeOK
          /\ inv \in [Calls -> Invocation]
          /\ MakeCheckpoint(c, NextNode(inv[c].node, inv[c].result), inv[c].result, FALSE)
      BY <2>4 DEF Return, storeVars, GraphInv, GraphTypeOK
    <3>2. runs'[t].review_status # "pending"
      BY <1>1, <1>2, <1>3, <3>1 DEF RunnerOK, Marking, Writing
    <3>3. ckpt' = ckpt /\ \A k \in unsaved'[c] : k \in unsaved[c] \/ k.paused = FALSE
      <4> DEFINE paused == FALSE
                 next == NextNode(inv[c].node, inv[c].result)
      <4>1. MakeCheckpoint(c, next, inv[c].result, paused)
        BY <3>1
      <4> HIDE DEF paused, next
      <4>2. ckpt' = ckpt /\ \A k \in unsaved'[c] : k \in unsaved[c] \/ k.paused = paused
        BY <3>1, <4>1, MakeJoins
      <4> QED BY <4>2 DEF paused
    <3>4. ~ckpt[t].paused /\ \A k \in unsaved[c] : ~k.paused
      BY <1>1, <1>2, <1>3 DEF RunnerOK
    <3>5. ~Awaits(t)'
      BY <1>3, <3>3, <3>4 DEF Awaits, Interrupted
    <3> QED BY <3>2, <3>5 DEF InboxOK
  <2> QED BY <1>1, <2>2, <2>3, <2>4
<1> QED BY <1>1, <1>2, <1>3, <1>5, InboxStep

\* A resumer: somebody is at the thread, and sees to its row until the row is final.
LEMMA InboxResumer ==
  ASSUME GraphInv, LifecycleInv, InboxInv, NEW c \in Calls, Resumes(c),
         http' = http, NodeStep(c)
  PROVE  InboxInv'
<1>1. /\ inv[c].stage \in Running /\ StepOf(c)
      /\ inv'[c].stage \in Running \cup {"raised", "returned"}
      /\ inv'[c].stage = "returned" =>
           Pause(c) \/ (Return(c) /\ inv[c].node = "audit_and_report")
      /\ At(c, "audit_and_report", "return")' => Finalize(c)
  BY NodeStepGoes, NodeStepOf DEF LifecycleInv
<1>2. PICK t \in Threads : T(c) = t
  BY <1>1, RolesOfRunning
<1>3. Active(c) /\ ResumerOK(c) /\ inv[c].stage # "checked"
  BY <1>1, RolesOfRunning DEF Active, Running
<1>4. /\ Resumes(c)' /\ T(c)' = t /\ Active(c)' /\ inv'[c].stage # "checked"
  BY <1>1, <1>2, StepKeepsThreads DEF Resumes, T, Active, Running
<1>5. ASSUME InboxOK(t) PROVE InboxOK(t)'
  <2>1. CASE inv'[c].stage = "raised" \/ Owing(c)'
    BY <1>4, <2>1 DEF InboxOK
  <2>2. CASE Finalize(c)
    <3>1. /\ inv[c].node = "audit_and_report" /\ FinalizeRun(t, V(c))
          /\ runs \in [Threads -> Row]
      BY <1>2, <2>2 DEF Finalize, At, GraphInv, StoreTypeOK
    <3>2. V(c).review_status = "completed" /\ runs[t].exists
      BY <1>1, <1>2, <1>3, <3>1 DEF ResumerOK, PutForward
    <3>3. runs'[t].review_status = "completed"
      BY <3>1, <3>2 DEF FinalizeRun, DefaultReviewStatus, Coalesce, Null
    <3> QED BY <1>4, <3>3 DEF InboxOK
  <2>3. CASE Return(c) /\ inv[c].node = "audit_and_report"
    <3>1. runs' = runs /\ ~Owing(c) /\ inv[c].stage # "raised"
      BY <2>3 DEF Return, storeVars, Owing, At
    <3>2. ASSUME runs[t].review_status = "pending"
          PROVE  \E d \in Calls : T(d)' = t /\ (Owing(d)' \/ (Resumes(d)' /\ inv'[d].stage = "raised"))
      <4>1. PICK d \in Calls : T(d) = t /\ (Owing(d) \/ (Resumes(d) /\ inv[d].stage = "raised"))
        BY <1>2, <1>3, <1>5, <3>2 DEF InboxOK
      <4>2. d # c
        BY <3>1, <4>1
      <4>3. inv'[d] = inv[d] /\ http'[d] = http[d]
        BY <1>1, <4>2 DEF StepOf
      <4> QED BY <4>1, <4>3 DEF T, Owing, Resumes, At
    <3> QED BY <1>4, <3>1, <3>2 DEF InboxOK
  <2>4. ~Pause(c)
    BY <1>3 DEF Pause, ResumerOK
  <2>5. inv'[c].stage \in Running /\ ~At(c, "audit_and_report", "return")' => Owing(c)'
    BY DEF Owing
  <2> QED BY <1>1, <2>1, <2>2, <2>3, <2>4, <2>5
<1> QED BY <1>1, <1>2, <1>3, <1>5, InboxStep

--------------------------------------------------------------------------------
(* The inbox: saving, answering, arriving. *)

\* Saving a pause does not change whether its thread waits.
LEMMA InboxSave ==
  ASSUME GraphInv, LifecycleInv, InboxInv, NEW c \in Calls, http' = http, Save(c)
  PROVE  InboxInv'
<1>1. /\ UNCHANGED <<runs, events, log, reports, inv, faults>>
      /\ T(c) \in Threads /\ Active(c)
      /\ \A d \in Calls : d # c => unsaved'[d] = unsaved[d]
      /\ \A t \in Threads : t # T(c) => ckpt'[t] = ckpt[t]
  BY SaveParts DEF LifecycleInv
<1>2. PICK t \in Threads : T(c) = t
  BY <1>1
<1>3. PICK k \in unsaved[c] :
        /\ unsaved'[c] = unsaved[c] \ {k}
        /\ ckpt'[t] = IF k.id > ckpt[t].id THEN k ELSE ckpt[t]
  BY <1>2, SaveParts DEF LifecycleInv
<1>4. StepOf(c)
  BY <1>1, <1>2 DEF StepOf, SameThread, T
<1>5. Awaits(t)' => Awaits(t)
  BY <1>1, <1>2, <1>3 DEF Awaits, Interrupted, T
<1>6. \A d \in Calls : /\ T(d)' = T(d) /\ Resumes(d)' = Resumes(d) /\ Active(d)' = Active(d)
                       /\ Owing(d)' = Owing(d)
  BY <1>1 DEF T, Resumes, Active, Owing, At
<1>7. ASSUME Awaits(t), \A d \in Calls : T(d) = t /\ Resumes(d) => inv[d].stage = "checked"
      PROVE  Awaits(t)'
  <2>1. ~Resumes(c)
    BY <1>1, <1>2, <1>3, <1>7 DEF LifecycleInv, RoleOK, ResumerOK
  <2>2. RunnerOK(c)
    BY <1>1, <2>1 DEF LifecycleInv, RoleOK
  <2>3. k.id > ckpt[t].id /\ ~ckpt[t].paused
    BY <1>2, <1>3, <2>2 DEF RunnerOK
  <2>4. PICK d \in Calls : \E x : T(d) = t /\ x \in unsaved[d] /\ x.paused
    BY <1>7, <2>3 DEF Awaits, Interrupted
  <2>5. PICK x : T(d) = t /\ x \in unsaved[d] /\ x.paused
    BY <2>4
  <2>6. CASE d = c /\ x = k
    BY <1>3, <2>3, <2>5, <2>6 DEF Awaits, Interrupted
  <2>7. CASE ~(d = c /\ x = k)
    BY <1>1, <1>3, <1>6, <2>5, <2>7 DEF Awaits
  <2> QED BY <2>6, <2>7
<1>8. InboxOK(t) => InboxOK(t)'
  BY <1>1, <1>5, <1>6, <1>7 DEF InboxOK
<1> QED BY <1>1, <1>2, <1>4, <1>8, InboxStep

\* A resume takes the thread from its newest checkpoint; if that is the last one, the
\* thread does not wait.
LEMMA InboxInvoke ==
  ASSUME GraphInv, LifecycleInv, InboxInv, NEW c \in Calls, InvokeResume(c)
  PROVE  InboxInv'
<1>1. /\ inv[c].stage = "checked" /\ Resume(c, T(c), inv[c].answer) /\ Active(c)
      /\ UNCHANGED <<runs, events, log, reports, ckpt, unsaved, faults, http>>
      /\ inv \in [Calls -> Invocation]
  BY DEF InvokeResume, Resume, Active, storeVars, ckptVars, GraphInv, GraphTypeOK
<1>2. PICK t \in Threads : T(c) = t
  BY <1>1 DEF GraphInv, CallOK, T
<1>3. Resumes(c) /\ Resumes(c)'
  BY <1>1 DEF LifecycleInv, RoleOK, RunnerOK, Resumes
<1>4. /\ inv'[c].thread = t
      /\ inv'[c].stage = IF ckpt[t].next = "END" THEN "returned" ELSE "body"
      /\ \A d \in Calls : d # c => inv'[d] = inv[d]
  BY <1>1, <1>2 DEF Resume, NoInvocation
<1>5. StepOf(c)
  BY <1>1, <1>2, <1>4 DEF StepOf, SameThread
<1>6. Active(c)' /\ inv'[c].stage # "checked" /\ T(c)' = t
  BY <1>4 DEF Active, Running, T
<1>7. ASSUME InboxOK(t) PROVE InboxOK(t)'
  <2>1. CASE ckpt[t].next # "END"
    <3>1. Owing(c)'
      BY <1>4, <2>1 DEF Owing, At, Running
    <3> QED BY <1>3, <1>6, <3>1 DEF InboxOK
  <2>2. CASE ckpt[t].next = "END"
    <3>1. ~Awaits(t)
      BY <1>2, <1>3, <2>2, AwaitsResumed DEF LifecycleInv, ShapeInv, SavedOK
    <3>2. ASSUME runs[t].review_status = "pending"
          PROVE  \E d \in Calls : T(d)' = t /\ (Owing(d)' \/ (Resumes(d)' /\ inv'[d].stage = "raised"))
      <4>1. PICK d \in Calls : T(d) = t /\ (Owing(d) \/ (Resumes(d) /\ inv[d].stage = "raised"))
        BY <1>7, <3>1, <3>2 DEF InboxOK
      <4>2. d # c
        BY <1>1, <4>1 DEF Owing, Running
      <4> QED BY <1>1, <1>4, <4>1, <4>2 DEF T, Owing, Resumes, At
    <3> QED BY <1>1, <1>3, <1>6, <3>2 DEF InboxOK
  <2> QED BY <2>1, <2>2
<1> QED BY <1>1, <1>2, <1>5, <1>7, InboxStep

\* The endpoints answer.  A resume that is answered leaves a thread that does not wait;
\* one that failed is answered with a 500.
LEMMA InboxRespond ==
  ASSUME GraphInv, HttpOK, LifecycleInv, InboxInv, NEW c \in Calls,
         Respond(c) \/ RespondError(c)
  PROVE  InboxInv'
<1>1. /\ inv[c].stage \in {"returned", "raised"} /\ unsaved[c] = {} /\ Active(c)
      /\ inv' = [inv EXCEPT ![c] = Over(c, "done")]
      /\ UNCHANGED <<runs, events, log, reports, ckpt, unsaved, faults>>
      /\ inv \in [Calls -> Invocation] /\ http \in [Calls -> Http]
  BY DEF Respond, RespondError, Active, storeVars, ckptVars, GraphInv, GraphTypeOK, HttpOK
<1>2. PICK t \in Threads : T(c) = t
  BY <1>1 DEF GraphInv, CallOK, T
<1>3. /\ inv'[c].stage = "done" /\ inv'[c].thread = t
      /\ \A d \in Calls : d # c => inv'[d] = inv[d]
  BY <1>1, <1>2 DEF Over, NoInvocation
<1>4. StepOf(c)
  BY <1>1, <1>2, <1>3, ResponseAsked DEF StepOf, SameThread
<1>5. \A d \in Calls : T(d)' = T(d) /\ Resumes(d)' = Resumes(d)
  BY <1>4, StepKeepsThreads DEF T, Resumes
<1>6. Awaits(t)' <=> Awaits(t)
  BY <1>1, <1>5 DEF Awaits, Interrupted
<1>7. \A d \in Calls \ {c} : /\ Active(d)' = Active(d) /\ Owing(d)' = Owing(d)
                             /\ inv'[d].stage = inv[d].stage
  BY <1>3, <1>5 DEF Active, Owing, At
<1>8. ~Owing(c)
  BY <1>1 DEF Owing, Running
<1>9. ASSUME Smooth', InboxOK(t) PROVE InboxOK(t)'
  <2>1. CASE ~Resumes(c)
    BY <1>1, <1>5, <1>6, <1>7, <1>8, <1>9, <2>1 DEF InboxOK
  <2>2. CASE Resumes(c) /\ inv[c].stage = "returned"
    <3>1. ResumerOK(c)
      BY <2>2 DEF LifecycleInv, RoleOK
    <3>2. ~Awaits(t)
      BY <1>1, <1>2, <2>2, <3>1, AwaitsResumed DEF ResumerOK
    <3>3. inv[c].stage # "raised"
      BY <2>2
    <3> QED BY <1>1, <1>5, <1>6, <1>7, <1>8, <1>9, <3>2, <3>3 DEF InboxOK
  <2>3. CASE Resumes(c) /\ inv[c].stage = "raised"
    <3>1. RespondError(c)
      BY <2>3 DEF Respond
    <3>2. http'[c].code = 500
      BY <1>1, <3>1 DEF RespondError, Http
    <3>3. http'[c].asked # Null
      BY <1>5, <2>3 DEF Resumes
    <3> QED BY <1>9, <3>2, <3>3 DEF Smooth
  <2> QED BY <1>1, <2>1, <2>2, <2>3
<1> QED BY <1>1, <1>2, <1>4, <1>9, InboxStep

\* A call comes to a thread, or is turned away.
LEMMA InboxComes ==
  ASSUME GraphInv, LifecycleInv, InboxInv, NEW c \in Calls, inv[c].stage = "idle",
         UNCHANGED <<runs, ckpt, faults>>,
         \A d \in Calls : d # c => /\ inv'[d] = inv[d] /\ unsaved'[d] = unsaved[d]
                                   /\ http'[d] = http[d],
         \A k \in unsaved'[c] : ~k.paused,
         Resumes(c)' => inv'[c].stage = "checked"
  PROVE  InboxInv'
<1> SUFFICES ASSUME Smooth', NEW t \in Threads PROVE InboxOK(t)'
  BY DEF InboxInv
<1>1. InboxOK(t) /\ T(c) = Null /\ ~Resumes(c)
  BY SmoothBefore DEF InboxInv, LifecycleInv, RoleOK
<1>2. T(c) # t
  BY <1>1, ThreadsAssumption
<1>3. \A d \in Calls : T(d) = t =>
        /\ d # c /\ T(d)' = t /\ unsaved'[d] = unsaved[d] /\ Resumes(d)' = Resumes(d)
        /\ Active(d)' = Active(d) /\ Owing(d)' = Owing(d) /\ inv'[d].stage = inv[d].stage
  BY <1>2 DEF T, Resumes, Active, Owing, At
<1>4. \A d \in Calls : T(d)' = t => T(d) = t \/ d = c
  BY DEF T
<1>5. Awaits(t)' <=> Awaits(t)
  BY <1>3, <1>4 DEF Awaits, Interrupted
<1>6. \A d \in Calls : T(d)' = t /\ Resumes(d)' =>
        inv'[d].stage = "checked" \/ (T(d) = t /\ Resumes(d) /\ inv'[d].stage = inv[d].stage)
  BY <1>3, <1>4
<1> QED BY <1>1, <1>3, <1>5, <1>6 DEF InboxOK

\* run_contract begins, and resume_contract looks at the thread.
LEMMA InboxArrives ==
  ASSUME GraphInv, HttpOK, LifecycleInv, InboxInv, NEW c \in Calls,
         RunContract(c) \/ ResumeCheck(c)
  PROVE  InboxInv'
<1>1. /\ inv[c].stage = "idle" /\ UNCHANGED <<runs, faults>>
      /\ inv \in [Calls -> Invocation] /\ http \in [Calls -> Http] /\ CkptTypeOK
      /\ ShapeOK(c) /\ RoleOK(c)
  BY DEF RunContract, ResumeCheck, Start, storeVars, GraphInv, GraphTypeOK, HttpOK,
         LifecycleInv, ShapeInv
<1>2. unsaved[c] = {} /\ ~Resumes(c)
  BY <1>1 DEF ShapeOK, Active, Running, RoleOK
<1>3. CASE RunContract(c)
  <2>1. PICK t \in Threads, doc \in Documents : Start(c, t, doc)
    BY <1>3, ApiAssumption DEF RunContract
  <2>2. /\ http' = http
        /\ MakeCheckpoint(c, "ingest_contract", ckpt[t].values, FALSE)
        /\ \A d \in Calls : d # c => inv'[d] = inv[d]
    BY <1>1, <1>3, <2>1 DEF RunContract, Start
  <2>3. /\ ckpt' = ckpt /\ \A d \in Calls : d # c => unsaved'[d] = unsaved[d]
        /\ \A k \in unsaved'[c] : k \in unsaved[c] \/ k.paused = FALSE
    <3> DEFINE paused == FALSE
    <3>1. MakeCheckpoint(c, "ingest_contract", ckpt[t].values, paused)
      BY <2>2
    <3> HIDE DEF paused
    <3>2. /\ ckpt' = ckpt /\ \A d \in Calls : d # c => unsaved'[d] = unsaved[d]
          /\ \A k \in unsaved'[c] : k \in unsaved[c] \/ k.paused = paused
      BY <1>1, <3>1, MakeJoins
    <3> QED BY <3>2 DEF paused
  <2>4. ~Resumes(c)'
    BY <1>2, <2>2 DEF Resumes
  <2> QED BY <1>1, <1>2, <2>2, <2>3, <2>4, InboxComes
<1>4. CASE ResumeCheck(c)
  <2>1. /\ UNCHANGED <<ckpt, unsaved>>
        /\ \A d \in Calls : d # c => inv'[d] = inv[d] /\ http'[d] = http[d]
    BY <1>1, <1>4 DEF ResumeCheck, ckptVars
  <2>2. Resumes(c)' => inv'[c].stage = "checked"
    <3>1. CASE \E a, t : inv' = [inv EXCEPT ![c] = [NoInvocation EXCEPT !.stage = "checked",
                                                                   !.thread = t, !.answer = a]]
      BY <1>1, <3>1 DEF NoInvocation
    <3>2. CASE http' = [http EXCEPT ![c].code = 404]
      BY <1>1, <1>2, <3>2 DEF Resumes, Http
    <3> QED BY <1>4, <3>1, <3>2 DEF ResumeCheck
  <2> QED BY <1>1, <1>2, <2>1, <2>2, InboxComes
<1> QED BY <1>3, <1>4

--------------------------------------------------------------------------------
(* The inbox: the theorem. *)

\* InboxInv holds of every behaviour, from the first state on.
LEMMA InboxInvariance == Spec => []InboxInv
<1>1. Init => InboxInv
  <2> SUFFICES ASSUME Init PROVE InboxInv
    OBVIOUS
  <2>1. /\ \A t \in Threads : runs[t].review_status = Null /\ ~ckpt[t].paused
        /\ \A c \in Calls : unsaved[c] = {}
    BY DEF Init, StoreInit, CkptInit, NoRow, NoCheckpoint
  <2> QED BY <2>1 DEF InboxInv, InboxOK, Awaits, Interrupted, Null
<1>2. GraphInv /\ HttpOK /\ LifecycleInv /\ LifecycleInv' /\ InboxInv /\ [Next]_vars => InboxInv'
  <2> SUFFICES ASSUME GraphInv, HttpOK, LifecycleInv, LifecycleInv', InboxInv, [Next]_vars
               PROVE  InboxInv'
    OBVIOUS
  <2>1. ASSUME NEW c \in Calls,
               RunContract(c) \/ ResumeCheck(c) \/ InvokeResume(c) \/ Respond(c)
                 \/ RespondError(c)
        PROVE  InboxInv'
    BY <2>1, InboxArrives, InboxInvoke, InboxRespond
  <2>2. ASSUME faults' > 0 PROVE InboxInv'
    BY <2>2 DEF InboxInv, Smooth
  <2>3. ASSUME NEW c \in Calls, GraphStep(c)
        PROVE  InboxInv'
    BY <2>2, <2>3, InboxRunner, InboxResumer, InboxSave, FaultParts DEF GraphStep
  <2>4. CASE CrashStep
    BY <2>2, <2>4, GraphAssumption DEF CrashStep, Crash, GraphInv, GraphTypeOK
  <2>5. CASE UNCHANGED vars
    <3>1. UNCHANGED <<inv, unsaved, ckpt, runs, http, faults>>
      BY <2>5 DEF vars, storeVars, ckptVars
    <3> QED BY <3>1 DEF InboxInv, Smooth, InboxOK, Awaits, Interrupted, Owing, At, Resumes,
                        Active, T
  <2> QED BY <2>1, <2>3, <2>4, <2>5 DEF Next
<1> QED BY <1>1, <1>2, ReviewLifecycleInvariance, PTL DEF Spec

\* With nobody active and nothing gone wrong, the inbox lists exactly the threads that
\* POST /api/resume accepts.
THEOREM ReviewInboxExact == Spec => []InboxExact
<1>1. GraphInv /\ LifecycleInv /\ InboxInv => InboxExact
  <2> SUFFICES ASSUME GraphInv, LifecycleInv, InboxInv, Smooth, Quiet
               PROVE  PendingReviews = {t \in Threads : Interrupted(t)}
    BY DEF InboxExact
  <2>1. ASSUME NEW t \in Threads
        PROVE  t \in PendingReviews <=> Interrupted(t)
    <3>1. InboxOK(t) /\ ThreadOK(t)
      BY DEF InboxInv, LifecycleInv
    <3>2. \A c \in Calls : ~Active(c) /\ unsaved[c] = {} /\ ~Owing(c)
                           /\ inv[c].stage \notin {"raised", "checked"}
      BY DEF Quiet, LifecycleInv, ShapeInv, ShapeOK, Owing, Active
    <3>3. Awaits(t) <=> Interrupted(t)
      BY <3>2 DEF Awaits
    <3>4. Interrupted(t) => runs[t].exists
      BY <3>1 DEF ThreadOK, PutForward, Interrupted
    <3>5. runs[t].review_status = "pending" <=> Interrupted(t)
      BY <3>1, <3>2, <3>3 DEF InboxOK
    <3> QED BY <3>4, <3>5 DEF PendingReviews
  <2> QED BY <2>1 DEF PendingReviews
<1> QED BY <1>1, ReviewLifecycleInvariance, InboxInvariance, PTL
================================================================================
