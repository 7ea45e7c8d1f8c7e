------------------------------ MODULE OutcomeProofs ------------------------------
(***************************************************************************)
(* While the calls of a thread do not overlap and the checkpoints survive a  *)
(* restart, the service keeps SerialInv and OutcomeInv: a thread comes to    *)
(* one outcome, everybody is told it, and nothing changes it any more.       *)
(***************************************************************************)
EXTENDS ReviewOutcome, ReviewProofs

--------------------------------------------------------------------------------
(* The steps of a service whose calls do not overlap. *)

\* A step of call c at thread t, where nobody else is active.
AtThread(c, t) ==
  /\ inv'[c].thread = t
  /\ \A d \in Calls : d # c => /\ inv'[d] = inv[d] /\ unsaved'[d] = unsaved[d]
                               /\ http'[d] = http[d]
  /\ \A d \in Calls : d # c /\ Active(d) => T(d) # t
  /\ \A u \in Threads : u # t => SameThread(u)

\* Nobody has the thread yet: the run takes it.
Runs(c, t) ==
  /\ inv[c].stage = "idle" /\ http' = http /\ faults' = faults
  /\ \A d \in Calls : T(d) # t
  /\ \E doc \in Uploads : Start(c, t, doc)

\* A decision is asked for, of a thread that is paused.
Asks(c, t) ==
  /\ inv[c].stage = "idle" /\ Interrupted(t)
  /\ \E d \in Decisions, e \in Edits :
       /\ inv' = [inv EXCEPT ![c] =
                    [NoInvocation EXCEPT !.stage = "checked", !.thread = t,
                       !.answer = [form |-> "object", decision |-> d, edits |-> e]]]
       /\ http' = [http EXCEPT ![c].asked = d]
  /\ UNCHANGED <<storeVars, ckptVars, faults>>

\* The worker of a resume begins: its thread is as paused as it was.
Takes(c, t) ==
  /\ inv[c].stage = "checked" /\ T(c) = t /\ Interrupted(t)
  /\ Resume(c, t, inv[c].answer) /\ http' = http

\* A resume of a thread that is not paused is turned away.
TurnedAway(c) ==
  /\ inv[c].stage = "idle"
  /\ inv' = [inv EXCEPT ![c].stage = "done"]
  /\ http' = [http EXCEPT ![c].code = 404]
  /\ UNCHANGED <<storeVars, ckptVars, faults>>

ThreadStep(c, t) ==
  \/ Runs(c, t) \/ Asks(c, t) \/ Takes(c, t)
  \/ /\ T(c) = t
     /\ \/ (NodeStep(c) \/ Save(c) \/ StatementFails(c)) /\ http' = http
        \/ Respond(c) \/ RespondError(c)

\* What every step can count on.
Base ==
  /\ GraphInv /\ HttpOK /\ LifecycleInv /\ SerialInv

\* Every step is one of a call at a thread it has to itself, or of no thread at all.
LEMMA ServiceSteps ==
  ASSUME ~Overlap, Base, [Next]_vars
  PROVE  \/ \E c \in Calls, t \in Threads : AtThread(c, t) /\ ThreadStep(c, t)
         \/ \E c \in Calls : TurnedAway(c)
         \/ CrashStep
         \/ UNCHANGED vars
<1>1. /\ GraphInv /\ HttpOK /\ LifecycleInv /\ SerialInv /\ ShapeInv
      /\ inv \in [Calls -> Invocation] /\ http \in [Calls -> Http] /\ CkptTypeOK
  BY DEF Base, GraphInv, GraphTypeOK, HttpOK, SerialInv
<1>2. ASSUME NEW c \in Calls, RunContract(c)
      PROVE  \E t \in Threads : AtThread(c, t) /\ ThreadStep(c, t)
  <2>1. PICK t \in Threads, doc \in Uploads : /\ \A other \in Calls : T(other) # t
                                               /\ Start(c, t, doc)
    BY <1>2 DEF RunContract
  <2>2. inv[c].stage = "idle" /\ http' = http /\ faults' = faults
    BY <1>2, <2>1 DEF RunContract, Start
  <2>3. /\ inv'[c].thread = t /\ \A d \in Calls : d # c => inv'[d] = inv[d]
    BY <1>1, <2>1 DEF Start, NoInvocation
  <2>4. /\ \A d \in Calls : d # c => unsaved'[d] = unsaved[d]
        /\ UNCHANGED <<runs, events, log, reports, ckpt>>
    BY <1>1, <2>1 DEF Start, MakeCheckpoint, CkptTypeOK, storeVars
  <2>5. AtThread(c, t)
    BY <2>1, <2>2, <2>3, <2>4 DEF AtThread, SameThread
  <2>6. Runs(c, t)
    BY <2>1, <2>2 DEF Runs
  <2> QED BY <2>5, <2>6 DEF ThreadStep
<1>3. ASSUME NEW c \in Calls, ResumeCheck(c)
      PROVE  TurnedAway(c) \/ \E t \in Threads : AtThread(c, t) /\ ThreadStep(c, t)
  <2>1. /\ inv[c].stage = "idle" /\ UNCHANGED <<storeVars, ckptVars, faults>>
        /\ UNCHANGED <<runs, events, log, reports, ckpt, unsaved>>
    BY <1>3 DEF ResumeCheck, storeVars, ckptVars
  <2>2. PICK t \in Threads, d \in Decisions, e \in Edits :
          /\ ~Busy(t)
          /\ \/ /\ Interrupted(t)
                /\ inv' = [inv EXCEPT ![c] =
                          [NoInvocation EXCEPT
                             !.stage = "checked", !.thread = t,
                             !.answer = [form |-> "object", decision |-> d,
                                         edits |-> e]]]
                /\ http' = [http EXCEPT ![c].asked = d]
             \/ /\ inv' = [inv EXCEPT ![c].stage = "done"]
                /\ http' = [http EXCEPT ![c].code = 404]
    BY <1>3 DEF ResumeCheck
  <2>3. CASE /\ inv' = [inv EXCEPT ![c].stage = "done"]
             /\ http' = [http EXCEPT ![c].code = 404]
    BY <2>1, <2>3 DEF TurnedAway
  <2>4. CASE /\ Interrupted(t)
             /\ inv' = [inv EXCEPT ![c] =
                          [NoInvocation EXCEPT
                             !.stage = "checked", !.thread = t,
                             !.answer = [form |-> "object", decision |-> d,
                                         edits |-> e]]]
             /\ http' = [http EXCEPT ![c].asked = d]
    <3>1. Asks(c, t)
      BY <2>1, <2>4 DEF Asks
    <3>2. /\ inv'[c].thread = t
          /\ \A o \in Calls : o # c => inv'[o] = inv[o] /\ http'[o] = http[o]
      BY <1>1, <2>4 DEF NoInvocation
    <3>3. AtThread(c, t)
      BY <2>1, <2>2, <3>2 DEF AtThread, SameThread, Busy
    <3> QED BY <3>1, <3>3 DEF ThreadStep
  <2> QED BY <2>2, <2>3, <2>4
<1>4. ASSUME NEW c \in Calls, InvokeResume(c)
      PROVE  \E t \in Threads : AtThread(c, t) /\ ThreadStep(c, t)
  <2>1. inv[c].stage = "checked" /\ Active(c) /\ CallOK(c) /\ SoleCallOK(c)
    BY <1>1, <1>4 DEF InvokeResume, Active, GraphInv, SerialInv
  <2>2. PICK t \in Threads : T(c) = t
    BY <2>1 DEF CallOK, T
  <2>3. Interrupted(t) /\ Resume(c, t, inv[c].answer) /\ http' = http
    BY <1>4, <2>1, <2>2 DEF InvokeResume, SoleCallOK, LastOK
  <2>4. Takes(c, t)
    BY <2>1, <2>2, <2>3 DEF Takes
  <2>5. /\ inv'[c].thread = t /\ \A d \in Calls : d # c => inv'[d] = inv[d]
    <3> DEFINE a == IF ckpt[t].answer = NoAnswer THEN inv[c].answer ELSE ckpt[t].answer
               s == IF ckpt[t].next = "END" THEN "returned" ELSE "body"
               new == [NoInvocation EXCEPT !.stage = s, !.node = ckpt[t].next, !.thread = t,
                                           !.values = ckpt[t].values, !.answer = a]
    <3>1. inv' = [inv EXCEPT ![c] = new]
      BY <2>3 DEF Resume
    <3> HIDE DEF a, s
    <3>2. new.thread = t
      BY DEF NoInvocation
    <3> HIDE DEF new
    <3> QED BY <1>1, <3>1, <3>2
  <2>6. AtThread(c, t)
    BY <1>1, <2>1, <2>2, <2>3, <2>5, SoleAtThread
    DEF AtThread, SameThread, Resume, storeVars, ckptVars
  <2> QED BY <2>4, <2>6 DEF ThreadStep
<1>5. ASSUME NEW c \in Calls, GraphStep(c)
      PROVE  \E t \in Threads : AtThread(c, t) /\ ThreadStep(c, t)
  <2>1. http' = http /\ (NodeStep(c) \/ Save(c) \/ StatementFails(c))
    BY <1>5 DEF GraphStep
  <2>2. /\ T(c) \in Threads /\ Active(c) /\ inv'[c].thread = T(c)
        /\ \A d \in Calls : d # c => inv'[d] = inv[d] /\ unsaved'[d] = unsaved[d]
        /\ \A u \in Threads : u # T(c) => SameThread(u)
    <3>1. CASE NodeStep(c)
      BY <1>1, <3>1, NodeStepGoes, NodeStepFrame DEF Active
    <3>2. CASE Save(c)
      BY <1>1, <3>2, SaveParts DEF SameThread, T
    <3>3. CASE StatementFails(c)
      <4>1. inv[c].stage \in Running
        BY <1>1, <3>3, FaultParts
      <4>2. T(c) \in Threads /\ Active(c)
        BY <1>1, <4>1, CallFacts
      <4>3. inv'[c].thread = T(c) /\ \A d \in Calls : d # c => inv'[d] = inv[d]
        <5>1. ASSUME NEW type, Emit(c, type, Null, FailedValues(c))
              PROVE  inv'[c].thread = T(c) /\ \A d \in Calls : d # c => inv'[d] = inv[d]
          BY <1>1, <5>1, EmitBecomes DEF Becomes
        <5> QED BY <1>1, <3>3, <5>1, FaultParts DEF Becomes
      <4> QED BY <1>1, <3>3, <4>2, <4>3, FaultParts DEF SameThread
    <3> QED BY <2>1, <3>1, <3>2, <3>3
  <2>3. PICK t \in Threads : T(c) = t
    BY <2>2
  <2>4. AtThread(c, t)
    BY <1>1, <2>1, <2>2, <2>3, SoleAtThread DEF AtThread
  <2> QED BY <2>1, <2>3, <2>4 DEF ThreadStep
<1>6. ASSUME NEW c \in Calls, Respond(c) \/ RespondError(c)
      PROVE  \E t \in Threads : AtThread(c, t) /\ ThreadStep(c, t)
  <2>1. /\ inv[c].stage \in {"returned", "raised"} /\ Active(c) /\ CallOK(c)
        /\ inv' = [inv EXCEPT ![c] = Over(c, "done")]
        /\ UNCHANGED <<runs, events, log, reports, ckpt, unsaved>>
    BY <1>1, <1>6 DEF Respond, RespondError, Active, GraphInv, storeVars, ckptVars
  <2>2. PICK t \in Threads : T(c) = t
    BY <2>1 DEF CallOK, T
  <2>3. Over(c, "done").thread = t
    BY <2>2 DEF Over, NoInvocation
  <2>4. \A d \in Calls : d # c => http'[d] = http[d]
    BY <1>1, <1>6, ResponseAsked
  <2>5. AtThread(c, t)
    BY <1>1, <2>1, <2>2, <2>3, <2>4, SoleAtThread DEF AtThread, SameThread
  <2> QED BY <1>6, <2>2, <2>5 DEF ThreadStep
<1> QED BY <1>2, <1>3, <1>4, <1>5, <1>6 DEF Next

--------------------------------------------------------------------------------
(* What a call knows of its thread. *)

\* A resume that has found the thread paused, with nobody at it.
LEMMA SerialAsks ==
  ASSUME Base, ShapeInv', NEW c \in Calls, NEW t \in Threads, AtThread(c, t), Asks(c, t)
  PROVE  SerialInv'
<1>1. /\ GraphInv /\ SerialInv /\ inv \in [Calls -> Invocation] /\ unsaved[c] = {}
      /\ CheckpointOK(t, ckpt[t])
      /\ UNCHANGED <<runs, events, log, reports, ckpt, unsaved>>
  BY DEF Base, GraphInv, GraphTypeOK, CallOK, Asks, storeVars, ckptVars, SerialInv
<1>2. PICK a : inv' = [inv EXCEPT ![c] = [NoInvocation EXCEPT !.stage = "checked",
                                            !.thread = t, !.answer = a]]
  BY DEF Asks
<1>3. /\ inv'[c].stage = "checked" /\ inv'[c].thread = t /\ inv'[c].node = "NONE"
      /\ inv'[c].document = Null
  BY <1>1, <1>2 DEF NoInvocation
<1>4. Interrupted(t)' /\ ckpt[t].next # "END"
  <2>1. SavedOK(t) /\ ckpt[t].paused
    BY <1>1 DEF Asks, SerialInv, ShapeInv, Interrupted
  <2> QED BY <1>1, <2>1 DEF SavedOK, Interrupted
<1>5. SoleCallOK(c)'
  BY <1>1, <1>3, <1>4
  DEF SoleCallOK, DecidedOK, WritesOK, LastOK, MissingOK, Running, At, T, Null
<1>6. CheckpointOK(t, ckpt[t])'
  BY <1>1 DEF CheckpointOK
<1> QED BY <1>1, <1>3, <1>5, <1>6, SerialStep DEF AtThread

\* A call that is turned away.
LEMMA SerialTurned ==
  ASSUME Base, ShapeInv', NEW c \in Calls, TurnedAway(c)
  PROVE  SerialInv'
<1>1. /\ SerialInv /\ inv \in [Calls -> Invocation] /\ T(c) = Null
      /\ inv' = [inv EXCEPT ![c].stage = "done"]
      /\ UNCHANGED <<runs, events, log, reports, ckpt, unsaved>>
      /\ MissingOK(c)
  BY DEF Base, GraphInv, GraphTypeOK, TurnedAway, LifecycleInv, RoleOK, storeVars, ckptVars,
     SerialInv, SoleCallOK
<1>2. /\ inv'[c].stage = "done" /\ inv'[c].node = inv[c].node
      /\ inv'[c].document = inv[c].document
      /\ \A d \in Calls : d # c => inv'[d] = inv[d]
  BY <1>1 DEF Invocation
<1>3. SoleCallOK(c)'
  BY <1>1, <1>2
  DEF SoleCallOK, DecidedOK, WritesOK, LastOK, MissingOK, Running, At, T, Active
<1>4. ASSUME NEW d \in Calls, d # c PROVE SoleCallOK(d)'
  <2>1. SoleCallOK(d) /\ inv'[d] = inv[d] /\ UNCHANGED <<runs, reports, ckpt, unsaved>>
    BY <1>1, <1>2, <1>4 DEF SerialInv
  <2>2. DecidedOK(d)' /\ MissingOK(d)'
    BY <2>1 DEF SoleCallOK, DecidedOK, MissingOK, Concluding, Writing, At, V, T
  <2>3. WritesOK(d)'
    BY <2>1 DEF SoleCallOK, WritesOK, Active, At, V, T, Told, ReportTells, RowTells
  <2>4. LastOK(d)'
    BY <2>1 DEF SoleCallOK, LastOK, Active, V, T, CheckpointOK, Interrupted
  <2> QED BY <2>2, <2>3, <2>4 DEF SoleCallOK
<1>5. Sole'
  BY <1>1, <1>2 DEF SerialInv, Sole, Active, T, Running
<1>6. \A t \in Threads : CheckpointOK(t, ckpt[t])'
  BY <1>1 DEF SerialInv, CheckpointOK
<1> QED BY <1>3, <1>4, <1>5, <1>6 DEF SerialInv

\* Every step of the service.
LEMMA SerialServiceStep ==
  ASSUME ~Overlap, Base, ShapeInv', [Next]_vars
  PROVE  SerialInv'
<1>1. GraphInv /\ SerialInv
  BY DEF Base
<1>2. ASSUME NEW c \in Calls, NEW t \in Threads, AtThread(c, t), ThreadStep(c, t)
      PROVE  SerialInv'
  <2>1. CASE Runs(c, t)
    <3>1. PICK doc \in Uploads : Start(c, t, doc)
      BY <2>1 DEF Runs
    <3>2. doc \in Documents /\ ~Busy(t) /\ inv[c].stage = "idle"
      BY <2>1, ApiAssumption DEF Runs, Busy
    <3> QED BY <1>1, <3>1, <3>2, SerialStart
  <2>2. CASE Asks(c, t)
    BY <1>2, <2>2, SerialAsks
  <2>3. CASE Takes(c, t)
    BY <1>1, <1>2, <2>3, SerialResume DEF Takes, AtThread
  <2>4. CASE NodeStep(c) \/ Save(c) \/ StatementFails(c)
    BY <1>1, <2>4, SerialGraphStep
  <2>5. CASE Respond(c) \/ RespondError(c)
    BY <1>1, <2>5, SerialOver DEF Respond, RespondError
  <2> QED BY <1>2, <2>1, <2>2, <2>3, <2>4, <2>5 DEF ThreadStep
<1>3. CASE CrashStep
  BY <1>1, <1>3, SerialCrash DEF CrashStep
<1>4. CASE UNCHANGED vars
  BY <1>1, <1>4, SerialStutter DEF vars
<1> QED BY <1>2, <1>3, <1>4, SerialTurned, ServiceSteps
--------------------------------------------------------------------------------
(* The steps of a node. *)

\* The call goes on at its node, or raises; checkpoints stay but for a recorded answer.
GoesOn(c) ==
  /\ inv'[c].stage \in Running \cup {"raised"}
  /\ Becomes(c, inv'[c].stage, inv[c].node, V(c), inv'[c].result, inv'[c].event,
             inv'[c].read)
  /\ UNCHANGED <<unsaved, clock>>
  /\ \A t \in Threads : /\ ckpt'[t].id = ckpt[t].id /\ ckpt'[t].next = ckpt[t].next
                        /\ ckpt'[t].paused = ckpt[t].paused
                        /\ ckpt'[t].values = ckpt[t].values

\* w is an update that call c's node makes of its channels, with an event of this type.
UpdateOf(c, w, type) ==
  LET n == inv[c].node IN
  \/ /\ n = "ingest_contract" /\ w.printable = V(c).printable
     /\ \/ w.final_status = V(c).final_status
        \/ inv[c].document = "missing" /\ w.final_status = "failed"
  \/ /\ n = "parse_and_chunk_clauses" /\ w.printable = V(c).printable
     /\ w.parse_status = "parsed" \/ w.final_status = "needs_manual_parse"
  \/ n = "extract_details_and_flag_risk" /\ (w.printable \/ w.printable = V(c).printable)
  \/ /\ n = "check_policy_rules" /\ w.printable = V(c).printable
     /\ w.route \in {"auto_advance", "human_review"} \/ w.final_status = "failed"
  \/ /\ n = "auto_advance_standard_cases" /\ w.printable = V(c).printable
     /\ w.final_status = "approved_automatically"
  \/ n = "human_review" /\ type \in {"human_review_pending", "human_review_resumed"}
  \/ /\ n = "human_review" /\ inv[c].stage = "decide" /\ ~EditsFail(c)
     /\ type = "human_review_completed" /\ Carries(w, inv[c].answer.decision)
  \/ n = "audit_and_report" /\ w = V(c)

\* Why a node raises by itself.
RaisesBy(c) ==
  \/ inv[c].node = "parse_and_chunk_clauses"
  \/ /\ inv[c].node = "human_review" /\ inv[c].stage = "decide"
     /\ ~Accepted(inv[c].answer) \/ EditsFail(c)
  \/ inv[c].node = "audit_and_report" /\ ~V(c).printable

\* What becomes of the update of call c's node.
Progress(c) ==
  \/ /\ inv'[c].result = inv[c].result /\ inv'[c].event = inv[c].event
     /\ inv'[c].stage = "raised" => RaisesBy(c)
     /\ Concluding(c)' => Concluding(c) \/ inv[c].node = "audit_and_report"
  \/ /\ inv'[c].stage = "insert"
     /\ UpdateOf(c, inv'[c].result, inv'[c].event.type)

\* The call begins append_event.
LEMMA EmitGoes ==
  ASSUME GraphInv, NEW c \in Calls, NEW type, NEW info, NEW w, Emit(c, type, info, w),
         UNCHANGED ckptVars, UpdateOf(c, w, type)
  PROVE  GoesOn(c) /\ Progress(c)
<1>1. inv \in [Calls -> Invocation] /\ UNCHANGED <<ckpt, unsaved, clock>>
  BY DEF GraphInv, GraphTypeOK, ckptVars
<1>2. /\ Becomes(c, "insert", inv[c].node, V(c), w, [type |-> type, info |-> info],
                 inv[c].read)
      /\ inv'[c].event.type = type
  BY <1>1, EmitBecomes
<1>3. inv'[c].stage = "insert" /\ inv'[c].result = w
  BY <1>2 DEF Becomes
<1>4. GoesOn(c)
  BY <1>1, <1>2, <1>3 DEF GoesOn, Becomes, Running
<1> QED BY <1>2, <1>3, <1>4 DEF Progress

\* The call goes to another stage.
LEMMA StageGoes ==
  ASSUME NEW c \in Calls, NEW s \in Running \cup {"raised"}, NEW read,
         Becomes(c, s, inv[c].node, V(c), inv[c].result, inv[c].event, read),
         UNCHANGED <<unsaved, clock>>,
         \A t \in Threads : /\ ckpt'[t].id = ckpt[t].id /\ ckpt'[t].next = ckpt[t].next
                            /\ ckpt'[t].paused = ckpt[t].paused
                            /\ ckpt'[t].values = ckpt[t].values,
         s = "raised" => RaisesBy(c),
         s \in {"insert", "line", "return"} =>
           \/ Concluding(c) \/ inv[c].node = "audit_and_report"
           \/ s = "line" /\ Writing(c, {"human_review_pending", "human_review_resumed"})
  PROVE  GoesOn(c) /\ Progress(c)
<1>1. /\ inv'[c].stage = s /\ inv'[c].event = inv[c].event /\ inv'[c].result = inv[c].result
      /\ inv'[c].read = read
  BY DEF Becomes
<1>2. GoesOn(c)
  BY <1>1 DEF GoesOn
<1>3. Concluding(c)' => Concluding(c) \/ inv[c].node = "audit_and_report"
  BY <1>1 DEF Concluding, Writing
<1> QED BY <1>1, <1>2, <1>3 DEF Progress

\* The nodes before human_review, and the automatic approval.
LEMMA EarlyGoes ==
  ASSUME GraphInv, NEW c \in Calls,
         \/ IngestContract(c) \/ ParseAndChunkClauses(c) \/ ExtractDetailsAndFlagRisk(c)
         \/ CheckPolicyRules(c) \/ AutoAdvanceStandardCases(c)
  PROVE  GoesOn(c) /\ Progress(c)
<1>1. inv[c].stage = "body" /\ inv[c].stage \in Running /\ inv \in [Calls -> Invocation]
      /\ UNCHANGED ckptVars /\ UNCHANGED <<ckpt, unsaved, clock>>
  BY DEF IngestContract, ParseAndChunkClauses, ExtractDetailsAndFlagRisk, CheckPolicyRules,
     AutoAdvanceStandardCases, At, Running, GraphInv, GraphTypeOK, ckptVars
<1>2. V(c) \in Values
  BY <1>1, CallFacts
<1>3. CASE IngestContract(c)
  <2>1. CASE IngestFound(c)
    <3> DEFINE w == [V(c) EXCEPT !.parse_status = "pending",
                                 !.review_status = "not_required"]
    <3>1. /\ Emit(c, "ingested", Null, w) /\ inv[c].node = "ingest_contract"
          /\ w.printable = V(c).printable /\ w.final_status = V(c).final_status
      BY <1>2, <1>3, <2>1 DEF IngestContract, IngestFound, At, Values
    <3> HIDE DEF w
    <3> QED BY <1>1, <3>1, EmitGoes DEF UpdateOf
  <2>2. CASE IngestMissing(c)
    <3> DEFINE w == [V(c) EXCEPT !.final_status = "failed", !.route = "audit_only",
                                 !.review_status = "not_required"]
    <3>1. /\ Emit(c, "ingest_failed", Null, w) /\ inv[c].node = "ingest_contract"
          /\ w.printable = V(c).printable /\ w.final_status = "failed"
          /\ inv[c].document = "missing"
      BY <1>2, <1>3, <2>2 DEF IngestContract, IngestMissing, At, Values
    <3> HIDE DEF w
    <3> QED BY <1>1, <3>1, EmitGoes DEF UpdateOf
  <2> QED BY <1>3, <2>1, <2>2 DEF IngestContract
<1>4. CASE ParseAndChunkClauses(c)
  <2>1. inv[c].node = "parse_and_chunk_clauses"
    BY <1>4 DEF ParseAndChunkClauses, At
  <2>2. ASSUME Emit(c, "parsed", Null, [V(c) EXCEPT !.parse_status = "parsed"])
        PROVE  GoesOn(c) /\ Progress(c)
    <3> DEFINE w == [V(c) EXCEPT !.parse_status = "parsed"]
    <3>1. /\ Emit(c, "parsed", Null, w)
          /\ w.printable = V(c).printable /\ w.parse_status = "parsed"
      BY <1>2, <2>2 DEF Values
    <3> HIDE DEF w
    <3> QED BY <1>1, <2>1, <3>1, EmitGoes DEF UpdateOf
  <2>3. ASSUME Emit(c, "parse_unsupported", Null,
                    [V(c) EXCEPT !.parse_status = "needs_manual_parse",
                                 !.route = "audit_only",
                                 !.final_status = "needs_manual_parse"])
        PROVE  GoesOn(c) /\ Progress(c)
    <3> DEFINE w == [V(c) EXCEPT !.parse_status = "needs_manual_parse",
                                 !.route = "audit_only",
                                 !.final_status = "needs_manual_parse"]
    <3>1. /\ Emit(c, "parse_unsupported", Null, w)
          /\ w.printable = V(c).printable /\ w.final_status = "needs_manual_parse"
      BY <1>2, <2>3 DEF Values
    <3> HIDE DEF w
    <3> QED BY <1>1, <2>1, <3>1, EmitGoes DEF UpdateOf
  <2>4. ASSUME Go(c, "raised") PROVE GoesOn(c) /\ Progress(c)
    <3>1. Becomes(c, "raised", inv[c].node, V(c), inv[c].result, inv[c].event, inv[c].read)
      BY <1>1, <2>4, GoBecomes
    <3> QED BY <1>1, <2>1, <3>1, StageGoes DEF RaisesBy
  <2> QED BY <1>4, <2>2, <2>3, <2>4 DEF ParseAndChunkClauses
<1>5. FailedValues(c).printable = V(c).printable /\ FailedValues(c).final_status = "failed"
  BY <1>2 DEF FailedValues, Values
<1>6. CASE ExtractDetailsAndFlagRisk(c)
  <2>1. inv[c].node = "extract_details_and_flag_risk"
    BY <1>6 DEF ExtractDetailsAndFlagRisk, At
  <2>2. ASSUME NEW x,
               Emit(c, "extracted", Null, [V(c) EXCEPT !.extractions = x, !.printable = TRUE])
        PROVE  GoesOn(c) /\ Progress(c)
    <3> DEFINE w == [V(c) EXCEPT !.extractions = x, !.printable = TRUE]
    <3>1. Emit(c, "extracted", Null, w) /\ w.printable
      BY <1>2, <2>2 DEF Values
    <3> HIDE DEF w
    <3> QED BY <1>1, <2>1, <3>1, EmitGoes DEF UpdateOf
  <2>3. UpdateOf(c, FailedValues(c), "extraction_failed")
    BY <1>5, <2>1 DEF UpdateOf
  <2> QED BY <1>1, <1>6, <2>2, <2>3, EmitGoes DEF ExtractDetailsAndFlagRisk
<1>7. CASE CheckPolicyRules(c)
  <2>1. inv[c].node = "check_policy_rules"
    BY <1>7 DEF CheckPolicyRules, At
  <2>2. ASSUME Emit(c, "policy_evaluated", Null,
                    [V(c) EXCEPT !.route = EvaluatePolicy(V(c).extractions)])
        PROVE  GoesOn(c) /\ Progress(c)
    <3> DEFINE r == EvaluatePolicy(V(c).extractions)
               w == [V(c) EXCEPT !.route = r]
    <3>1. r \in {"auto_advance", "human_review"}
      BY DEF EvaluatePolicy
    <3> HIDE DEF r
    <3>2. w.route = r /\ w.printable = V(c).printable
      BY <1>2 DEF Values
    <3>3. Emit(c, "policy_evaluated", Null, w)
      BY <2>2 DEF r
    <3> HIDE DEF w
    <3> QED BY <1>1, <2>1, <3>1, <3>2, <3>3, EmitGoes DEF UpdateOf
  <2>3. UpdateOf(c, FailedValues(c), "policy_failed")
    BY <1>5, <2>1 DEF UpdateOf
  <2> QED BY <1>1, <1>7, <2>2, <2>3, EmitGoes DEF CheckPolicyRules
<1>8. CASE AutoAdvanceStandardCases(c)
  <2> DEFINE w == [V(c) EXCEPT !.final_status = "approved_automatically",
                               !.review_status = "not_required",
                               !.decision = "auto_approve"]
  <2>1. /\ Emit(c, "auto_approved", Null, w) /\ inv[c].node = "auto_advance_standard_cases"
        /\ w.printable = V(c).printable /\ w.final_status = "approved_automatically"
    BY <1>2, <1>8 DEF AutoAdvanceStandardCases, At, Values
  <2> HIDE DEF w
  <2> QED BY <1>1, <2>1, EmitGoes DEF UpdateOf
<1> QED BY <1>3, <1>4, <1>6, <1>7, <1>8

\* human_review, but for its pause.
LEMMA ReviewGoes ==
  ASSUME GraphInv, ShapeInv, NEW c \in Calls,
         \/ SelectPending(c) \/ SetPending(c) \/ SelectCompleted(c) \/ SetCompleted(c)
         \/ Decide(c) \/ RefuseAnswer(c)
  PROVE  GoesOn(c) /\ Progress(c)
<1>1. inv[c].stage \in Running /\ inv[c].node = "human_review" /\ inv \in [Calls -> Invocation]
      /\ CkptTypeOK
  BY DEF SelectPending, SetPending, SelectCompleted, SetCompleted, Decide, RefuseAnswer,
     At, Running, GraphInv, GraphTypeOK
<1>2. T(c) \in Threads /\ V(c) \in Values
  BY <1>1, CallFacts
<1>3. CASE SelectPending(c)
  <2>1. UNCHANGED <<ckpt, unsaved, clock>>
    BY <1>3 DEF SelectPending, ckptVars
  <2>2. PICK s \in {"set_pending", "interrupt"} :
          Becomes(c, s, inv[c].node, V(c), inv[c].result, inv[c].event, inv'[c].read)
    BY <1>1, <1>3, SelectBecomes DEF SelectPending
  <2>3. s \in Running
    BY DEF Running
  <2> QED BY <1>1, <2>1, <2>2, <2>3, StageGoes
<1>4. CASE SelectCompleted(c)
  <2>1. /\ UNCHANGED <<unsaved, clock>>
        /\ \A t \in Threads : /\ ckpt'[t].id = ckpt[t].id /\ ckpt'[t].next = ckpt[t].next
                              /\ ckpt'[t].paused = ckpt[t].paused
                              /\ ckpt'[t].values = ckpt[t].values
    BY <1>1, <1>2, <1>4, KeepAnswerFields DEF SelectCompleted
  <2>2. PICK s \in {"set_completed", "decide"} :
          Becomes(c, s, inv[c].node, V(c), inv[c].result, inv[c].event, inv'[c].read)
    BY <1>1, <1>4, SelectBecomes DEF SelectCompleted
  <2>3. s \in Running
    BY DEF Running
  <2> QED BY <1>1, <2>1, <2>2, <2>3, StageGoes
<1>5. CASE SetPending(c) \/ SetCompleted(c)
  <2>1. UNCHANGED ckptVars
    BY <1>5 DEF SetPending, SetCompleted
  <2>2. PICK type \in {"human_review_pending", "human_review_resumed"} :
          Emit(c, type, Null, V(c))
    BY <1>5 DEF SetPending, SetCompleted
  <2>3. UpdateOf(c, V(c), type)
    BY <1>1 DEF UpdateOf
  <2> QED BY <2>1, <2>2, <2>3, EmitGoes
<1>6. CASE Decide(c)
  <2> DEFINE d == inv[c].answer.decision
  <2>1. /\ UNCHANGED ckptVars /\ ~EditsFail(c) /\ inv[c].stage = "decide"
    BY <1>6 DEF Decide, At
  <2>2. PICK v \in Edited(c) :
          Emit(c, "human_review_completed", d,
               [v EXCEPT !.decision = d, !.review_status = "completed",
                         !.final_status = Verdict(d)])
    BY <1>6 DEF Decide
  <2>3. v \in Values
    <3>1. V(c) \in Values /\ [V(c) EXCEPT !.printable = FALSE] \in Values
          /\ \A x \in Extractions : [V(c) EXCEPT !.extractions = x] \in Values
      BY <1>2 DEF Values
    <3> QED BY <2>2, <3>1 DEF Edited
  <2> DEFINE w == [v EXCEPT !.decision = d, !.review_status = "completed",
                            !.final_status = Verdict(d)]
  <2>4. w.decision = d /\ w.final_status = Verdict(d)
    BY <2>3 DEF Values
  <2>5. Emit(c, "human_review_completed", d, w)
    BY <2>2
  <2> HIDE DEF w
  <2>6. UpdateOf(c, w, "human_review_completed")
    BY <1>1, <2>1, <2>4 DEF UpdateOf, Carries
  <2> QED BY <2>1, <2>5, <2>6, EmitGoes
<1>7. CASE RefuseAnswer(c)
  <2>1. /\ UNCHANGED <<ckpt, unsaved, clock>> /\ RaisesBy(c)
        /\ Becomes(c, "raised", inv[c].node, V(c), inv[c].result, inv[c].event, inv[c].read)
    BY <1>1, <1>7, GoBecomes DEF RefuseAnswer, ckptVars, RaisesBy, At
  <2> QED BY <2>1, StageGoes
<1> QED BY <1>3, <1>4, <1>5, <1>6, <1>7

\* audit_and_report, and append_event.
LEMMA WriteGoes ==
  ASSUME GraphInv, ShapeInv, NEW c \in Calls,
         AuditAndReport(c) \/ ReportFails(c) \/ Finalize(c) \/ Insert(c) \/ Line(c)
  PROVE  GoesOn(c) /\ Progress(c)
<1>1. /\ inv[c].stage \in Running /\ inv \in [Calls -> Invocation] /\ ShapeOK(c)
      /\ UNCHANGED ckptVars /\ UNCHANGED <<ckpt, unsaved, clock>>
  BY DEF AuditAndReport, ReportFails, Finalize, Insert, Line, At, Running, ckptVars,
     GraphInv, GraphTypeOK, ShapeInv
<1>2. CASE AuditAndReport(c)
  <2>1. Emit(c, "report_written", V(c).final_status, V(c)) /\ inv[c].node = "audit_and_report"
    BY <1>2 DEF AuditAndReport, At
  <2> QED BY <1>1, <2>1, EmitGoes DEF UpdateOf
<1>3. CASE ReportFails(c)
  <2>1. /\ RaisesBy(c)
        /\ Becomes(c, "raised", inv[c].node, V(c), inv[c].result, inv[c].event, inv[c].read)
    BY <1>1, <1>3, GoBecomes DEF ReportFails, RaisesBy, At
  <2> QED BY <1>1, <2>1, StageGoes
<1>4. CASE Finalize(c)
  <2>1. /\ inv[c].node = "audit_and_report" /\ "return" \in Running
        /\ Becomes(c, "return", inv[c].node, V(c), inv[c].result, inv[c].event, inv[c].read)
    BY <1>1, <1>4, GoBecomes DEF Finalize, At, Running
  <2> QED BY <1>1, <2>1, StageGoes
<1>5. CASE Insert(c)
  <2>1. /\ inv[c].stage = "insert" /\ "line" \in Running
        /\ Becomes(c, "line", inv[c].node, V(c), inv[c].result, inv[c].event, inv[c].read)
    BY <1>1, <1>5, GoBecomes DEF Insert, Running
  <2>2. Concluding(c) \/ Writing(c, {"human_review_pending", "human_review_resumed"})
    BY <2>1 DEF Concluding
  <2> QED BY <1>1, <2>1, <2>2, StageGoes
<1>6. CASE Line(c)
  <2> DEFINE s == AfterEvent(inv[c].event.type)
  <2>1. /\ inv[c].stage = "line"
        /\ Becomes(c, s, inv[c].node, V(c), inv[c].result, inv[c].event, inv[c].read)
    BY <1>1, <1>6, GoBecomes DEF Line
  <2>2. /\ s \in {"interrupt", "decide", "finalize", "return"} /\ s \in Running
        /\ s = "return" =>
             inv[c].event.type \notin {"human_review_pending", "human_review_resumed"}
    BY DEF AfterEvent, Running
  <2> HIDE DEF s
  <2>3. s = "return" => Concluding(c)
    BY <2>1, <2>2 DEF Concluding, Writing
  <2> QED BY <1>1, <2>1, <2>2, <2>3, StageGoes
<1> QED BY <1>2, <1>3, <1>4, <1>5, <1>6

\* A node goes on, pauses or returns.
LEMMA NodeStepKinds ==
  ASSUME GraphInv, ShapeInv, NEW c \in Calls, NodeStep(c)
  PROVE  (GoesOn(c) /\ Progress(c)) \/ Pause(c) \/ Return(c)
BY EarlyGoes, ReviewGoes, WriteGoes DEF NodeStep

\* A failed statement: the node gives up, or the call raises.
LEMMA FaultGoes ==
  ASSUME GraphInv, ShapeInv, NEW c \in Calls, StatementFails(c)
  PROVE  /\ GoesOn(c) /\ faults' > 0
         /\ inv'[c].stage = "raised" \/ Progress(c)
<1>1. /\ inv[c].stage \in Running /\ UNCHANGED <<unsaved, clock>> /\ faults' > 0
      /\ \A t \in Threads : /\ ckpt'[t].id = ckpt[t].id /\ ckpt'[t].next = ckpt[t].next
                            /\ ckpt'[t].paused = ckpt[t].paused
                            /\ ckpt'[t].values = ckpt[t].values
      /\ ShapeOK(c) /\ V(c) \in Values /\ inv \in [Calls -> Invocation]
  <2>1. inv[c].stage \in Running
    BY FaultParts
  <2> QED BY <2>1, FaultParts, CallFacts DEF ShapeInv, GraphInv, GraphTypeOK
<1>2. CASE Becomes(c, "raised", inv[c].node, V(c), inv[c].result, inv[c].event, inv[c].read)
  BY <1>1, <1>2 DEF Becomes, GoesOn
<1>3. FailedValues(c).printable = V(c).printable /\ FailedValues(c).final_status = "failed"
  BY <1>1 DEF FailedValues, Values
<1>4. ASSUME NEW type \in {"extraction_failed", "policy_failed"},
             inv[c].stage \in {"insert", "line"},
             inv[c].event.type =
               IF type = "extraction_failed" THEN "extracted" ELSE "policy_evaluated",
             Emit(c, type, Null, FailedValues(c))
      PROVE  GoesOn(c) /\ Progress(c)
  <2>1. inv[c].node = IF type = "extraction_failed" THEN "extract_details_and_flag_risk"
                      ELSE "check_policy_rules"
    BY <1>1, <1>4 DEF ShapeOK, EventsOf
  <2>2. UpdateOf(c, FailedValues(c), type)
    BY <1>3, <2>1 DEF UpdateOf
  <2>3. UNCHANGED ckptVars
    BY <1>4 DEF StatementFails, Caught
  <2> QED BY <1>4, <2>2, <2>3, EmitGoes
<1> QED BY <1>1, <1>2, <1>4, FaultParts
--------------------------------------------------------------------------------
(* The end of a thread. *)

\* A call that runs a node is not at a thread that has ended.
LEMMA RunningIsOpen ==
  ASSUME Base, ClosedInv, NEW c \in Calls, inv[c].stage \in Running
  PROVE  ~Ended(T(c))
<1>1. ShapeOK(c) /\ EndOK(c) /\ Active(c)
  BY DEF Base, SerialInv, ShapeInv, ClosedInv, Active
<1> QED BY <1>1 DEF ShapeOK, EndOK, Nodes

\* A call that has left the graph and saved everything leaves its thread at its end, or
\* before a reviewer.
LEMMA LeavesSaved ==
  ASSUME Base, ClosedInv, NEW c \in Calls, inv[c].stage = "returned", unsaved[c] = {},
         NEW t \in Threads, T(c) = t
  PROVE  /\ Resumes(c) \/ ~Interrupted(t) => inv[c].node = "END"
         /\ inv[c].node = "END" => Ended(t) /\ ckpt[t].values = V(c)
<1>1. Active(c) /\ LastOK(c) /\ PauseOK(c) /\ RoleOK(c)
  BY DEF Base, SerialInv, SoleCallOK, ClosedInv, LifecycleInv, Active
<1>2. Resumes(c) => inv[c].node = "END"
  BY <1>1 DEF RoleOK, ResumerOK
<1> QED BY <1>1, <1>2 DEF LastOK, PauseOK, Ended

\* Nothing of a thread that has ended changes.
LEMMA EndedFrozen ==
  ASSUME ~Overlap, Checkpointer = "sqlite", Base, ClosedInv, [Next]_vars,
         NEW t \in Threads, Ended(t)
  PROVE  SameThread(t)
<1>1. ASSUME NEW c \in Calls, NEW u \in Threads, AtThread(c, u), ThreadStep(c, u)
      PROVE  SameThread(t)
  <2>1. CASE u # t
    BY <1>1, <2>1 DEF AtThread
  <2>2. CASE u = t
    <3>1. CASE Runs(c, t)
      <4>1. ckpt[t].next = "NONE"
        BY <3>1 DEF Runs, Base, LifecycleInv, ThreadOK, Untouched, NoCheckpoint
      <4> QED BY <4>1 DEF Ended
    <3>2. CASE Asks(c, t) \/ Takes(c, t)
      BY <3>2 DEF Asks, Takes, Resume, SameThread, storeVars, ckptVars
    <3>3. CASE T(c) = t /\ (NodeStep(c) \/ StatementFails(c))
      <4>1. inv[c].stage \in Running
        BY <3>3, NodeStepGoes, FaultParts DEF Base, LifecycleInv
      <4> QED BY <3>3, <4>1, RunningIsOpen
    <3>4. CASE T(c) = t /\ Save(c)
      <4>1. Active(c) /\ unsaved[c] # {} /\ EndOK(c)
        BY <3>4, SaveParts DEF Base, LifecycleInv, ClosedInv
      <4> QED BY <3>4, <4>1 DEF EndOK
    <3>5. CASE Respond(c) \/ RespondError(c)
      BY <3>5 DEF Respond, RespondError, SameThread, storeVars, ckptVars
    <3> QED BY <1>1, <2>2, <3>1, <3>2, <3>3, <3>4, <3>5 DEF ThreadStep
  <2> QED BY <2>1, <2>2
<1>2. ASSUME NEW c \in Calls, TurnedAway(c) PROVE SameThread(t)
  BY <1>2 DEF TurnedAway, SameThread, storeVars, ckptVars
<1>3. CASE CrashStep
  BY <1>3 DEF CrashStep, Crash, LoseUnsaved, SameThread, storeVars
<1>4. CASE UNCHANGED vars
  BY <1>4 DEF vars, SameThread, storeVars, ckptVars
<1> QED BY <1>1, <1>2, <1>3, <1>4, ServiceSteps

\* A call that a step leaves alone.
LEMMA ClosedOther ==
  ASSUME Base, ClosedInv, NEW d \in Calls, inv'[d] = inv[d], unsaved'[d] = unsaved[d],
         http'[d] = http[d], Active(d) => SameThread(T(d)),
         T(d) \in Threads /\ Ended(T(d)) => SameThread(T(d))
  PROVE  EndOK(d)' /\ PauseOK(d)' /\ RespondedOK(d)'
<1>1. EndOK(d) /\ PauseOK(d) /\ RespondedOK(d)
  BY DEF ClosedInv
<1>2. EndOK(d)'
  BY <1>1 DEF EndOK, SameThread, Active, Ended, T
<1>3. PauseOK(d)'
  BY <1>1 DEF PauseOK, SameThread, Active, Interrupted, T
<1>4. RespondedOK(d)'
  BY <1>1 DEF RespondedOK, SameThread, Ended, T
<1> QED BY <1>2, <1>3, <1>4

\* A call at its thread, and the thread if that is its end.
LEMMA ClosedAt ==
  ASSUME Base, Base', ClosedInv, NEW c \in Calls, NEW t \in Threads, AtThread(c, t),
         ThreadStep(c, t)
  PROVE  /\ EndOK(c)' /\ PauseOK(c)' /\ RespondedOK(c)'
         /\ Ended(t)' => Told(t, ckpt[t].values)'
<1>1. /\ GraphInv /\ ShapeInv /\ CkptTypeOK /\ inv \in [Calls -> Invocation]
      /\ http \in [Calls -> Http] /\ RoleOK(c) /\ LastOK(c) /\ SavedOK(t)
      /\ EndOK(c) /\ PauseOK(c) /\ (Ended(t) => Told(t, ckpt[t].values)) /\ WritesOK(c)
      /\ CallOK(c)
  BY DEF Base, GraphInv, GraphTypeOK, HttpOK, LifecycleInv, SerialInv, SoleCallOK, ShapeInv,
     ClosedInv
<1>2. T(c)' = t
  BY DEF AtThread, T
<1>3. ASSUME ckpt'[t].next = ckpt[t].next, ~Ended(t), http'[c].code = 0,
             inv'[c].stage # "returned"
      PROVE  /\ EndOK(c)' /\ PauseOK(c)' /\ RespondedOK(c)'
             /\ Ended(t)' => Told(t, ckpt[t].values)'
  BY <1>2, <1>3 DEF EndOK, PauseOK, RespondedOK, Ended
<1>4. Interrupted(t) => ~Ended(t)
  BY <1>1 DEF SavedOK, Interrupted, Ended
<1>5. CASE Runs(c, t)
  <2>1. PICK doc \in Uploads : Start(c, t, doc)
    BY <1>5 DEF Runs
  <2>2. /\ ckpt' = ckpt /\ inv'[c].stage = "body" /\ http'[c].code = 0
    BY <1>1, <1>5, <2>1 DEF Runs, Start, MakeCheckpoint, NoInvocation, RoleOK
  <2>3. ~Ended(t)
    BY <1>5 DEF Runs, Base, LifecycleInv, ThreadOK, Untouched, NoCheckpoint, Ended
  <2> QED BY <1>3, <2>2, <2>3
<1>6. CASE Asks(c, t)
  <2>1. PICK d \in Decisions, e \in Edits :
          /\ inv' = [inv EXCEPT ![c] =
                      [NoInvocation EXCEPT !.stage = "checked", !.thread = t,
                         !.answer = [form |-> "object", decision |-> d, edits |-> e]]]
          /\ http' = [http EXCEPT ![c].asked = d]
    BY <1>6 DEF Asks
  <2>2. inv'[c].stage = "checked" /\ http'[c].code = 0 /\ ckpt' = ckpt /\ ~Ended(t)
    BY <1>1, <1>4, <1>6, <2>1 DEF Asks, NoInvocation, RoleOK, Http, ckptVars
  <2> QED BY <1>3, <2>2
<1>7. CASE Takes(c, t)
  <2>1. /\ http'[c].code = 0 /\ ckpt' = ckpt /\ ~Ended(t)
    BY <1>1, <1>4, <1>7 DEF Takes, Resume, RoleOK, Active, ckptVars
  <2>2. inv'[c].stage # "returned"
    <3> DEFINE a == IF ckpt[t].answer = NoAnswer THEN inv[c].answer ELSE ckpt[t].answer
               s == IF ckpt[t].next = "END" THEN "returned" ELSE "body"
               new == [NoInvocation EXCEPT !.stage = s, !.node = ckpt[t].next, !.thread = t,
                                           !.values = ckpt[t].values, !.answer = a]
    <3>1. inv' = [inv EXCEPT ![c] = new] /\ s = "body"
      BY <1>7, <2>1 DEF Takes, Resume, Ended
    <3> HIDE DEF a, s
    <3>2. new.stage = s
      BY DEF NoInvocation
    <3> HIDE DEF new
    <3> QED BY <1>1, <3>1, <3>2
  <2> QED BY <1>3, <2>1, <2>2
<1>8. CASE T(c) = t /\ NodeStep(c) /\ http' = http
  <2>1. inv[c].stage \in Running /\ ~Ended(t) /\ http'[c].code = 0
    BY <1>1, <1>8, NodeStepGoes, RunningIsOpen DEF RoleOK, Active
  <2>2. CASE GoesOn(c)
    <3>1. inv'[c].stage # "returned"
      BY <2>2 DEF GoesOn, Running
    <3> QED BY <1>3, <2>1, <2>2, <3>1 DEF GoesOn
  <2>3. CASE Pause(c)
    <3> DEFINE paused == TRUE
    <3>1. MakeCheckpoint(c, "human_review", V(c), paused)
      BY <2>3 DEF Pause
    <3> HIDE DEF paused
    <3>2. PICK k : k.paused = paused /\ unsaved'[c] = unsaved[c] \cup {k} /\ ckpt' = ckpt
      BY <1>1, <3>1, MakeJoins
    <3>3. k \in unsaved'[c] /\ k.paused
      BY <3>2 DEF paused
    <3> QED BY <1>2, <2>1, <3>2, <3>3 DEF EndOK, PauseOK, RespondedOK, Ended
  <2>4. CASE Return(c)
    <3> DEFINE next == NextNode(inv[c].node, inv[c].result)
    <3>1. /\ ckpt' = ckpt /\ inv'[c].node = next
          /\ inv'[c].stage = IF next = "END" THEN "returned" ELSE "body"
      BY <1>1, <2>4, ReturnBecomes DEF Becomes, MakeCheckpoint
    <3> HIDE DEF next
    <3> QED BY <1>2, <2>1, <3>1 DEF EndOK, PauseOK, RespondedOK, Ended
  <2> QED BY <1>1, <1>8, <2>2, <2>3, <2>4, NodeStepKinds
<1>9. CASE T(c) = t /\ Save(c) /\ http' = http
  <2>1. PICK k \in unsaved[c] :
          /\ unsaved'[c] = unsaved[c] \ {k}
          /\ \A other \in unsaved'[c] : other.id > k.id
          /\ ckpt'[t] = IF k.id > ckpt[t].id THEN k ELSE ckpt[t]
    BY <1>1, <1>9, SaveParts
  <2>2. /\ Active(c) /\ UNCHANGED <<runs, reports, inv>> /\ http'[c].code = 0
    BY <1>1, <1>9, SaveParts DEF RoleOK
  <2>3. ckpt'[t] = k
    BY <1>1, <1>9, <2>1, <2>2 DEF LastOK
  <2>4. ASSUME k.next = "END"
        PROVE  inv[c].node = "END" /\ unsaved'[c] = {} /\ Told(t, k.values)
    <3>1. /\ inv[c].node = "END" /\ k.values = V(c)
          /\ \A other \in unsaved[c] : other.id <= k.id
      BY <1>1, <2>2, <2>4 DEF LastOK
    <3>2. Told(t, V(c))
      BY <1>1, <1>9, <2>2, <3>1 DEF WritesOK
    <3>3. unsaved'[c] = {}
      <4>1. \A other \in unsaved'[c] : other.id \in Nat /\ k.id \in Nat /\ other \in unsaved[c]
        BY <1>1, <2>1 DEF CkptTypeOK, Checkpoint
      <4> QED BY <2>1, <3>1, <4>1
    <3> QED BY <3>1, <3>2, <3>3
  <2>5. EndOK(c)'
    BY <1>2, <2>2, <2>3, <2>4 DEF EndOK, Ended
  <2>6. PauseOK(c)'
    <3> SUFFICES ASSUME inv[c].stage = "returned", inv[c].node # "END"
                 PROVE  Interrupted(t)' \/ \E o \in unsaved'[c] : o.paused
      BY <1>2, <2>2 DEF PauseOK
    <3>1. ~Resumes(c) /\ RunnerOK(c)
      BY <1>1, <2>2 DEF RoleOK, ResumerOK
    <3>2. ~ckpt[t].paused
      BY <1>9, <2>1, <3>1 DEF RunnerOK
    <3>3. PICK o \in unsaved[c] : o.paused
      BY <1>1, <1>9, <3>2 DEF PauseOK, Interrupted
    <3> QED BY <2>1, <2>3, <3>3 DEF Interrupted
  <2>7. RespondedOK(c)'
    BY <2>2 DEF RespondedOK
  <2>8. Ended(t)' => Told(t, ckpt[t].values)'
    BY <2>2, <2>3, <2>4 DEF Ended, Told, ReportTells, RowTells
  <2> QED BY <2>5, <2>6, <2>7, <2>8
<1>10. CASE T(c) = t /\ StatementFails(c) /\ http' = http
  <2>1. inv[c].stage \in Running /\ ~Ended(t) /\ http'[c].code = 0
    BY <1>1, <1>10, FaultParts, RunningIsOpen DEF RoleOK, Active
  <2>2. GoesOn(c)
    BY <1>1, <1>10, FaultGoes
  <2>3. inv'[c].stage # "returned"
    BY <2>2 DEF GoesOn, Running
  <2> QED BY <1>3, <2>1, <2>2, <2>3 DEF GoesOn
<1>11. CASE T(c) = t /\ (Respond(c) \/ RespondError(c))
  <2>1. /\ inv'[c].stage = "done"
        /\ UNCHANGED <<runs, reports, ckpt>>
    BY <1>1, <1>11 DEF Respond, RespondError, Over, NoInvocation, storeVars, ckptVars
  <2>2. EndOK(c)' /\ PauseOK(c)'
    BY <2>1 DEF EndOK, PauseOK, Active, Running
  <2>3. RespondedOK(c)'
    <3>1. CASE RespondError(c)
      <4>1. http'[c].code = 500
        BY <1>1, <3>1 DEF RespondError, Http
      <4> QED BY <4>1 DEF RespondedOK
    <3>2. CASE Respond(c)
      <4>1. inv[c].stage = "returned" /\ unsaved[c] = {}
        BY <3>2 DEF Respond
      <4>2. ASSUME ~Resumes(c), Interrupted(t) PROVE http'[c].status = "interrupted"
        BY <1>1, <1>11, <3>2, <4>2 DEF Respond, Resumes, Http
      <4>3. ASSUME Resumes(c) \/ ~Interrupted(t)
            PROVE  http'[c].final_status = ckpt[t].values.final_status
        <5>1. PICK d : http' = [http EXCEPT ![c] = Completed(c, t, d)]
          BY <1>11, <3>2, <4>3 DEF Respond, Resumes
        <5>2. http'[c] = Completed(c, t, d)
          BY <1>1, <5>1
        <5> QED BY <1>1, <5>2 DEF Completed, Http
      <4>4. Resumes(c) \/ ~Interrupted(t) => Ended(t)
        BY <1>11, <4>1, LeavesSaved
      <4> QED BY <1>2, <2>1, <4>2, <4>3, <4>4 DEF RespondedOK, Ended
    <3> QED BY <1>11, <3>1, <3>2
  <2>4. Ended(t)' => Told(t, ckpt[t].values)'
    BY <1>1, <2>1 DEF Ended, Told, ReportTells, RowTells
  <2> QED BY <2>2, <2>3, <2>4
<1> QED BY <1>5, <1>6, <1>7, <1>8, <1>9, <1>10, <1>11 DEF ThreadStep

\* Every step of the service.
LEMMA ClosedServiceStep ==
  ASSUME ~Overlap, Checkpointer = "sqlite", Base, Base', ClosedInv, [Next]_vars
  PROVE  ClosedInv'
<1>1. \A t \in Threads : Ended(t) => SameThread(t)
  BY EndedFrozen
<1>2. \A t \in Threads : Ended(t) => Told(t, ckpt[t].values)
  BY DEF ClosedInv
<1>3. \A d \in Calls : Active(d) => T(d) \in Threads
  BY DEF Base, GraphInv, CallOK, T
<1>4. ASSUME NEW t \in Threads, SameThread(t), Ended(t)'
      PROVE  Told(t, ckpt[t].values)'
  BY <1>2, <1>4 DEF SameThread, Ended, Told, ReportTells, RowTells
<1>5. ASSUME NEW c \in Calls, NEW t \in Threads, AtThread(c, t), ThreadStep(c, t)
      PROVE  ClosedInv'
  <2>1. ASSUME NEW d \in Calls, d # c PROVE EndOK(d)' /\ PauseOK(d)' /\ RespondedOK(d)'
    <3>1. Active(d) => SameThread(T(d))
      BY <1>3, <1>5, <2>1 DEF AtThread
    <3> QED BY <1>1, <1>5, <2>1, <3>1, ClosedOther DEF AtThread
  <2>2. ASSUME NEW u \in Threads, u # t, Ended(u)' PROVE Told(u, ckpt[u].values)'
    BY <1>4, <1>5, <2>2 DEF AtThread
  <2> QED BY <1>5, <2>1, <2>2, ClosedAt DEF ClosedInv
<1>6. ASSUME \A u \in Threads : SameThread(u),
             \A d \in Calls : \/ EndOK(d)' /\ PauseOK(d)' /\ RespondedOK(d)'
                              \/ /\ inv'[d] = inv[d] /\ unsaved'[d] = unsaved[d]
                                 /\ http'[d] = http[d]
      PROVE  ClosedInv'
  <2>1. ASSUME NEW d \in Calls PROVE EndOK(d)' /\ PauseOK(d)' /\ RespondedOK(d)'
    BY <1>3, <1>6, ClosedOther
  <2>2. ASSUME NEW u \in Threads, Ended(u)' PROVE Told(u, ckpt[u].values)'
    BY <1>4, <1>6, <2>2
  <2> QED BY <2>1, <2>2 DEF ClosedInv
<1>7. ASSUME NEW c \in Calls, TurnedAway(c) PROVE ClosedInv'
  <2>1. /\ inv \in [Calls -> Invocation] /\ http \in [Calls -> Http]
        /\ UNCHANGED <<runs, events, log, reports, ckpt, unsaved>>
    BY <1>7 DEF Base, GraphInv, GraphTypeOK, HttpOK, TurnedAway, storeVars, ckptVars
  <2>2. /\ inv'[c].stage = "done" /\ http'[c].code = 404
        /\ \A d \in Calls : d # c => inv'[d] = inv[d] /\ http'[d] = http[d]
    BY <1>7, <2>1 DEF TurnedAway, Invocation, Http
  <2>3. EndOK(c)' /\ PauseOK(c)' /\ RespondedOK(c)'
    BY <2>2 DEF EndOK, PauseOK, RespondedOK, Active, Running
  <2>4. \A u \in Threads : SameThread(u)
    BY <2>1 DEF SameThread
  <2> QED BY <1>6, <2>1, <2>2, <2>3, <2>4
<1>8. CASE CrashStep
  <2>1. /\ inv' = [c \in Calls |-> IF Active(c) THEN Over(c, "dead") ELSE inv[c]]
        /\ UNCHANGED <<runs, events, log, reports, ckpt, http>>
        /\ unsaved' = [c \in Calls |-> {}]
    BY <1>8 DEF CrashStep, Crash, LoseUnsaved, storeVars
  <2>2. \A u \in Threads : SameThread(u)
    BY <2>1 DEF SameThread
  <2>3. ASSUME NEW d \in Calls PROVE EndOK(d)' /\ PauseOK(d)' /\ RespondedOK(d)'
    <3>1. CASE Active(d)
      <4>1. inv'[d].stage = "dead" /\ http'[d].code = 0
        BY <2>1, <3>1 DEF Over, NoInvocation, Base, LifecycleInv, RoleOK
      <4> QED BY <4>1 DEF EndOK, PauseOK, RespondedOK, Active, Running
    <3>2. CASE ~Active(d)
      <4>1. inv'[d] = inv[d] /\ http'[d] = http[d] /\ unsaved'[d] = unsaved[d]
        BY <2>1, <3>2 DEF Base, LifecycleInv, ShapeInv, ShapeOK
      <4> QED BY <1>3, <2>2, <3>2, <4>1, ClosedOther
    <3> QED BY <3>1, <3>2
  <2> QED BY <1>6, <2>2, <2>3
<1>9. CASE UNCHANGED vars
  BY <1>6, <1>9 DEF vars, SameThread, storeVars, ckptVars
<1> QED BY <1>5, <1>7, <1>8, <1>9, ServiceSteps

\* What the service keeps while the calls of a thread do not overlap: SerialInv.
THEOREM ServiceSerialInvariance ==
  ASSUME ~Overlap
  PROVE  Spec => []Base
<1> DEFINE L == GraphInv /\ HttpOK /\ LifecycleInv
<1>1. Init => SerialInv
  BY SerialInit DEF Init
<1>2. L /\ L' /\ SerialInv /\ [Next]_vars => SerialInv'
  BY SerialServiceStep DEF Base, LifecycleInv
<1>3. L /\ SerialInv => Base
  BY DEF Base
<1>4. Spec => []L
  BY ReviewLifecycleInvariance
<1> HIDE DEF L
<1> QED BY <1>1, <1>2, <1>3, <1>4, PTL DEF Spec

\* And ClosedInv.
LEMMA ClosedInvariance ==
  ASSUME ~Overlap, Checkpointer = "sqlite"
  PROVE  Spec => []ClosedInv
<1>1. Init => ClosedInv
  <2> SUFFICES ASSUME Init PROVE ClosedInv
    OBVIOUS
  <2>1. /\ \A c \in Calls : inv[c].stage = "idle" /\ http[c].code = 0
        /\ \A t \in Threads : ckpt[t].next = "NONE"
    BY DEF Init, GraphInit, CkptInit, NoInvocation, NoHttp, NoCheckpoint
  <2> QED BY <2>1 DEF ClosedInv, EndOK, PauseOK, RespondedOK, Active, Running, Ended
<1>2. Base /\ Base' /\ ClosedInv /\ [Next]_vars => ClosedInv'
  BY ClosedServiceStep
<1>3. Spec => []Base
  BY ServiceSerialInvariance
<1> QED BY <1>1, <1>2, <1>3, PTL DEF Spec

\* Once a thread's end is saved nothing of that run changes any more, whatever calls come
\* later and whatever fails: a second resume is turned away, a process that starts again
\* finds the end.
THEOREM ServiceClosedStaysClosed ==
  ASSUME ~Overlap, Checkpointer = "sqlite"
  PROVE  Spec => ClosedStaysClosed
<1> DEFINE Frozen == \A t \in Threads :
             Ended(t) => UNCHANGED <<runs[t], events[t], log[t], reports[t], ckpt[t]>>
<1>1. Base /\ ClosedInv /\ [Next]_vars => [Frozen]_vars
  BY EndedFrozen DEF SameThread
<1>2. Spec => []Base
  BY ServiceSerialInvariance
<1>3. Spec => []ClosedInv
  BY ClosedInvariance
<1>4. Spec => [][Frozen]_vars
  BY <1>1, <1>2, <1>3, PTL DEF Spec
<1> QED BY <1>4 DEF ClosedStaysClosed

\* A response that calls a run completed comes after everything was written.
THEOREM ServiceCompletedIsWritten ==
  ASSUME ~Overlap, Checkpointer = "sqlite"
  PROVE  Spec => []CompletedIsWritten
<1>1. ClosedInv => CompletedIsWritten
  <2> SUFFICES ASSUME ClosedInv, NEW c \in Calls, NEW t, t = T(c),
                      http[c].code = 200, http[c].status = "completed"
               PROVE  /\ Ended(t)
                      /\ runs[t].completed_at
                      /\ reports[t].written
                      /\ {ckpt[t].values.final_status, runs[t].final_status,
                          reports[t].final_status} = {http[c].final_status}
    BY DEF CompletedIsWritten
  <2>1. t \in Threads /\ Ended(t) /\ http[c].final_status = ckpt[t].values.final_status
    BY DEF ClosedInv, RespondedOK
  <2>2. Told(t, ckpt[t].values)
    BY <2>1 DEF ClosedInv
  <2> QED BY <2>1, <2>2 DEF Told, ReportTells, RowTells
<1> QED BY <1>1, ClosedInvariance, PTL
--------------------------------------------------------------------------------
(* The way to the outcome. *)

\* Who has asked for what: a step at a thread adds at most the decision of its own call.
LEMMA AskedGrows ==
  ASSUME Base, NEW c \in Calls, NEW t \in Threads, AtThread(c, t), ThreadStep(c, t)
  PROVE  /\ \A u \in Threads : u # t => Asked(u)' = Asked(u)
         /\ Asked(t) \subseteq Asked(t)'
         /\ ~Asks(c, t) => /\ http'[c].asked = http[c].asked
                           /\ Asked(t)' = Asked(t)
         /\ Asks(c, t) => /\ http[c].asked = Null /\ http'[c].asked \in Decisions
                          /\ Asked(t)' = Asked(t) \cup {http'[c].asked}
<1>1. /\ HttpOK /\ http \in [Calls -> Http] /\ RoleOK(c) /\ inv'[c].thread = t
      /\ \A d \in Calls : d # c => inv'[d] = inv[d] /\ http'[d] = http[d]
  BY DEF Base, HttpOK, LifecycleInv, AtThread
<1>2. T(c) = t \/ (T(c) = Null /\ http[c].asked = Null)
  BY <1>1 DEF ThreadStep, Runs, Asks, Takes, RoleOK, Resumes
<1>3. ~Asks(c, t) => http'[c].asked = http[c].asked
  <2>1. CASE Respond(c) \/ RespondError(c)
    BY <1>1, <2>1, ResponseAsked
  <2> QED BY <1>1, <2>1 DEF ThreadStep, Runs, Takes
<1>4. \A d \in Decisions : http' = [http EXCEPT ![c].asked = d] =>
        http'[c].asked = d /\ d # Null
  BY <1>1 DEF Http, Decisions, Null
<1>5. Asks(c, t) => http'[c].asked \in Decisions /\ http[c].asked = Null
  BY <1>1, <1>4 DEF Asks, RoleOK, Resumes
<1>6. \A u \in Threads : u # t => Asked(u)' = Asked(u)
  BY <1>1, <1>2, ThreadsAssumption DEF Asked, T
<1>7. http'[c].asked = http[c].asked \/ http[c].asked = Null
  BY <1>3, <1>5
<1>8. Asked(t) \subseteq Asked(t)'
  BY <1>1, <1>2, <1>7, ThreadsAssumption DEF Asked, T
<1>9. http'[c].asked = http[c].asked => Asked(t)' = Asked(t)
  BY <1>1, <1>2, ThreadsAssumption DEF Asked, T
<1>10. ASSUME Asks(c, t) PROVE Asked(t)' = Asked(t) \cup {http'[c].asked}
  <2>1. http'[c].asked # Null /\ http[c].asked = Null
    BY <1>5, <1>10 DEF Decisions, Null
  <2> QED BY <1>1, <1>2, <2>1, ThreadsAssumption DEF Asked, T
<1> QED BY <1>3, <1>5, <1>6, <1>8, <1>9, <1>10

\* A call that a step leaves alone.
LEMMA CaseOther ==
  ASSUME CaseInv, NEW d \in Calls, inv'[d] = inv[d], unsaved'[d] = unsaved[d],
         http'[d] = http[d],
         Active(d) => T(d) \in Threads,
         \A u \in Threads : Active(d) /\ T(d) = u => ckpt'[u] = ckpt[u] /\ Asked(u)' = Asked(u)
  PROVE  TrailOK(d)' /\ SettlesOK(d)'
<1>1. TrailOK(d) /\ SettlesOK(d)
  BY DEF CaseInv
<1>2. Active(d)' <=> Active(d)
  BY DEF Active
<1>3. CASE ~Active(d)
  BY <1>2, <1>3 DEF TrailOK, SettlesOK, Active, Running, Resumes
<1>4. CASE Active(d)
  <2>1. PICK u \in Threads : T(d) = u
    BY <1>4
  <2>2. T(d)' = u /\ ckpt'[u] = ckpt[u] /\ Asked(u)' = Asked(u)
    BY <1>4, <2>1 DEF T
  <2>3. \A x, k : Follows(u, x, k)' <=> Follows(u, x, k)
    BY <2>2 DEF Follows
  <2>4. TrailOK(d)'
    BY <1>1, <1>2, <1>4, <2>1, <2>2, <2>3 DEF TrailOK, Trail, V, Resumes
  <2>5. SettlesOK(d)'
    BY <1>1, <1>4, <2>1, <2>2 DEF SettlesOK, Resumes, Concluding, Writing
  <2> QED BY <2>4, <2>5
<1> QED BY <1>3, <1>4

\* An answer is recorded by the call that brings it to its interrupt, and by no other step.
LEMMA AnswersKept ==
  ASSUME GraphInv, ShapeInv, NEW c \in Calls, NEW t \in Threads, T(c) = t,
         NodeStep(c) \/ StatementFails(c)
  PROVE  \/ ckpt'[t].answer = ckpt[t].answer
         \/ /\ ckpt'[t].answer = inv[c].answer /\ inv[c].answer # NoAnswer
            /\ ckpt[t].paused /\ inv[c].stage = "interrupt"
<1>1. CkptTypeOK
  BY DEF GraphInv
<1>2. ASSUME KeepAnswer(t, inv[c].answer)
      PROVE  \/ ckpt'[t].answer = ckpt[t].answer
             \/ ckpt'[t].answer = inv[c].answer /\ ckpt[t].paused
  BY <1>1, <1>2 DEF KeepAnswer, ckptVars, CkptTypeOK, Checkpoint
<1>3. CASE SelectCompleted(c)
  BY <1>2, <1>3 DEF SelectCompleted, At
<1>4. CASE StatementFails(c)
  BY <1>2, <1>4 DEF StatementFails, Touching, Caught, ckptVars
<1>5. CASE NodeStep(c) /\ ~SelectCompleted(c)
  BY <1>5 DEF NodeStep, IngestContract, ParseAndChunkClauses, ExtractDetailsAndFlagRisk,
     CheckPolicyRules, AutoAdvanceStandardCases, SelectPending, SetPending, Pause,
     SetCompleted, Decide, RefuseAnswer, AuditAndReport, ReportFails, Finalize, Insert,
     Line, Return, MakeCheckpoint, ckptVars
<1> QED BY <1>3, <1>4, <1>5

\* What an update that leads to the report says.
LEMMA SettlesUpdate ==
  ASSUME Base, CaseInv, NEW c \in Calls, inv[c].stage \in Running,
         NEW w, NEW type, UpdateOf(c, w, type),
         type \notin {"human_review_pending", "human_review_resumed"},
         NextNode(inv[c].node, w) = "audit_and_report"
  PROVE  IF Resumes(c) THEN \E d \in Asked(T(c)) : w.final_status = Verdict(d)
         ELSE w.final_status \in Case!Automatic
<1>1. /\ RoleOK(c) /\ SettlesOK(c) /\ Active(c) /\ ShapeOK(c) /\ GraphInv /\ LifecycleInv
  BY DEF Base, LifecycleInv, ShapeInv, CaseInv, Active
<1>2. inv[c].node # "audit_and_report" /\ inv[c].node # "extract_details_and_flag_risk"
  BY DEF NextNode
<1>3. CASE Resumes(c)
  <2>1. inv[c].node = "human_review"
    BY <1>1, <1>2, <1>3 DEF RoleOK, ResumerOK, ShapeOK, Nodes
  <2>2. Carries(w, inv[c].answer.decision)
    BY <2>1 DEF UpdateOf
  <2>3. inv[c].answer.decision \in Asked(T(c))
    BY <1>1, <1>3 DEF SettlesOK
  <2> QED BY <1>3, <2>2, <2>3 DEF Carries
<1>4. CASE ~Resumes(c)
  <2>1. ~(inv[c].node = "human_review" /\ inv[c].stage = "decide")
    BY <1>1, <1>4, AnsweredResumes DEF PastAnswer
  <2>2. inv[c].node # "human_review"
    BY <2>1 DEF UpdateOf
  <2>3. CASE inv[c].node = "ingest_contract"
    BY <1>4, <2>3 DEF NextNode, AfterIngest, Case!Automatic
  <2>4. CASE inv[c].node = "parse_and_chunk_clauses"
    BY <1>4, <2>4 DEF NextNode, AfterParse, UpdateOf, Case!Automatic
  <2>5. CASE inv[c].node = "check_policy_rules"
    BY <1>4, <2>5 DEF NextNode, AfterPolicy, UpdateOf, Case!Automatic
  <2>6. CASE inv[c].node = "auto_advance_standard_cases"
    BY <1>4, <2>6 DEF UpdateOf, Case!Automatic
  <2> QED BY <1>1, <1>2, <1>4, <2>2, <2>3, <2>4, <2>5, <2>6 DEF ShapeOK, Nodes
<1> QED BY <1>3, <1>4

\* The call goes on at its node.
LEMMA CaseGoes ==
  ASSUME Base, CaseInv, NEW c \in Calls, NEW t \in Threads, T(c) = t, T(c)' = t,
         inv[c].stage \in Running, GoesOn(c), inv'[c].stage = "raised" \/ Progress(c),
         http'[c].asked = http[c].asked, Asked(t)' = Asked(t)
  PROVE  TrailOK(c)' /\ SettlesOK(c)'
<1>1. /\ TrailOK(c) /\ SettlesOK(c) /\ Active(c) /\ CkptTypeOK
      /\ inv'[c].node = inv[c].node /\ V(c)' = V(c) /\ inv'[c].answer = inv[c].answer
      /\ unsaved' = unsaved /\ (Resumes(c)' <=> Resumes(c))
  BY DEF CaseInv, Active, GoesOn, Becomes, Base, GraphInv, V, Resumes
<1>2. /\ ckpt'[t].id = ckpt[t].id /\ ckpt'[t].next = ckpt[t].next
      /\ ckpt'[t].paused = ckpt[t].paused /\ ckpt'[t].values = ckpt[t].values
  BY DEF GoesOn
<1>3. TrailOK(c)'
  <2>1. ASSUME NEW x \in Trail(c)'
        PROVE  \E y \in Trail(c) : /\ y.id = x.id /\ y.next = x.next
                                   /\ y.paused = x.paused /\ y.values = x.values
    BY <1>1, <1>2, <2>1 DEF Trail
  <2>2. \A k \in unsaved'[c] : k.answer = NoAnswer
    BY <1>1 DEF TrailOK
  <2>3. ASSUME NEW k \in unsaved'[c], NEW x \in Trail(c)', x.id < k.id,
               \A y \in unsaved'[c] : y.id <= x.id \/ y.id >= k.id
        PROVE  Follows(t, x, k)'
    <3>1. PICK z \in Trail(c) : /\ z.id = x.id /\ z.next = x.next
                                /\ z.paused = x.paused /\ z.values = x.values
      BY <2>1, <2>3
    <3>2. Follows(t, z, k)
      BY <1>1, <2>3, <3>1 DEF TrailOK
    <3>3. Follows(t, x, k)
      BY <3>1, <3>2 DEF Follows, PhaseOf
    <3> QED BY <3>3 DEF Follows
  <2>4. ASSUME inv'[c].stage \in Running, NEW x \in Trail(c)',
               \A y \in unsaved'[c] : y.id <= x.id
        PROVE  /\ x.next = inv'[c].node /\ x.values = V(c)'
               /\ x.paused <=> Resumes(c)' /\ inv'[c].node = "human_review"
    <3>1. PICK z \in Trail(c) : /\ z.id = x.id /\ z.next = x.next
                                /\ z.paused = x.paused /\ z.values = x.values
      BY <2>1, <2>4
    <3>2. \A y \in unsaved[c] : y.id <= z.id
      BY <1>1, <2>4, <3>1
    <3>3. /\ z.next = inv[c].node /\ z.values = V(c)
          /\ z.paused <=> Resumes(c) /\ inv[c].node = "human_review"
      BY <1>1, <3>2 DEF TrailOK
    <3> QED BY <1>1, <3>1, <3>3
  <2> QED BY <2>2, <2>3, <2>4 DEF TrailOK, Trail
<1>4. SettlesOK(c)'
  <2>1. Resumes(c) => inv[c].answer.decision \in Asked(t)
    BY <1>1 DEF SettlesOK
  <2>2. ASSUME inv'[c].stage \in Running, Concluding(c)',
               NextNode(inv[c].node, inv'[c].result) = "audit_and_report"
        PROVE  IF Resumes(c) THEN \E d \in Asked(t) : inv'[c].result.final_status = Verdict(d)
               ELSE inv'[c].result.final_status \in Case!Automatic
    <3>1. Progress(c)
      BY <2>2 DEF Running
    <3>2. CASE inv'[c].result = inv[c].result /\ Concluding(c)
      BY <1>1, <2>2, <3>2 DEF SettlesOK
    <3>3. CASE inv[c].node = "audit_and_report"
      BY <2>2, <3>3 DEF NextNode
    <3>4. CASE /\ inv'[c].stage = "insert"
               /\ UpdateOf(c, inv'[c].result, inv'[c].event.type)
      <4>1. inv'[c].event.type \notin {"human_review_pending", "human_review_resumed"}
        BY <2>2, <3>4 DEF Concluding, Writing
      <4> QED BY <2>2, <3>4, <4>1, SettlesUpdate
    <3> QED BY <2>2, <3>1, <3>2, <3>3, <3>4 DEF Progress
  <2> QED BY <1>1, <2>1, <2>2 DEF SettlesOK
<1> QED BY <1>3, <1>4

\* The newest checkpoint of a trail is the one its call works from.
Newest(c, x) ==
  /\ x.next = inv[c].node /\ x.values = V(c)
  /\ x.paused <=> Resumes(c) /\ inv[c].node = "human_review"

\* A checkpoint more.
LEMMA CaseMakes ==
  ASSUME Base, CaseInv, NEW c \in Calls, NEW t \in Threads, T(c) = t, T(c)' = t,
         inv[c].stage \in Running,
         NEW k, k.id = clock + 1, k.answer = NoAnswer,
         unsaved'[c] = unsaved[c] \cup {k}, ckpt' = ckpt, Asked(t)' = Asked(t),
         \A x \in Trail(c) : Newest(c, x) => Follows(t, x, k),
         inv'[c].stage \in Running => Newest(c, k)'
  PROVE  TrailOK(c)'
<1>1. /\ TrailOK(c) /\ Active(c) /\ CkptTypeOK /\ UnsavedOK(c) /\ SavedOK(t)
  BY DEF CaseInv, Active, Base, GraphInv, SerialInv, ShapeInv
<1>2. clock \in Nat /\ \A x \in Trail(c) : x.id \in Nat /\ x.id <= clock
  BY <1>1 DEF Trail, CkptTypeOK, Checkpoint, UnsavedOK, SavedOK
<1>3. Trail(c)' = Trail(c) \cup {k}
  BY DEF Trail
<1>4. \A o \in unsaved'[c] : o.answer = NoAnswer
  BY <1>1 DEF TrailOK
<1>5. ASSUME NEW o \in unsaved'[c], NEW x \in Trail(c)', x.id < o.id,
             \A y \in unsaved'[c] : y.id <= x.id \/ y.id >= o.id
      PROVE  Follows(t, x, o)'
  <2>1. x \in Trail(c)
    <3>1. x # k
      BY <1>2, <1>5 DEF Trail
    <3> QED BY <1>3, <3>1
  <2>2. CASE o = k
    <3>1. \A y \in unsaved[c] : y.id <= x.id
      <4>1. \A y \in unsaved[c] : y.id \in Nat /\ y.id <= clock
        BY <1>2 DEF Trail
      <4> QED BY <1>2, <1>5, <2>2, <4>1
    <3>2. Newest(c, x)
      BY <1>1, <2>1, <3>1 DEF TrailOK, Newest
    <3>3. Follows(t, x, o)
      BY <2>1, <2>2, <3>2
    <3> QED BY <3>3 DEF Follows
  <2>3. CASE o # k
    <3>1. Follows(t, x, o)
      BY <1>1, <1>5, <2>1, <2>3 DEF TrailOK
    <3> QED BY <3>1 DEF Follows
  <2> QED BY <2>2, <2>3
<1>6. ASSUME inv'[c].stage \in Running, NEW x \in Trail(c)',
             \A y \in unsaved'[c] : y.id <= x.id
      PROVE  Newest(c, x)'
  <2>1. x = k
    BY <1>2, <1>3, <1>6
  <2> QED BY <1>6, <2>1 DEF Newest
<1> QED BY <1>4, <1>5, <1>6 DEF TrailOK, Trail, Newest

\* human_review pauses: whoever pauses has not been answered.
LEMMA CasePause ==
  ASSUME Base, CaseInv, NEW c \in Calls, NEW t \in Threads, T(c) = t, T(c)' = t,
         Pause(c), http' = http, Asked(t)' = Asked(t)
  PROVE  TrailOK(c)' /\ SettlesOK(c)'
<1>1. /\ inv[c].stage = "interrupt" /\ inv[c].stage \in Running /\ CkptTypeOK
      /\ inv[c].node = "human_review" /\ inv[c].answer = NoAnswer /\ RoleOK(c)
      /\ inv \in [Calls -> Invocation] /\ Go(c, "returned") /\ Active(c)
  BY DEF Pause, At, Running, Base, GraphInv, GraphTypeOK, LifecycleInv, Active
<1>2. inv'[c].stage = "returned"
  BY <1>1 DEF Go
<1>3. ~Resumes(c)
  BY <1>1 DEF RoleOK, ResumerOK
<1> DEFINE paused == TRUE
<1>4. MakeCheckpoint(c, "human_review", V(c), paused)
  BY DEF Pause
<1> HIDE DEF paused
<1>5. PICK k : /\ k.id = clock + 1 /\ k.next = "human_review" /\ k.paused = paused
               /\ k.answer = NoAnswer
               /\ unsaved'[c] = unsaved[c] \cup {k} /\ ckpt' = ckpt
  BY <1>1, <1>4, MakeJoins
<1>6. ASSUME NEW x \in Trail(c), Newest(c, x) PROVE Follows(t, x, k)
  <2>1. PhaseOf(x) = "screening"
    BY <1>1, <1>3, <1>6 DEF Newest, PhaseOf
  <2>2. PhaseOf(k) = "awaiting"
    <3>1. k.paused
      BY <1>5 DEF paused
    <3> QED BY <1>5, <3>1 DEF PhaseOf
  <2> QED BY <2>1, <2>2 DEF Follows
<1>7. TrailOK(c)'
  BY <1>1, <1>2, <1>5, <1>6, CaseMakes DEF Running
<1>8. SettlesOK(c)'
  BY <1>2, <1>3 DEF SettlesOK, Resumes, Running
<1> QED BY <1>7, <1>8

\* A node returns: its edge decides what its checkpoint is a step to.
LEMMA CaseReturn ==
  ASSUME Base, CaseInv, NEW c \in Calls, NEW t \in Threads, T(c) = t, T(c)' = t,
         Return(c), http' = http, Asked(t)' = Asked(t)
  PROVE  TrailOK(c)' /\ SettlesOK(c)'
<1> DEFINE next == NextNode(inv[c].node, inv[c].result)
           s == IF next = "END" THEN "returned" ELSE "body"
           paused == FALSE
<1>1. /\ inv[c].stage = "return" /\ inv[c].stage \in Running /\ CkptTypeOK /\ ShapeOK(c)
      /\ inv \in [Calls -> Invocation] /\ Active(c) /\ RoleOK(c) /\ SettlesOK(c) /\ DecidedOK(c)
  BY DEF Return, Running, Base, GraphInv, GraphTypeOK, LifecycleInv, Active, CaseInv, ShapeInv,
     SerialInv, SoleCallOK
<1>2. /\ inv'[c].stage = s /\ inv'[c].node = next /\ V(c)' = inv[c].result
      /\ inv'[c].answer = inv[c].answer
      /\ MakeCheckpoint(c, next, inv[c].result, paused)
  BY <1>1, ReturnBecomes DEF Becomes, V
<1>3. ~paused /\ (s = "body" \/ (s = "returned" /\ next = "END"))
  OBVIOUS
<1>4. /\ next \in Nodes \cup {"END"} /\ (next = "END" <=> inv[c].node = "audit_and_report")
      /\ next = "human_review" => inv[c].node = "check_policy_rules"
      /\ inv[c].node = "human_review" => next = "audit_and_report"
  BY NextNodeCases
<1>5. Concluding(c)
  BY <1>1 DEF Concluding, Writing
<1>6. next = "audit_and_report" =>
        IF Resumes(c) THEN \E d \in Asked(T(c)) : inv[c].result.final_status = Verdict(d)
        ELSE inv[c].result.final_status \in Case!Automatic
  BY <1>1, <1>5 DEF SettlesOK
<1> HIDE DEF next, s, paused
<1>7. PICK k : /\ k.id = clock + 1 /\ k.next = next /\ k.values = inv[c].result
               /\ k.paused = paused /\ k.answer = NoAnswer
               /\ unsaved'[c] = unsaved[c] \cup {k} /\ ckpt' = ckpt
  BY <1>1, <1>2, MakeJoins
<1>8. inv[c].node \in Nodes /\ (Resumes(c) => inv[c].node \in {"human_review", "audit_and_report"})
  BY <1>1 DEF ShapeOK, RoleOK, ResumerOK, Nodes
<1>9. ASSUME NEW x \in Trail(c), Newest(c, x) PROVE Follows(t, x, k)
  <2>1. /\ x.next = inv[c].node /\ x.values = V(c)
        /\ x.paused <=> Resumes(c) /\ inv[c].node = "human_review"
    BY <1>9 DEF Newest
  <2>2. CASE next = "END"
    <3>1. PhaseOf(k) = "closed" /\ PhaseOf(x) = "settled"
      BY <1>3, <1>4, <1>7, <2>1, <2>2 DEF PhaseOf
    <3>2. inv[c].result = V(c)
      BY <1>1, <1>4, <2>2 DEF DecidedOK
    <3> QED BY <1>7, <2>1, <3>1, <3>2 DEF Follows
  <2>3. CASE next = "audit_and_report"
    <3>1. PhaseOf(k) = "settled"
      BY <1>3, <1>7, <2>3 DEF PhaseOf
    <3>2. CASE Resumes(c)
      <4>1. PhaseOf(x) = "awaiting"
        BY <1>4, <1>8, <2>1, <2>3, <3>2 DEF PhaseOf
      <4> QED BY <1>6, <1>7, <2>3, <3>1, <3>2, <4>1 DEF Follows
    <3>3. CASE ~Resumes(c)
      <4>1. PhaseOf(x) = "screening"
        BY <1>4, <1>8, <2>1, <2>3, <3>3 DEF PhaseOf, Nodes
      <4> QED BY <1>6, <1>7, <2>3, <3>1, <3>3, <4>1 DEF Follows
    <3> QED BY <3>2, <3>3
  <2>4. CASE next \notin {"END", "audit_and_report"}
    <3>1. PhaseOf(k) = "screening"
      BY <1>3, <1>4, <1>7, <2>4 DEF PhaseOf, Nodes
    <3>2. PhaseOf(x) = "screening"
      BY <1>4, <1>8, <2>1, <2>4 DEF PhaseOf, Nodes
    <3> QED BY <3>1, <3>2 DEF Follows
  <2> QED BY <2>2, <2>3, <2>4
<1>10. Newest(c, k)'
  <2>1. ~(Resumes(c) /\ next = "human_review")
    BY <1>4, <1>8
  <2> QED BY <1>2, <1>3, <1>7, <2>1 DEF Newest, Resumes
<1>11. TrailOK(c)'
  BY <1>1, <1>7, <1>9, <1>10, CaseMakes
<1>12. SettlesOK(c)'
  BY <1>1, <1>2, <1>3 DEF SettlesOK, Resumes, Concluding, Writing, Running
<1> QED BY <1>11, <1>12

\* The writer saves the oldest checkpoint: what was to be saved becomes the trail.
LEMMA CaseSave ==
  ASSUME Base, CaseInv, NEW c \in Calls, NEW t \in Threads, T(c) = t, T(c)' = t,
         Save(c), http' = http, Asked(t)' = Asked(t)
  PROVE  TrailOK(c)' /\ SettlesOK(c)' /\ ckpt'[t].answer = NoAnswer
<1>1. /\ GraphInv /\ ShapeInv /\ CkptTypeOK /\ TrailOK(c) /\ SettlesOK(c) /\ LastOK(c)
  BY DEF Base, GraphInv, SerialInv, SoleCallOK, CaseInv
<1>2. PICK k \in unsaved[c] :
        /\ unsaved'[c] = unsaved[c] \ {k}
        /\ \A other \in unsaved'[c] : other.id > k.id
        /\ ckpt'[t] = IF k.id > ckpt[t].id THEN k ELSE ckpt[t]
  BY <1>1, SaveParts
<1>3. Active(c) /\ inv' = inv
  BY <1>1, SaveParts
<1>4. ckpt'[t] = k /\ k.answer = NoAnswer
  BY <1>1, <1>2, <1>3 DEF LastOK, TrailOK
<1>5. Trail(c)' = unsaved[c] /\ \A x \in unsaved[c] : x.id \in Nat /\ x.id >= k.id
  <2>1. \A x \in unsaved[c] : x.id \in Nat
    BY <1>1 DEF CkptTypeOK, Checkpoint
  <2>2. Trail(c)' = unsaved[c]
    BY <1>2, <1>4 DEF Trail
  <2> QED BY <1>2, <2>1, <2>2
<1>6. ASSUME NEW o \in unsaved'[c], NEW x \in Trail(c)', x.id < o.id,
             \A y \in unsaved'[c] : y.id <= x.id \/ y.id >= o.id
      PROVE  Follows(t, x, o)'
  <2>1. \A y \in unsaved[c] : y.id <= x.id \/ y.id >= o.id
    BY <1>2, <1>5, <1>6
  <2>2. Follows(t, x, o)
    BY <1>1, <1>2, <1>3, <1>5, <1>6, <2>1 DEF TrailOK, Trail
  <2> QED BY <2>2 DEF Follows
<1>7. ASSUME inv'[c].stage \in Running, NEW x \in Trail(c)',
             \A y \in unsaved'[c] : y.id <= x.id
      PROVE  Newest(c, x)'
  <2>1. \A y \in unsaved[c] : y.id <= x.id
    BY <1>2, <1>5, <1>7
  <2>2. Newest(c, x)
    BY <1>1, <1>3, <1>5, <1>7, <2>1 DEF TrailOK, Trail, Newest
  <2> QED BY <1>3, <2>2 DEF Newest, V, Resumes
<1>8. TrailOK(c)'
  BY <1>1, <1>2, <1>3, <1>6, <1>7 DEF TrailOK, Trail, Newest
<1>9. SettlesOK(c)'
  BY <1>1, <1>3 DEF SettlesOK, Resumes, Concluding, Writing, T
<1> QED BY <1>4, <1>8, <1>9

\* A run takes its thread: the first checkpoint follows no other.
LEMMA CaseRuns ==
  ASSUME Base, CaseInv, NEW c \in Calls, NEW t \in Threads, AtThread(c, t), Runs(c, t)
  PROVE  TrailOK(c)' /\ SettlesOK(c)'
<1>1. /\ CkptTypeOK /\ inv \in [Calls -> Invocation] /\ unsaved[c] = {} /\ ~Resumes(c)
      /\ T(c)' = t /\ http' = http /\ inv[c].stage = "idle"
  BY DEF Base, GraphInv, GraphTypeOK, CallOK, LifecycleInv, RoleOK, AtThread, Runs, T
<1>2. ckpt[t] = NoCheckpoint
  BY DEF Base, LifecycleInv, ThreadOK, Untouched, Runs
<1> DEFINE v == ckpt[t].values
           paused == FALSE
<1>3. PICK doc \in Uploads :
        /\ MakeCheckpoint(c, "ingest_contract", v, paused)
        /\ inv' = [inv EXCEPT ![c] =
                   [NoInvocation EXCEPT !.stage = "body", !.node = "ingest_contract",
                                        !.thread = t, !.document = doc, !.values = v]]
  BY DEF Runs, Start
<1>4. inv'[c].stage = "body" /\ inv'[c].node = "ingest_contract" /\ V(c)' = v
  BY <1>1, <1>3 DEF NoInvocation, V
<1> HIDE DEF v, paused
<1>5. PICK k : /\ k.id = clock + 1 /\ k.next = "ingest_contract" /\ k.values = v
               /\ k.paused = paused /\ k.answer = NoAnswer
               /\ unsaved'[c] = unsaved[c] \cup {k} /\ ckpt' = ckpt
  BY <1>1, <1>3, MakeJoins
<1>6. ~k.paused
  BY <1>5 DEF paused
<1>7. /\ unsaved'[c] = {k} /\ Trail(c)' = {k, ckpt[t]} /\ clock \in Nat /\ ckpt[t].id = 0
      /\ ~Resumes(c)'
  <2>1. unsaved'[c] = {k} /\ clock \in Nat /\ ~Resumes(c)'
    BY <1>1, <1>5 DEF CkptTypeOK, Resumes
  <2>2. ckpt[t].id = 0
    BY <1>2 DEF NoCheckpoint
  <2>3. Trail(c)' = {k, ckpt[t]}
    BY <1>1, <1>5, <2>1 DEF Trail
  <2> QED BY <2>1, <2>2, <2>3
<1>8. PhaseOf(ckpt[t]) = "none" /\ PhaseOf(k) = "screening"
  <2>1. PhaseOf(ckpt[t]) = "none"
    BY <1>2 DEF PhaseOf, NoCheckpoint
  <2> QED BY <1>5, <1>6, <2>1 DEF PhaseOf
<1>9. Newest(c, k)'
  BY <1>4, <1>5, <1>6, <1>7 DEF Newest
<1>10. ASSUME NEW o \in unsaved'[c], NEW x \in Trail(c)', x.id < o.id
       PROVE  Follows(t, x, o)'
  <2>1. o = k /\ x = ckpt[t]
    BY <1>5, <1>7, <1>10
  <2>2. PhaseOf(x) = "none" /\ PhaseOf(o) = "screening"
    BY <1>8, <2>1
  <2> QED BY <2>2 DEF Follows
<1>11. ASSUME NEW x \in Trail(c)', \A y \in unsaved'[c] : y.id <= x.id
       PROVE  Newest(c, x)'
  <2>1. x = k
    BY <1>5, <1>7, <1>11
  <2> QED BY <1>9, <2>1
<1>12. TrailOK(c)'
  <2>1. \A o \in unsaved'[c] : o.answer = NoAnswer
    BY <1>5, <1>7
  <2> QED BY <1>1, <1>10, <1>11, <2>1 DEF TrailOK, Trail, Newest
<1>13. SettlesOK(c)'
  BY <1>4, <1>7 DEF SettlesOK, Concluding
<1> QED BY <1>12, <1>13

\* A resume takes a paused thread up where it stands.
LEMMA CaseTakes ==
  ASSUME Base, CaseInv, NEW c \in Calls, NEW t \in Threads, AtThread(c, t), Takes(c, t),
         Asked(t)' = Asked(t)
  PROVE  TrailOK(c)' /\ SettlesOK(c)'
<1>1. /\ CkptTypeOK /\ inv \in [Calls -> Invocation] /\ Active(c) /\ RoleOK(c)
      /\ T(c)' = t /\ http' = http /\ inv[c].stage = "checked" /\ T(c) = t
      /\ ckpt' = ckpt /\ unsaved' = unsaved /\ ckpt[t].paused /\ SavedOK(t) /\ SettlesOK(c)
  BY DEF Base, GraphInv, GraphTypeOK, LifecycleInv, ShapeInv, AtThread, Takes, Active, T, Resume,
     ckptVars, CaseInv, Interrupted
<1>2. Resumes(c) /\ unsaved[c] = {} /\ ckpt[t].next = "human_review"
  BY <1>1 DEF RoleOK, RunnerOK, ResumerOK, SavedOK
<1> DEFINE a == IF ckpt[t].answer = NoAnswer THEN inv[c].answer ELSE ckpt[t].answer
           s == IF ckpt[t].next = "END" THEN "returned" ELSE "body"
           new == [NoInvocation EXCEPT !.stage = s, !.node = ckpt[t].next, !.thread = t,
                                       !.values = ckpt[t].values, !.answer = a]
<1>3. inv' = [inv EXCEPT ![c] = new]
  BY DEF Takes, Resume
<1>4. s = "body"
  BY <1>2
<1>5. a.decision \in Asked(t)
  BY <1>1, <1>2 DEF SettlesOK, CaseInv
<1> HIDE DEF a, s
<1>6. /\ new.stage = s /\ new.node = ckpt[t].next /\ new.values = ckpt[t].values
      /\ new.answer = a
  BY DEF NoInvocation
<1> HIDE DEF new
<1>7. /\ inv'[c].stage = "body" /\ inv'[c].node = "human_review" /\ V(c)' = ckpt[t].values
      /\ inv'[c].answer = a /\ Resumes(c)'
  BY <1>1, <1>2, <1>3, <1>4, <1>6 DEF V, Resumes
<1>8. unsaved'[c] = {} /\ Trail(c)' = {ckpt[t]}
  BY <1>1, <1>2 DEF Trail
<1>9. TrailOK(c)'
  BY <1>1, <1>2, <1>7, <1>8 DEF TrailOK
<1>10. SettlesOK(c)'
  BY <1>1, <1>5, <1>7 DEF SettlesOK, Concluding
<1> QED BY <1>9, <1>10

\* A call at its thread.
LEMMA CaseAt ==
  ASSUME Base, CaseInv, NEW c \in Calls, NEW t \in Threads, AtThread(c, t), ThreadStep(c, t)
  PROVE  /\ TrailOK(c)' /\ SettlesOK(c)'
         /\ ckpt'[t].answer # NoAnswer => ckpt'[t].answer.decision \in Asked(t)'
<1>1. /\ GraphInv /\ ShapeInv /\ CkptTypeOK /\ inv \in [Calls -> Invocation] /\ T(c)' = t
      /\ HttpOK /\ RoleOK(c) /\ TrailOK(c) /\ SettlesOK(c) /\ CallOK(c) /\ LifecycleInv
      /\ Asked(t) \subseteq Asked(t)'
      /\ ckpt[t].answer # NoAnswer => ckpt[t].answer.decision \in Asked(t)
  BY AskedGrows
  DEF Base, GraphInv, GraphTypeOK, LifecycleInv, SerialInv, CaseInv, AtThread, T
<1>2. ~Asks(c, t) => Asked(t)' = Asked(t) /\ http'[c].asked = http[c].asked
  BY AskedGrows
<1>3. CASE Runs(c, t)
  <2>1. ckpt' = ckpt
    BY <1>3 DEF Runs, Start, MakeCheckpoint
  <2> QED BY <1>1, <1>3, <2>1, CaseRuns
<1>4. CASE Asks(c, t)
  <2>1. PICK d \in Decisions, e \in Edits :
          /\ inv' = [inv EXCEPT ![c] =
                      [NoInvocation EXCEPT !.stage = "checked", !.thread = t,
                         !.answer = [form |-> "object", decision |-> d, edits |-> e]]]
          /\ http' = [http EXCEPT ![c].asked = d]
    BY <1>4 DEF Asks
  <2>2. /\ inv'[c].stage = "checked" /\ inv'[c].answer.decision = d
        /\ http'[c].asked = d
    BY <1>1, <2>1 DEF NoInvocation, HttpOK, Http
  <2>3. d \in Asked(t)'
    BY <1>4, <2>2, AskedGrows
  <2>4. ckpt' = ckpt /\ unsaved'[c] = {}
    BY <1>1, <1>4 DEF Asks, ckptVars, CallOK
  <2>5. TrailOK(c)' /\ SettlesOK(c)'
    BY <1>1, <2>2, <2>3, <2>4 DEF TrailOK, SettlesOK, Running, Resumes
  <2> QED BY <1>1, <2>4, <2>5
<1>5. CASE Takes(c, t)
  <2>1. ~Asks(c, t) /\ ckpt' = ckpt
    BY <1>5 DEF Takes, Asks, Resume, ckptVars
  <2> QED BY <1>1, <1>2, <1>5, <2>1, CaseTakes
<1>6. CASE T(c) = t /\ (NodeStep(c) \/ StatementFails(c)) /\ http' = http
  <2>1. inv[c].stage \in Running /\ Asked(t)' = Asked(t)
    <3>1. inv[c].stage \in Running
      BY <1>1, <1>6, NodeStepGoes, FaultParts
    <3> QED BY <1>2, <3>1 DEF Asks, Running
  <2>2. TrailOK(c)' /\ SettlesOK(c)'
    <3>1. CASE Pause(c)
      BY <1>1, <1>6, <2>1, <3>1, CasePause
    <3>2. CASE Return(c)
      BY <1>1, <1>6, <2>1, <3>2, CaseReturn
    <3>3. CASE GoesOn(c) /\ (inv'[c].stage = "raised" \/ Progress(c))
      BY <1>1, <1>6, <2>1, <3>3, CaseGoes
    <3> QED BY <1>1, <1>6, <3>1, <3>2, <3>3, NodeStepKinds, FaultGoes
  <2>3. inv[c].answer # NoAnswer => inv[c].answer.decision \in Asked(t)
    BY <1>1, <1>6, <2>1, AnsweredResumes DEF SettlesOK
  <2> QED BY <1>1, <1>6, <2>1, <2>2, <2>3, AnswersKept
<1>7. CASE T(c) = t /\ Save(c) /\ http' = http
  <2>1. Active(c)
    BY <1>1, <1>7, SaveParts
  <2>2. Asked(t)' = Asked(t)
    BY <1>2, <2>1 DEF Asks, Active, Running
  <2> QED BY <1>1, <1>7, <2>2, CaseSave
<1>8. CASE T(c) = t /\ (Respond(c) \/ RespondError(c))
  <2>1. /\ inv'[c].stage = "done" /\ ckpt' = ckpt
    BY <1>1, <1>8 DEF Respond, RespondError, Over, NoInvocation, ckptVars
  <2>2. TrailOK(c)' /\ SettlesOK(c)'
    BY <2>1 DEF TrailOK, SettlesOK, Active, Running
  <2> QED BY <1>1, <2>1, <2>2
<1> QED BY <1>3, <1>4, <1>5, <1>6, <1>7, <1>8 DEF ThreadStep

\* Steps of no thread: nobody asks for anything.
LEMMA AskedStays ==
  ASSUME \A d \in Calls : T(d)' = T(d) /\ http'[d].asked = http[d].asked
  PROVE  \A t \in Threads : Asked(t)' = Asked(t)
BY DEF Asked

\* Every step of the service.
LEMMA CaseServiceStep ==
  ASSUME ~Overlap, Checkpointer = "sqlite", Base, CaseInv, [Next]_vars
  PROVE  CaseInv'
<1>1. ASSUME NEW c \in Calls, NEW t \in Threads, AtThread(c, t), ThreadStep(c, t)
      PROVE  CaseInv'
  <2>1. ASSUME NEW d \in Calls, d # c PROVE TrailOK(d)' /\ SettlesOK(d)'
    <3>1. Active(d) => T(d) \in Threads /\ T(d) # t
      BY <1>1, <2>1 DEF AtThread, Base, GraphInv, CallOK, T
    <3>2. ASSUME NEW u \in Threads, u # t
          PROVE  ckpt'[u] = ckpt[u] /\ Asked(u)' = Asked(u)
      BY <1>1, <3>2, AskedGrows DEF AtThread, SameThread
    <3>3. inv'[d] = inv[d] /\ unsaved'[d] = unsaved[d] /\ http'[d] = http[d]
      BY <1>1, <2>1 DEF AtThread
    <3> QED BY <3>1, <3>2, <3>3, CaseOther
  <2>2. ASSUME NEW u \in Threads, u # t
        PROVE  ckpt'[u].answer # NoAnswer => ckpt'[u].answer.decision \in Asked(u)'
    BY <1>1, <2>2, AskedGrows DEF AtThread, SameThread, CaseInv
  <2> QED BY <1>1, <2>1, <2>2, CaseAt DEF CaseInv
<1>2. ASSUME ckpt' = ckpt, \A t \in Threads : Asked(t)' = Asked(t),
             \A d \in Calls : \/ TrailOK(d)' /\ SettlesOK(d)'
                              \/ /\ inv'[d] = inv[d] /\ unsaved'[d] = unsaved[d]
                                 /\ http'[d] = http[d]
      PROVE  CaseInv'
  <2>1. ASSUME NEW d \in Calls PROVE TrailOK(d)' /\ SettlesOK(d)'
    <3>1. Active(d) => T(d) \in Threads
      BY DEF Base, GraphInv, CallOK, T
    <3> QED BY <1>2, <3>1, CaseOther
  <2> QED BY <1>2, <2>1 DEF CaseInv
<1>3. ASSUME NEW c \in Calls, TurnedAway(c) PROVE CaseInv'
  <2>1. /\ inv \in [Calls -> Invocation] /\ http \in [Calls -> Http] /\ ckpt' = ckpt
        /\ unsaved' = unsaved
    BY <1>3 DEF Base, GraphInv, GraphTypeOK, HttpOK, TurnedAway, ckptVars
  <2>2. /\ inv'[c].stage = "done" /\ inv'[c].thread = T(c) /\ http'[c].asked = http[c].asked
        /\ \A d \in Calls : d # c => inv'[d] = inv[d] /\ http'[d] = http[d]
    BY <1>3, <2>1 DEF TurnedAway, Invocation, Http, T
  <2>3. TrailOK(c)' /\ SettlesOK(c)'
    BY <2>2 DEF TrailOK, SettlesOK, Active, Running
  <2>4. \A t \in Threads : Asked(t)' = Asked(t)
    BY <2>2, AskedStays DEF T
  <2> QED BY <1>2, <2>1, <2>2, <2>3, <2>4
<1>4. CASE CrashStep
  <2>1. /\ inv' = [c \in Calls |-> IF Active(c) THEN Over(c, "dead") ELSE inv[c]]
        /\ ckpt' = ckpt /\ http' = http /\ unsaved' = [c \in Calls |-> {}]
    BY <1>4 DEF CrashStep, Crash, LoseUnsaved
  <2>2. \A d \in Calls : T(d)' = T(d)
    BY <2>1 DEF Over, NoInvocation, T
  <2>3. \A t \in Threads : Asked(t)' = Asked(t)
    BY <2>1, <2>2, AskedStays
  <2>4. ASSUME NEW d \in Calls
        PROVE  \/ TrailOK(d)' /\ SettlesOK(d)'
               \/ /\ inv'[d] = inv[d] /\ unsaved'[d] = unsaved[d]
                  /\ http'[d] = http[d]
    <3>1. CASE Active(d)
      <4>1. inv'[d].stage = "dead"
        BY <2>1, <3>1 DEF Over, NoInvocation
      <4> QED BY <4>1 DEF TrailOK, SettlesOK, Active, Running
    <3>2. CASE ~Active(d)
      BY <2>1, <3>2 DEF Base, LifecycleInv, ShapeInv, ShapeOK
    <3> QED BY <3>1, <3>2
  <2> QED BY <1>2, <2>1, <2>3, <2>4
<1>5. CASE UNCHANGED vars
  <2>1. \A t \in Threads : Asked(t)' = Asked(t)
    BY <1>5, AskedStays DEF vars, T
  <2> QED BY <1>2, <1>5, <2>1 DEF vars, ckptVars
<1> QED BY <1>1, <1>3, <1>4, <1>5, ServiceSteps

--------------------------------------------------------------------------------
(* The service implements ReviewCase. *)

\* A step that moves no checkpoint and asks for nothing.
LEMMA CaseStands ==
  ASSUME \A u \in Threads : /\ ckpt'[u].next = ckpt[u].next
                            /\ ckpt'[u].paused = ckpt[u].paused
                            /\ ckpt'[u].values = ckpt[u].values
                            /\ Asked(u)' = Asked(u)
  PROVE  UNCHANGED Case!caseVars
<1>1. \A u \in Threads : /\ PhaseOf(ckpt'[u]) = PhaseOf(ckpt[u])
                         /\ OutcomeSoFar(ckpt'[u]) = OutcomeSoFar(ckpt[u])
  BY DEF PhaseOf, OutcomeSoFar
<1> QED BY <1>1 DEF Case!caseVars

\* A reviewer submits a decision on a thread that waits.
LEMMA CaseSubmits ==
  ASSUME Base, NEW c \in Calls, NEW t \in Threads, AtThread(c, t), Asks(c, t)
  PROVE  Case!CaseNext
<1>1. ckpt' = ckpt /\ PhaseOf(ckpt[t]) = "awaiting"
  <2>1. ckpt[t].paused /\ SavedOK(t)
    BY DEF Asks, Interrupted, Base, SerialInv, ShapeInv
  <2> QED BY <2>1 DEF Asks, ckptVars, SavedOK, PhaseOf
<1>2. PICK d \in Decisions : /\ Asked(t)' = Asked(t) \cup {d}
                             /\ \A u \in Threads : u # t => Asked(u)' = Asked(u)
  BY AskedGrows DEF ThreadStep
<1> DEFINE P == [u \in Threads |-> PhaseOf(ckpt[u])]
           O == [u \in Threads |-> OutcomeSoFar(ckpt[u])]
           S == [u \in Threads |-> Asked(u)]
<1>3. S' = [S EXCEPT ![t] = S[t] \cup {d}]
  BY <1>2
<1>4. P' = P /\ O' = O /\ P[t] = "awaiting"
  BY <1>1
<1>5. Case!Submit(t, d)
  BY <1>3, <1>4 DEF Case!Submit
<1> QED BY <1>5 DEF Case!CaseNext, Case!Decisions, Decisions

\* A checkpoint that follows the thread's is a step of its case, or of its screening.
LEMMA CaseMoves ==
  ASSUME NEW t \in Threads, NEW k, ckpt'[t] = k, Follows(t, ckpt[t], k), k.next # "NONE",
         \A u \in Threads : u # t => ckpt'[u] = ckpt[u],
         \A u \in Threads : Asked(u)' = Asked(u), Asked(t) \subseteq Decisions
  PROVE  [Case!CaseNext]_(Case!caseVars)
<1> DEFINE P == [u \in Threads |-> PhaseOf(ckpt[u])]
           O == [u \in Threads |-> OutcomeSoFar(ckpt[u])]
           S == [u \in Threads |-> Asked(u)]
<1>1. P' = [P EXCEPT ![t] = PhaseOf(k)] /\ P[t] = PhaseOf(ckpt[t])
  OBVIOUS
<1>2. O' = [O EXCEPT ![t] = OutcomeSoFar(k)] /\ O[t] = OutcomeSoFar(ckpt[t])
  OBVIOUS
<1>3. S' = S /\ S[t] = Asked(t)
  OBVIOUS
<1>4. O[t] = OutcomeSoFar(k) => O' = O
  BY <1>2
<1>5. CASE PhaseOf(k) = "awaiting"
  <2>1. PhaseOf(ckpt[t]) = "screening"
    BY <1>5 DEF Follows
  <2>2. O' = O
    BY <1>2, <1>4, <1>5, <2>1 DEF OutcomeSoFar
  <2>3. Case!Ask(t)
    BY <1>1, <1>3, <1>5, <2>1, <2>2 DEF Case!Ask, Case!Move
  <2> QED BY <2>3 DEF Case!CaseNext
<1>6. CASE PhaseOf(k) = "settled"
  <2>1. OutcomeSoFar(k) = k.values.final_status
    BY <1>6 DEF OutcomeSoFar
  <2>2. CASE PhaseOf(ckpt[t]) = "screening" /\ k.values.final_status \in Case!Automatic
    <3>1. Case!SettleAutomatically(t)
      BY <1>1, <1>2, <1>3, <1>6, <2>1, <2>2 DEF Case!SettleAutomatically, Case!Move
    <3> QED BY <3>1 DEF Case!CaseNext
  <2>3. CASE /\ PhaseOf(ckpt[t]) = "awaiting"
             /\ \E d \in Asked(t) : k.values.final_status = Verdict(d)
    <3>1. PICK d \in Asked(t) : k.values.final_status = Verdict(d)
      BY <2>3
    <3>2. Verdict(d) = Case!OutcomeOf(d)
      BY <3>1 DEF Verdict, Case!OutcomeOf, Decisions
    <3>3. O' = [O EXCEPT ![t] = Case!OutcomeOf(d)]
      BY <1>2, <2>1, <3>1, <3>2
    <3>4. Case!SettleByReviewer(t)
      BY <1>1, <1>3, <1>6, <2>3, <3>1, <3>3 DEF Case!SettleByReviewer, Case!Move
    <3> QED BY <3>4 DEF Case!CaseNext
  <2> QED BY <1>6, <2>2, <2>3 DEF Follows
<1>7. CASE PhaseOf(k) = "closed"
  <2>1. /\ PhaseOf(ckpt[t]) = "settled"
        /\ k.values.final_status = ckpt[t].values.final_status
    BY <1>7 DEF Follows
  <2>2. O' = O
    BY <1>2, <1>4, <1>7, <2>1 DEF OutcomeSoFar
  <2>3. Case!Close(t)
    BY <1>1, <1>3, <1>7, <2>1, <2>2 DEF Case!Close, Case!Move
  <2> QED BY <2>3 DEF Case!CaseNext
<1>8. CASE PhaseOf(k) \notin {"awaiting", "settled", "closed"}
  <2>1. PhaseOf(k) = "screening" /\ PhaseOf(ckpt[t]) \in {"none", "screening"}
    BY <1>8 DEF Follows, PhaseOf
  <2>2. O' = O
    BY <1>2, <1>4, <2>1 DEF OutcomeSoFar
  <2>3. CASE PhaseOf(ckpt[t]) = "none"
    <3>1. Case!Open(t)
      BY <1>1, <1>3, <2>1, <2>2, <2>3 DEF Case!Open, Case!Move
    <3> QED BY <3>1 DEF Case!CaseNext
  <2>4. CASE PhaseOf(ckpt[t]) = "screening"
    <3>1. P' = P
      BY <1>1, <2>1, <2>4
    <3> QED BY <1>3, <2>2, <3>1 DEF Case!caseVars
  <2> QED BY <2>1, <2>3, <2>4
<1> QED BY <1>5, <1>6, <1>7, <1>8

\* The writer takes the case of its thread one step on.
LEMMA CaseSaves ==
  ASSUME Base, CaseInv, NEW c \in Calls, NEW t \in Threads, AtThread(c, t), T(c) = t, Save(c),
         Asked(t)' = Asked(t), \A u \in Threads : u # t => Asked(u)' = Asked(u)
  PROVE  [Case!CaseNext]_(Case!caseVars)
<1>1. /\ GraphInv /\ ShapeInv /\ CkptTypeOK /\ TrailOK(c) /\ LastOK(c) /\ UnsavedOK(c)
      /\ http \in [Calls -> Http]
  BY DEF Base, GraphInv, SerialInv, SoleCallOK, CaseInv, ShapeInv, HttpOK
<1>2. PICK k \in unsaved[c] :
        /\ unsaved'[c] = unsaved[c] \ {k}
        /\ \A other \in unsaved'[c] : other.id > k.id
        /\ ckpt'[t] = IF k.id > ckpt[t].id THEN k ELSE ckpt[t]
  BY <1>1, SaveParts
<1>3. Active(c)
  BY <1>1, SaveParts
<1>4. ckpt'[t] = k /\ k.id > ckpt[t].id /\ k.next # "NONE"
  BY <1>1, <1>2, <1>3 DEF LastOK, UnsavedOK
<1>5. Follows(t, ckpt[t], k)
  <2>1. /\ k.id \in Nat /\ ckpt[t].id \in Nat
        /\ \A y \in unsaved[c] : y.id \in Nat
    BY <1>1 DEF CkptTypeOK, Checkpoint
  <2>2. \A y \in unsaved[c] : y.id >= k.id
    BY <1>2, <2>1
  <2>3. ckpt[t].id < k.id
    BY <1>4, <2>1
  <2>4. ckpt[t] \in Trail(c)
    BY DEF Trail
  <2> QED BY <1>1, <1>2, <1>3, <2>2, <2>3, <2>4 DEF TrailOK
<1>6. Asked(t) \subseteq Decisions
  BY <1>1 DEF Asked, Http
<1>7. \A u \in Threads : u # t => ckpt'[u] = ckpt[u]
  BY DEF AtThread, SameThread
<1> QED BY <1>4, <1>5, <1>6, <1>7, CaseMoves

\* Every step of the service is one of the case, or of nothing a case tells.
LEMMA CaseStepRefines ==
  ASSUME ~Overlap, Checkpointer = "sqlite", Base, CaseInv, [Next]_vars
  PROVE  [Case!CaseNext]_(Case!caseVars)
<1>1. ASSUME NEW c \in Calls, NEW t \in Threads, AtThread(c, t), ThreadStep(c, t)
      PROVE  [Case!CaseNext]_(Case!caseVars)
  <2>1. GraphInv /\ ShapeInv
    BY DEF Base, SerialInv
  <2>2. CASE Asks(c, t)
    BY <1>1, <2>2, CaseSubmits
  <2>3. \A u \in Threads : u # t => Asked(u)' = Asked(u) /\ ckpt'[u] = ckpt[u]
    BY <1>1, AskedGrows DEF AtThread, SameThread
  <2>4. ~Asks(c, t) => Asked(t)' = Asked(t)
    BY <1>1, AskedGrows
  <2>5. CASE T(c) = t /\ Save(c)
    <3>1. ~Asks(c, t)
      BY <2>1, <2>5, SaveParts DEF Asks, Active, Running
    <3> QED BY <1>1, <2>3, <2>4, <2>5, <3>1, CaseSaves
  <2>6. ASSUME ~Asks(c, t), ckpt'[t].next = ckpt[t].next, ckpt'[t].paused = ckpt[t].paused,
               ckpt'[t].values = ckpt[t].values
        PROVE  UNCHANGED Case!caseVars
    BY <2>3, <2>4, <2>6, CaseStands
  <2>7. CASE T(c) = t /\ (NodeStep(c) \/ StatementFails(c))
    <3>1. ~Asks(c, t)
      BY <2>1, <2>7, NodeStepGoes, FaultParts DEF Asks, Running
    <3>2. CASE GoesOn(c)
      BY <2>6, <3>1, <3>2 DEF GoesOn
    <3>3. CASE Pause(c) \/ Return(c)
      BY <2>6, <3>1, <3>3 DEF Pause, Return, MakeCheckpoint
    <3> QED BY <2>1, <2>7, <3>2, <3>3, NodeStepKinds, FaultGoes
  <2>8. CASE Runs(c, t) \/ Takes(c, t) \/ Respond(c) \/ RespondError(c)
    <3>1. ckpt' = ckpt
      BY <2>8 DEF Runs, Start, MakeCheckpoint, Takes, Resume, Respond, RespondError, ckptVars
    <3> QED BY <2>2, <2>6, <3>1
  <2> QED BY <1>1, <2>2, <2>5, <2>7, <2>8 DEF ThreadStep
<1>2. ASSUME ckpt' = ckpt, \A d \in Calls : T(d)' = T(d) /\ http'[d].asked = http[d].asked
      PROVE  UNCHANGED Case!caseVars
  BY <1>2, CaseStands, AskedStays
<1>3. ASSUME NEW c \in Calls, TurnedAway(c) PROVE UNCHANGED Case!caseVars
  <2>1. /\ inv \in [Calls -> Invocation] /\ http \in [Calls -> Http] /\ ckpt' = ckpt
    BY <1>3 DEF Base, GraphInv, GraphTypeOK, HttpOK, TurnedAway, ckptVars
  <2>2. \A d \in Calls : T(d)' = T(d) /\ http'[d].asked = http[d].asked
    BY <1>3, <2>1 DEF TurnedAway, Invocation, Http, T
  <2> QED BY <1>2, <2>1, <2>2
<1>4. CASE CrashStep
  <2>1. /\ inv' = [c \in Calls |-> IF Active(c) THEN Over(c, "dead") ELSE inv[c]]
        /\ ckpt' = ckpt /\ http' = http
    BY <1>4 DEF CrashStep, Crash, LoseUnsaved
  <2>2. \A d \in Calls : T(d)' = T(d)
    BY <2>1 DEF Over, NoInvocation, T
  <2> QED BY <1>2, <2>1, <2>2
<1>5. CASE UNCHANGED vars
  BY <1>2, <1>5 DEF vars, ckptVars, T
<1> QED BY <1>1, <1>3, <1>4, <1>5, ServiceSteps

\* Nobody has called: every case is still to come.
LEMMA CaseBegins ==
  ASSUME Init
  PROVE  CaseInv /\ Case!CaseInit
<1>1. /\ \A c \in Calls : /\ inv[c].stage = "idle" /\ http[c].asked = Null
                          /\ unsaved[c] = {}
      /\ ckpt = [t \in Threads |-> NoCheckpoint]
  BY DEF Init, GraphInit, CkptInit, NoInvocation, NoHttp
<1>2. \A t \in Threads : Asked(t) = {}
  BY <1>1 DEF Asked
<1>3. NoCheckpoint.answer = NoAnswer /\ NoCheckpoint.next = "NONE" /\ ~NoCheckpoint.paused
  BY DEF NoCheckpoint
<1>4. CaseInv
  BY <1>1, <1>3 DEF CaseInv, TrailOK, SettlesOK, Active, Running, Resumes
<1>5. \A t \in Threads : PhaseOf(ckpt[t]) = "none" /\ OutcomeSoFar(ckpt[t]) = Null
  <2>1. PhaseOf(NoCheckpoint) = "none"
    BY <1>3 DEF PhaseOf
  <2>2. OutcomeSoFar(NoCheckpoint) = Null
    BY <2>1 DEF OutcomeSoFar
  <2> QED BY <1>1, <2>1, <2>2
<1>6. Case!CaseInit
  BY <1>2, <1>5 DEF Case!CaseInit, Case!Null, Null
<1> QED BY <1>4, <1>6

\* How a thread comes to its outcome.
LEMMA CaseInvariance ==
  ASSUME ~Overlap, Checkpointer = "sqlite"
  PROVE  Spec => []CaseInv
<1>1. Init => CaseInv
  BY CaseBegins
<1>2. Base /\ CaseInv /\ [Next]_vars => CaseInv'
  BY CaseServiceStep
<1>3. Spec => []Base
  BY ServiceSerialInvariance
<1> QED BY <1>1, <1>2, <1>3, PTL DEF Spec

\* The service implements ReviewCase, over crashes and failed statements: every saved
\* checkpoint takes the case of its thread one step on or leaves it in its phase, and the
\* outcome is the program's own or that of a decision somebody submitted before.
THEOREM ServiceImplementsCase ==
  ASSUME ~Overlap, Checkpointer = "sqlite"
  PROVE  Spec => ImplementsCase
<1>1. Init => Case!CaseInit
  BY CaseBegins
<1>2. Base /\ CaseInv /\ [Next]_vars => [Case!CaseNext]_(Case!caseVars)
  BY CaseStepRefines
<1>3. Spec => []Base
  BY ServiceSerialInvariance
<1>4. Spec => []CaseInv
  BY CaseInvariance
<1> QED BY <1>1, <1>2, <1>3, <1>4, PTL DEF Spec, ImplementsCase, Case!CaseSpec

--------------------------------------------------------------------------------
(* Whose decision it is. *)

\* A call that a step leaves alone.
LEMMA HonestOther ==
  ASSUME NEW d \in Calls, HonestOK(d), inv'[d] = inv[d], unsaved'[d] = unsaved[d],
         http'[d] = http[d], Active(d) => T(d) \in Threads,
         \A u \in Threads : Active(d) /\ T(d) = u => ckpt'[u] = ckpt[u]
  PROVE  HonestOK(d)'
<1>1. CASE ~Active(d)
  BY <1>1 DEF HonestOK, Resumes, Active, Carries
<1>2. CASE Active(d)
  <2>1. PICK u \in Threads : T(d) = u /\ T(d)' = u /\ ckpt'[u] = ckpt[u]
    BY <1>2 DEF T
  <2> QED BY <2>1 DEF HonestOK, Resumes, Active, Carries, EditsFail, V, Concluding, Writing
<1> QED BY <1>1, <1>2

\* A resume goes on at its node.
LEMMA HonestGoes ==
  ASSUME Base, CaseInv, NEW c \in Calls, NEW t \in Threads, T(c) = t, T(c)' = t,
         inv[c].stage \in Running, HonestOK(c), Resumes(c), GoesOn(c), Progress(c),
         http' = http, ckpt'[t].answer \in {ckpt[t].answer, inv[c].answer}
  PROVE  HonestOK(c)'
<1>1. /\ Active(c) /\ inv'[c].node = inv[c].node /\ V(c)' = V(c)
      /\ inv'[c].answer = inv[c].answer /\ unsaved' = unsaved /\ inv'[c].stage # "checked"
      /\ Resumes(c)' /\ http[c].code = 0 /\ SettlesOK(c) /\ http \in [Calls -> Http]
      /\ inv[c].stage # "checked"
  BY DEF Active, GoesOn, Becomes, V, Running, Resumes, Base, LifecycleInv, RoleOK, CaseInv,
     HttpOK
<1>2. ckpt'[t].paused = ckpt[t].paused /\ ckpt'[t].values = ckpt[t].values
  BY DEF GoesOn
<1>3. EditsFail(c)' <=> EditsFail(c)
  BY <1>1 DEF EditsFail
<1>4. CASE inv[c].node = "human_review"
  <2>1. inv[c].answer.decision \in Decisions
    BY <1>1 DEF SettlesOK, Asked, Http
  <2>2. /\ unsaved[c] = {} /\ ckpt[t].paused /\ ckpt[t].values = V(c)
        /\ ckpt[t].answer \in {NoAnswer, inv[c].answer}
        /\ inv[c].answer.decision = http[c].asked \/ EditsFail(c)
        /\ Concluding(c) => Carries(inv[c].result, http[c].asked)
    BY <1>1, <1>4 DEF HonestOK
  <2>3. inv'[c].stage = "raised" => EditsFail(c)
    BY <1>4, <2>1 DEF Progress, RaisesBy, Accepted
  <2>4. Concluding(c)' => Carries(inv'[c].result, http[c].asked)
    <3>1. CASE inv'[c].result = inv[c].result /\ (Concluding(c)' => Concluding(c))
      BY <2>2, <3>1
    <3>2. CASE inv'[c].stage = "insert" /\ UpdateOf(c, inv'[c].result, inv'[c].event.type)
      <4>1. Concluding(c)' =>
              inv'[c].event.type \notin {"human_review_pending", "human_review_resumed"}
        BY <3>2 DEF Concluding, Writing
      <4> QED BY <1>4, <2>2, <3>2, <4>1 DEF UpdateOf
    <3> QED BY <1>4, <3>1, <3>2 DEF Progress
  <2> QED BY <1>1, <1>2, <1>3, <1>4, <2>2, <2>3, <2>4 DEF HonestOK
<1>5. CASE inv[c].node # "human_review"
  <2>1. /\ inv[c].node \in {"audit_and_report", "END"}
        /\ Carries(V(c), http[c].asked) /\ (~ckpt[t].paused \/ unsaved[c] # {})
    BY <1>1, <1>5 DEF HonestOK
  <2> QED BY <1>1, <1>2, <1>5, <2>1 DEF HonestOK
<1> QED BY <1>4, <1>5

\* A resume returns from a node, with the reviewer's decision.
LEMMA HonestReturns ==
  ASSUME Base, NEW c \in Calls, NEW t \in Threads, T(c) = t, T(c)' = t,
         HonestOK(c), Resumes(c), Return(c), http' = http
  PROVE  HonestOK(c)'
<1> DEFINE next == NextNode(inv[c].node, inv[c].result)
           paused == FALSE
<1>1. /\ inv[c].stage = "return" /\ inv[c].stage \in Running /\ CkptTypeOK /\ ShapeOK(c)
      /\ inv \in [Calls -> Invocation] /\ Active(c) /\ RoleOK(c) /\ DecidedOK(c)
      /\ inv[c].node \in {"human_review", "audit_and_report"} /\ http[c].code = 0
  <2>1. inv[c].stage = "return" /\ Active(c) /\ ShapeOK(c) /\ inv[c].node \in Nodes
    BY DEF Return, Running, Active, Base, ShapeInv, SerialInv, ShapeOK
  <2>2. inv[c].node \in {"human_review", "audit_and_report"}
    BY <2>1 DEF HonestOK, Nodes
  <2> QED BY <2>1, <2>2 DEF Running, Base, GraphInv, GraphTypeOK, LifecycleInv, SerialInv,
             SoleCallOK, RoleOK
<1>2. /\ inv'[c].stage # "checked" /\ inv'[c].node = next /\ V(c)' = inv[c].result
      /\ MakeCheckpoint(c, next, inv[c].result, paused)
  BY <1>1, ReturnBecomes DEF Becomes, V
<1>3. /\ inv[c].node = "human_review" => next = "audit_and_report"
      /\ inv[c].node = "audit_and_report" => next = "END"
  BY NextNodeCases
<1> HIDE DEF next, paused
<1>4. unsaved'[c] # {}
  BY <1>1, <1>2, MakeJoins
<1>5. Carries(inv[c].result, http[c].asked)
  <2>1. CASE inv[c].node = "human_review"
    BY <1>1, <2>1 DEF HonestOK, Concluding, Writing
  <2>2. CASE inv[c].node = "audit_and_report"
    BY <1>1, <2>2 DEF HonestOK, DecidedOK
  <2> QED BY <1>1, <2>1, <2>2
<1> QED BY <1>1, <1>2, <1>3, <1>4, <1>5 DEF HonestOK, Resumes

\* A resume takes up its thread: an answer found there is one that fails.
LEMMA HonestTakes ==
  ASSUME Base, NEW c \in Calls, NEW t \in Threads, AtThread(c, t), Takes(c, t),
         HonestOK(c), RecordedOK(t)
  PROVE  HonestOK(c)' /\ RecordedOK(t)'
<1>1. /\ CkptTypeOK /\ inv \in [Calls -> Invocation] /\ Active(c) /\ RoleOK(c)
      /\ T(c)' = t /\ http' = http /\ inv[c].stage = "checked" /\ T(c) = t
      /\ ckpt' = ckpt /\ unsaved' = unsaved /\ ckpt[t].paused /\ SavedOK(t)
  BY DEF Base, GraphInv, GraphTypeOK, LifecycleInv, ShapeInv, AtThread, Takes, Active, T, Resume,
     ckptVars, Interrupted
<1>2. Resumes(c) /\ unsaved[c] = {} /\ ckpt[t].next = "human_review" /\ http[c].code = 0
  BY <1>1 DEF RoleOK, RunnerOK, ResumerOK, SavedOK
<1> DEFINE a == IF ckpt[t].answer = NoAnswer THEN inv[c].answer ELSE ckpt[t].answer
           s == IF ckpt[t].next = "END" THEN "returned" ELSE "body"
           new == [NoInvocation EXCEPT !.stage = s, !.node = ckpt[t].next, !.thread = t,
                                       !.values = ckpt[t].values, !.answer = a]
<1>3. inv' = [inv EXCEPT ![c] = new]
  BY DEF Takes, Resume
<1>4. s = "body"
  BY <1>2
<1>5. /\ a.decision = http[c].asked \/ a.edits = "unusable"
      /\ ckpt[t].answer \in {NoAnswer, a}
  <2>1. CASE ckpt[t].answer = NoAnswer
    BY <1>1, <1>2, <2>1 DEF HonestOK
  <2>2. CASE ckpt[t].answer # NoAnswer
    <3>1. \A d \in Calls : T(d) = t /\ Active(d) => inv[d].stage = "checked"
      BY <1>1 DEF AtThread
    <3> QED BY <1>1, <2>2, <3>1 DEF RecordedOK, Interrupted
  <2> QED BY <2>1, <2>2
<1> HIDE DEF a, s
<1>6. /\ new.stage = s /\ new.node = ckpt[t].next /\ new.values = ckpt[t].values
      /\ new.answer = a
  BY DEF NoInvocation
<1> HIDE DEF new
<1>7. /\ inv'[c].stage = "body" /\ inv'[c].node = "human_review" /\ V(c)' = ckpt[t].values
      /\ inv'[c].answer = a /\ Resumes(c)'
  BY <1>1, <1>2, <1>3, <1>4, <1>6 DEF V, Resumes
<1>8. a.decision = http[c].asked \/ EditsFail(c)'
  BY <1>5, <1>7 DEF EditsFail
<1>9. HonestOK(c)'
  BY <1>1, <1>2, <1>5, <1>7, <1>8 DEF HonestOK, Concluding
<1>10. RecordedOK(t)'
  BY <1>1, <1>7 DEF RecordedOK, Active, Running
<1> QED BY <1>9, <1>10

\* The writer saves a checkpoint of a call: it records no answer with it.
LEMMA HonestSaves ==
  ASSUME Base, CaseInv, NEW c \in Calls, NEW t \in Threads, T(c) = t, T(c)' = t,
         HonestOK(c), Save(c), http' = http, Asked(t)' = Asked(t)
  PROVE  HonestOK(c)' /\ RecordedOK(t)'
<1>1. /\ GraphInv /\ ShapeInv /\ RoleOK(c) /\ LastOK(c) /\ ckpt'[t].answer = NoAnswer
  BY CaseSave DEF Base, LifecycleInv, SerialInv, SoleCallOK
<1>2. PICK k \in unsaved[c] :
        ckpt'[t] = IF k.id > ckpt[t].id THEN k ELSE ckpt[t]
  BY <1>1, SaveParts
<1>3. Active(c) /\ inv' = inv
  BY <1>1, SaveParts
<1>4. ckpt'[t] = k
  BY <1>1, <1>2, <1>3 DEF LastOK
<1>5. RecordedOK(t)'
  BY <1>1 DEF RecordedOK
<1>6. HonestOK(c)'
  <2> SUFFICES ASSUME Resumes(c) PROVE HonestOK(c)'
    BY DEF HonestOK, Resumes
  <2>1. ~k.paused /\ http[c].code = 0 /\ inv[c].stage # "checked"
    BY <1>1, <1>2, <1>3 DEF RoleOK, ResumerOK
  <2>2. inv[c].node # "human_review"
    BY <1>2, <1>3 DEF HonestOK
  <2> QED BY <1>3, <1>4, <2>1, <2>2 DEF HonestOK, Resumes, Carries, V
<1> QED BY <1>5, <1>6

\* A resume is answered: with the reviewer's decision, or as one that failed.
LEMMA HonestResponds ==
  ASSUME Base, ClosedInv, NEW c \in Calls, NEW t \in Threads, AtThread(c, t), T(c) = t,
         HonestOK(c), RecordedOK(t), Respond(c) \/ RespondError(c)
  PROVE  HonestOK(c)' /\ RecordedOK(t)'
<1>1. /\ HttpOK /\ http \in [Calls -> Http] /\ inv \in [Calls -> Invocation] /\ T(c)' = t
      /\ inv'[c].stage = "done" /\ ckpt' = ckpt /\ unsaved[c] = {}
      /\ inv[c].stage \in {"returned", "raised"} /\ Active(c) /\ ~Active(c)'
      /\ http'[c].asked = http[c].asked /\ SavedOK(t)
  <2>1. HttpOK /\ http \in [Calls -> Http] /\ inv \in [Calls -> Invocation] /\ SavedOK(t)
    BY DEF Base, GraphInv, GraphTypeOK, HttpOK, SerialInv, ShapeInv
  <2>2. /\ ckpt' = ckpt /\ unsaved[c] = {} /\ inv[c].stage \in {"returned", "raised"}
        /\ inv' = [inv EXCEPT ![c] = Over(c, "done")]
    BY DEF Respond, RespondError, ckptVars
  <2>3. inv'[c].stage = "done"
    BY <2>1, <2>2 DEF Over, NoInvocation
  <2>4. Active(c) /\ ~Active(c)' /\ T(c)' = t
    BY <2>2, <2>3 DEF Active, Running, AtThread, T
  <2> QED BY <2>1, <2>2, <2>3, <2>4, ResponseAsked
<1>2. HonestOK(c)'
  <2>1. CASE RespondError(c)
    <3>1. http'[c].code = 500
      BY <1>1, <2>1 DEF RespondError, Http
    <3> QED BY <1>1, <3>1 DEF HonestOK
  <2>2. CASE Respond(c) /\ Resumes(c)
    <3>1. http' = [http EXCEPT ![c] = Completed(c, t, ckpt[t].values.decision)]
      BY <2>2 DEF Respond, Resumes
    <3>2. /\ http'[c].decision = ckpt[t].values.decision
          /\ http'[c].final_status = ckpt[t].values.final_status
      BY <1>1, <3>1 DEF Completed, Http
    <3>3. inv[c].stage = "returned"
      BY <2>2 DEF Respond
    <3>4. inv[c].node = "END" /\ ckpt[t].values = V(c)
      BY <1>1, <2>2, <3>3, LeavesSaved
    <3>5. Carries(V(c), http[c].asked)
      BY <1>1, <2>2, <3>4 DEF HonestOK
    <3> QED BY <1>1, <3>2, <3>4, <3>5 DEF HonestOK, Carries
  <2>3. CASE ~Resumes(c)
    BY <1>1, <2>3 DEF HonestOK, Resumes
  <2> QED BY <2>1, <2>2, <2>3
<1>3. RecordedOK(t)'
  <2> SUFFICES ASSUME ckpt[t].paused, ckpt[t].answer # NoAnswer
               PROVE  ckpt[t].answer.edits = "unusable"
    BY <1>1 DEF RecordedOK, Interrupted
  <2>1. CASE ~Resumes(c)
    <3>1. \A d \in Calls : T(d) = t /\ Active(d) => ~Resumes(d)
      BY <2>1 DEF AtThread
    <3> QED BY <3>1 DEF RecordedOK, Interrupted
  <2>2. CASE Resumes(c)
    <3>1. inv[c].node = "human_review"
      BY <1>1, <2>2 DEF HonestOK
    <3>2. inv[c].stage = "raised"
      BY <1>1, <2>2, <3>1, LeavesSaved
    <3> QED BY <1>1, <2>2, <3>1, <3>2 DEF HonestOK, EditsFail
  <2> QED BY <2>1, <2>2
<1> QED BY <1>2, <1>3

\* A call at its thread.
LEMMA HonestAt ==
  ASSUME Base, ClosedInv, CaseInv, NEW c \in Calls, NEW t \in Threads, AtThread(c, t),
         ThreadStep(c, t), HonestOK(c), RecordedOK(t), faults' = 0
  PROVE  HonestOK(c)' /\ RecordedOK(t)'
<1>1. /\ GraphInv /\ ShapeInv /\ CkptTypeOK /\ inv \in [Calls -> Invocation] /\ T(c)' = t
      /\ HttpOK /\ http \in [Calls -> Http] /\ RoleOK(c) /\ CallOK(c) /\ LifecycleInv
      /\ \A d \in Calls : d # c /\ Active(d) => T(d) # t
  BY DEF Base, GraphInv, GraphTypeOK, LifecycleInv, SerialInv, AtThread, T, HttpOK
<1>2. ~Asks(c, t) => Asked(t)' = Asked(t)
  BY AskedGrows
<1>3. CASE Runs(c, t)
  <2>1. ckpt' = ckpt /\ http' = http /\ ~Resumes(c)
    BY <1>1, <1>3 DEF Runs, Start, MakeCheckpoint, RoleOK
  <2>2. ~ckpt[t].paused
    <3>1. ckpt[t] = NoCheckpoint
      BY <1>3 DEF Runs, Base, LifecycleInv, ThreadOK, Untouched
    <3> QED BY <3>1 DEF NoCheckpoint
  <2> QED BY <2>1, <2>2 DEF HonestOK, RecordedOK, Interrupted, Resumes
<1>4. CASE Asks(c, t)
  <2>1. PICK d \in Decisions, e \in Edits :
          /\ inv' = [inv EXCEPT ![c] =
                      [NoInvocation EXCEPT !.stage = "checked", !.thread = t,
                         !.answer = [form |-> "object", decision |-> d, edits |-> e]]]
          /\ http' = [http EXCEPT ![c].asked = d]
    BY <1>4 DEF Asks
  <2>2. /\ inv'[c].stage = "checked" /\ inv'[c].answer.decision = d /\ inv'[c].node = "NONE"
        /\ http'[c].asked = d /\ http'[c].code = http[c].code
    BY <1>1, <2>1 DEF NoInvocation, Http
  <2>3. ckpt' = ckpt /\ http[c].code = 0 /\ ~Active(c)
    BY <1>1, <1>4 DEF Asks, ckptVars, RoleOK, Active, Running
  <2>4. HonestOK(c)'
    BY <2>2, <2>3 DEF HonestOK
  <2>5. RecordedOK(t)'
    BY <1>1, <2>3 DEF RecordedOK, Interrupted
  <2> QED BY <2>4, <2>5
<1>5. CASE Takes(c, t)
  BY <1>5, HonestTakes
<1>6. CASE T(c) = t /\ NodeStep(c) /\ http' = http
  <2>1. /\ inv[c].stage \in Running /\ Active(c)
        /\ inv'[c].stage \in Running \cup {"raised", "returned"}
    BY <1>1, <1>6, NodeStepGoes DEF Active
  <2>2. ckpt'[t].paused = ckpt[t].paused
    BY <1>1, <1>6, NodeStepKinds DEF GoesOn, Pause, Return, MakeCheckpoint
  <2>3. CASE ~Resumes(c)
    <3>1. ~ckpt[t].paused
      BY <1>1, <1>6, <2>1, <2>3 DEF RoleOK, RunnerOK
    <3> QED BY <1>6, <2>2, <2>3, <3>1 DEF HonestOK, RecordedOK, Interrupted, Resumes
  <2>4. CASE Resumes(c)
    <3>1. RecordedOK(t)'
      BY <1>1, <1>6, <2>1, <2>4 DEF RecordedOK, Resumes, Active, Running
    <3>2. inv[c].answer # NoAnswer
      BY <1>1, <2>1, <2>4 DEF RoleOK, ResumerOK
    <3>3. ckpt'[t].answer \in {ckpt[t].answer, inv[c].answer}
      BY <1>1, <1>6, AnswersKept
    <3>4. HonestOK(c)'
      BY <1>1, <1>6, <2>1, <2>4, <3>2, <3>3, NodeStepKinds, HonestGoes, HonestReturns
      DEF Pause
    <3> QED BY <3>1, <3>4
  <2> QED BY <2>3, <2>4
<1>7. CASE T(c) = t /\ Save(c) /\ http' = http
  <2>1. Active(c)
    BY <1>1, <1>7, SaveParts
  <2>2. Asked(t)' = Asked(t)
    BY <1>2, <2>1 DEF Asks, Active, Running
  <2> QED BY <1>1, <1>7, <2>2, HonestSaves
<1>8. CASE StatementFails(c)
  BY <1>1, <1>8, FaultParts
<1>9. CASE T(c) = t /\ (Respond(c) \/ RespondError(c))
  BY <1>9, HonestResponds
<1> QED BY <1>3, <1>4, <1>5, <1>6, <1>7, <1>8, <1>9 DEF ThreadStep

\* No step takes a fault back.
LEMMA FaultsStay ==
  ASSUME Base, [Next]_vars, faults' = 0
  PROVE  faults = 0
<1>1. GraphInv /\ ShapeInv /\ faults \in Nat
  BY GraphAssumption DEF Base, GraphInv, GraphTypeOK, SerialInv
<1>2. ASSUME NEW c \in Calls, GraphStep(c) PROVE faults = 0
  <2>1. CASE NodeStep(c)
    BY <1>1, <2>1, NodeStepFrame
  <2>2. CASE Save(c)
    BY <1>1, <2>2, SaveParts
  <2>3. CASE StatementFails(c)
    BY <1>1, <2>3, FaultParts
  <2> QED BY <1>2, <2>1, <2>2, <2>3 DEF GraphStep
<1>3. CASE CrashStep
  BY <1>1, <1>3 DEF CrashStep, Crash
<1>4. ASSUME NEW c \in Calls,
             RunContract(c) \/ ResumeCheck(c) \/ InvokeResume(c) \/ Respond(c) \/ RespondError(c)
      PROVE  faults = 0
  BY <1>4 DEF RunContract, Start, ResumeCheck, InvokeResume, Resume, Respond, RespondError
<1>5. CASE UNCHANGED vars
  BY <1>5 DEF vars
<1> QED BY <1>2, <1>3, <1>4, <1>5 DEF Next

\* Every step of the service.
LEMMA HonestServiceStep ==
  ASSUME ~Overlap, Base, ClosedInv, CaseInv, HonestInv, [Next]_vars
  PROVE  HonestInv'
<1> SUFFICES ASSUME faults' = 0
             PROVE  (\A c \in Calls : HonestOK(c)') /\ (\A t \in Threads : RecordedOK(t)')
  BY DEF HonestInv
<1>1. /\ \A c \in Calls : HonestOK(c)
      /\ \A t \in Threads : RecordedOK(t)
      /\ \A c \in Calls : Active(c) => T(c) \in Threads
  BY FaultsStay DEF HonestInv, Base, GraphInv, CallOK, T
<1>2. ASSUME NEW c \in Calls, NEW t \in Threads, AtThread(c, t), ThreadStep(c, t)
      PROVE  (\A d \in Calls : HonestOK(d)') /\ (\A u \in Threads : RecordedOK(u)')
  <2>1. ASSUME NEW d \in Calls, d # c PROVE HonestOK(d)'
    <3>1. \A u \in Threads : Active(d) /\ T(d) = u => ckpt'[u] = ckpt[u]
      BY <1>2, <2>1 DEF AtThread, SameThread
    <3>2. inv'[d] = inv[d] /\ unsaved'[d] = unsaved[d] /\ http'[d] = http[d]
      BY <1>2, <2>1 DEF AtThread
    <3> QED BY <1>1, <3>1, <3>2, HonestOther
  <2>2. ASSUME NEW u \in Threads, u # t PROVE RecordedOK(u)'
    <3>1. T(c) # u
      <4>1. T(c) = t \/ T(c) = Null
        BY <1>2 DEF ThreadStep, Runs, Asks, Takes, Base, LifecycleInv, RoleOK
      <4> QED BY <2>2, <4>1, ThreadsAssumption
    <3>2. \A d \in Calls : T(d) = u => inv'[d] = inv[d] /\ http'[d] = http[d]
      BY <1>2, <3>1 DEF AtThread
    <3>3. ckpt'[u] = ckpt[u]
      BY <1>2, <2>2 DEF AtThread, SameThread
    <3> QED BY <1>1, <3>2, <3>3 DEF RecordedOK, Interrupted, Active, Resumes, T
  <2> QED BY <1>1, <1>2, <2>1, <2>2, HonestAt
<1>3. ASSUME NEW c \in Calls, TurnedAway(c)
      PROVE  (\A d \in Calls : HonestOK(d)') /\ (\A u \in Threads : RecordedOK(u)')
  <2>1. /\ inv \in [Calls -> Invocation] /\ http \in [Calls -> Http] /\ ckpt' = ckpt
        /\ unsaved' = unsaved /\ T(c) = Null /\ ~Active(c)
    BY <1>3 DEF Base, GraphInv, GraphTypeOK, HttpOK, TurnedAway, ckptVars, LifecycleInv, RoleOK,
       Active, Running
  <2>2. /\ inv'[c].stage = "done" /\ http'[c].code = 404
        /\ \A d \in Calls : d # c => inv'[d] = inv[d] /\ http'[d] = http[d]
    BY <1>3, <2>1 DEF TurnedAway, Invocation, Http
  <2>3. HonestOK(c)'
    BY <2>2 DEF HonestOK, Active, Running
  <2>4. ASSUME NEW d \in Calls, d # c PROVE HonestOK(d)'
    BY <1>1, <2>1, <2>2, <2>4, HonestOther
  <2>5. ASSUME NEW u \in Threads PROVE RecordedOK(u)'
    <3>1. \A d \in Calls : T(d) = u => inv'[d] = inv[d] /\ http'[d] = http[d]
      BY <2>1, <2>2, ThreadsAssumption
    <3> QED BY <1>1, <2>1, <3>1 DEF RecordedOK, Interrupted, Active, Resumes, T
  <2> QED BY <2>3, <2>4, <2>5
<1>4. CASE CrashStep
  <2>1. faults \in Nat
    BY GraphAssumption DEF Base, GraphInv, GraphTypeOK
  <2> QED BY <1>4, <2>1 DEF CrashStep, Crash
<1>5. CASE UNCHANGED vars
  <2>1. inv' = inv /\ http' = http /\ ckpt' = ckpt /\ unsaved' = unsaved
    BY <1>5 DEF vars, ckptVars
  <2>2. ASSUME NEW d \in Calls PROVE HonestOK(d)'
    BY <1>1, <2>1, HonestOther
  <2>3. ASSUME NEW u \in Threads PROVE RecordedOK(u)'
    BY <1>1, <2>1 DEF RecordedOK, Interrupted, Active, Resumes, T
  <2> QED BY <2>2, <2>3
<1> QED BY <1>2, <1>3, <1>4, <1>5, ServiceSteps

\* Whose decision a resume works with.
LEMMA HonestInvariance ==
  ASSUME ~Overlap, Checkpointer = "sqlite"
  PROVE  Spec => []HonestInv
<1>1. Init => HonestInv
  <2> SUFFICES ASSUME Init PROVE HonestInv
    OBVIOUS
  <2>1. /\ \A c \in Calls : http[c].asked = Null
        /\ ckpt = [t \in Threads |-> NoCheckpoint] /\ ~NoCheckpoint.paused
    BY DEF Init, CkptInit, NoHttp, NoCheckpoint
  <2> QED BY <2>1 DEF HonestInv, HonestOK, RecordedOK, Interrupted, Resumes
<1>2. Base /\ ClosedInv /\ CaseInv /\ HonestInv /\ [Next]_vars => HonestInv'
  BY HonestServiceStep
<1> QED BY <1>1, <1>2, ServiceSerialInvariance, ClosedInvariance, CaseInvariance, PTL DEF Spec

\* A reviewer who gets a 200 gets the outcome of the decision they sent, not of an older one
\* that was recorded with the interrupt: as long as no statement fails, every decision
\* recorded before has edits that fail again.
THEOREM ServiceAnswerHonoured ==
  ASSUME ~Overlap, Checkpointer = "sqlite"
  PROVE  Spec => []AnswerHonoured
<1>1. HonestInv => AnswerHonoured
  BY DEF HonestInv, HonestOK, AnswerHonoured, Resumed, Resumes, Carries
<1> QED BY <1>1, HonestInvariance, PTL

--------------------------------------------------------------------------------
(* What is left of a thread. *)

\* A run that a step leaves alone.
LEMMA RunOther ==
  ASSUME NEW d \in Calls, RunOK(d), inv'[d] = inv[d], unsaved'[d] = unsaved[d],
         http'[d] = http[d], Active(d) => T(d) \in Threads,
         \A u \in Threads : Active(d) /\ T(d) = u => ckpt'[u] = ckpt[u] /\ runs'[u] = runs[u]
  PROVE  RunOK(d)'
<1>1. CASE ~Active(d)
  BY <1>1 DEF RunOK, Active
<1>2. CASE Active(d)
  <2>1. PICK u \in Threads : /\ T(d) = u /\ T(d)' = u
                             /\ ckpt'[u] = ckpt[u] /\ runs'[u] = runs[u]
    BY <1>2 DEF T
  <2>2. V(d)' = V(d) /\ (Concluding(d)' <=> Concluding(d)) /\ Trail(d)' = Trail(d)
        /\ (Resumes(d)' <=> Resumes(d))
    BY <2>1 DEF V, Concluding, Writing, Trail, Resumes
  <2> QED BY <2>1, <2>2 DEF RunOK, Active
<1> QED BY <1>1, <1>2

\* Only ingest_contract and finalize_run give a row its outcome, and only finalize_run
\* completes it.
LEMMA RowKept ==
  ASSUME GraphInv, NEW c \in Calls, NEW t \in Threads, T(c) = t, NodeStep(c), ~Finalize(c)
  PROVE  /\ runs'[t].completed_at = runs[t].completed_at
         /\ inv[c].document # "missing" => runs'[t].final_status = runs[t].final_status
<1>1. runs \in [Threads -> Row]
  BY DEF GraphInv, StoreTypeOK
<1>2. CASE IngestContract(c)
  <2>1. CASE IngestFound(c)
    <3>1. RegisterRun(t, Null, Null)
      BY <2>1 DEF IngestFound
    <3>2. runs'[t].final_status = Coalesce(Null, runs[t].final_status)
      BY <1>1, <3>1, RegisterRow
    <3> QED BY <1>1, <3>1, <3>2, RegisterFields DEF Coalesce
  <2>2. CASE IngestMissing(c)
    <3>1. RegisterRun(t, "failed", "audit_only") /\ inv[c].document = "missing"
      BY <2>2 DEF IngestMissing
    <3> QED BY <1>1, <3>1, RegisterFields
  <2> QED BY <1>2, <2>1, <2>2 DEF IngestContract
<1>3. CASE SetPending(c)
  <2>1. UpdateReviewStatus(t, "pending", inv[c].read)
    BY <1>3 DEF SetPending
  <2> QED BY <1>1, <2>1, TransitionFields
<1>4. CASE SetCompleted(c)
  <2>1. UpdateReviewStatus(t, "completed", inv[c].read)
    BY <1>4 DEF SetCompleted
  <2> QED BY <1>1, <2>1, TransitionFields
<1>5. CASE ~IngestContract(c) /\ ~SetPending(c) /\ ~SetCompleted(c)
  <2>1. runs' = runs
    BY <1>5 DEF NodeStep, ParseAndChunkClauses, ExtractDetailsAndFlagRisk, CheckPolicyRules,
       AutoAdvanceStandardCases, SelectPending, Pause, SelectCompleted, Decide, RefuseAnswer,
       AuditAndReport, ReportFails, Insert, Line, Return, storeVars
  <2> QED BY <2>1
<1> QED BY <1>2, <1>3, <1>4, <1>5

\* A run goes on at its node.
LEMMA RunGoes ==
  ASSUME Base, Base', NEW c \in Calls, NEW t \in Threads, T(c) = t, T(c)' = t,
         NodeStep(c), RunOK(c), ~Resumes(c), GoesOn(c), Progress(c), http' = http
  PROVE  RunOK(c)'
<1>1. /\ GraphInv /\ ShapeInv /\ inv[c].stage \in Running /\ Active(c) /\ RunnerOK(c)
      /\ ShapeOK(c) /\ DecidedOK(c)'
  <2>1. GraphInv /\ ShapeInv
    BY DEF Base, SerialInv
  <2>2. inv[c].stage \in Running
    BY <2>1, NodeStepGoes
  <2>3. Active(c)
    BY <2>2 DEF Active
  <2> QED BY <2>1, <2>2, <2>3 DEF Base, LifecycleInv, RoleOK, ShapeInv, SerialInv, SoleCallOK
<1>2. /\ inv'[c].node = inv[c].node /\ V(c)' = V(c) /\ inv'[c].document = inv[c].document
      /\ unsaved' = unsaved
  BY DEF GoesOn, Becomes, V
<1>3. inv[c].stage # "decide" /\ inv[c].answer = NoAnswer
  BY <1>1 DEF RunnerOK, ShapeOK, PastAnswer
<1>4. V(c).printable /\ (Concluding(c) => inv[c].result.printable)
      /\ inv[c].document # "missing"
  BY <1>1 DEF RunOK
<1>5. inv'[c].stage = "raised" => inv[c].node = "parse_and_chunk_clauses"
  BY <1>3, <1>4 DEF Progress, RaisesBy
<1>6. Concluding(c)' => inv'[c].result.printable
  <2> SUFFICES ASSUME Concluding(c)' PROVE inv'[c].result.printable
    OBVIOUS
  <2>1. CASE inv[c].node = "audit_and_report"
    <3>1. inv'[c].stage \in Running \ {"body"}
      BY DEF Concluding, Running
    <3>2. inv'[c].result = V(c)'
      BY <1>1, <1>2, <2>1, <3>1 DEF DecidedOK
    <3> QED BY <1>2, <1>4, <3>2
  <2>2. CASE inv'[c].result = inv[c].result /\ Concluding(c)
    BY <1>4, <2>2
  <2>3. CASE /\ inv'[c].stage = "insert"
             /\ UpdateOf(c, inv'[c].result, inv'[c].event.type)
    <3>1. inv'[c].event.type \notin {"human_review_pending", "human_review_resumed"}
      BY <2>3 DEF Concluding, Writing
    <3> QED BY <1>3, <1>4, <2>3, <3>1 DEF UpdateOf
  <2> QED BY <2>1, <2>2, <2>3 DEF Progress
<1>7. ASSUME inv[c].node \in {"ingest_contract", "parse_and_chunk_clauses"}
      PROVE  /\ V(c).final_status = Null /\ runs'[t].final_status = Null
             /\ \A x \in Trail(c)' : x.values.final_status = Null
             /\ inv[c].node = "ingest_contract" /\ Concluding(c)' =>
                  inv'[c].result.final_status = Null
  <2>1. /\ V(c).final_status = Null /\ runs[t].final_status = Null
        /\ \A x \in Trail(c) : x.values.final_status = Null
        /\ inv[c].node = "ingest_contract" /\ Concluding(c) =>
             inv[c].result.final_status = Null
    BY <1>1, <1>7 DEF RunOK
  <2>2. ~Finalize(c)
    BY <1>7 DEF Finalize, At
  <2>3. runs'[t].final_status = Null
    BY <1>1, <1>4, <2>1, <2>2, RowKept
  <2>4. \A x \in Trail(c)' : x.values.final_status = Null
    <3>1. ckpt'[t].values = ckpt[t].values
      BY DEF GoesOn
    <3> QED BY <1>2, <2>1, <3>1 DEF Trail
  <2>5. inv[c].node = "ingest_contract" /\ Concluding(c)' =>
          inv'[c].result.final_status = Null
    BY <1>4, <2>1 DEF Progress, UpdateOf
  <2> QED BY <2>1, <2>3, <2>4, <2>5
<1> QED BY <1>2, <1>4, <1>5, <1>6, <1>7 DEF RunOK

\* A run returns from a node: only ingest_contract leads to parse_and_chunk_clauses.
LEMMA RunReturns ==
  ASSUME Base, NEW c \in Calls, NEW t \in Threads, T(c) = t, T(c)' = t,
         RunOK(c), ~Resumes(c), Return(c), http' = http
  PROVE  RunOK(c)'
<1> DEFINE next == NextNode(inv[c].node, inv[c].result)
           s == IF next = "END" THEN "returned" ELSE "body"
           paused == FALSE
<1>1. /\ inv[c].stage = "return" /\ CkptTypeOK /\ inv \in [Calls -> Invocation]
      /\ Active(c) /\ Concluding(c)
  BY DEF Return, Running, Base, GraphInv, GraphTypeOK, Active, Concluding, Writing
<1>2. /\ inv'[c].stage = s /\ inv'[c].node = next /\ V(c)' = inv[c].result
      /\ inv'[c].document = inv[c].document /\ runs' = runs
      /\ MakeCheckpoint(c, next, inv[c].result, paused)
  BY <1>1, ReturnBecomes DEF Becomes, V, storeVars
<1>3. s \in {"body", "returned"}
  OBVIOUS
<1>4. next # "ingest_contract"
      /\ (next = "parse_and_chunk_clauses" => inv[c].node = "ingest_contract")
  BY NextNodeCases
<1> HIDE DEF next, s, paused
<1>5. PICK k : /\ k.values = inv[c].result
               /\ unsaved'[c] = unsaved[c] \cup {k} /\ ckpt' = ckpt
  BY <1>1, <1>2, MakeJoins
<1>6. /\ inv[c].document # "missing" /\ inv[c].result.printable
      /\ inv[c].node = "ingest_contract" =>
           /\ runs[t].final_status = Null /\ inv[c].result.final_status = Null
           /\ \A x \in Trail(c) : x.values.final_status = Null
  BY <1>1 DEF RunOK
<1>7. Trail(c)' = Trail(c) \cup {k}
  BY <1>5 DEF Trail
<1>8. ~Concluding(c)'
  BY <1>2, <1>3 DEF Concluding
<1> QED BY <1>2, <1>3, <1>4, <1>5, <1>6, <1>7, <1>8 DEF RunOK

\* A run takes its thread, which nobody has touched.
LEMMA RunTakes ==
  ASSUME Base, NEW c \in Calls, NEW t \in Threads, AtThread(c, t), Runs(c, t)
  PROVE  RunOK(c)'
<1>1. /\ CkptTypeOK /\ inv \in [Calls -> Invocation] /\ unsaved[c] = {} /\ T(c)' = t
      /\ inv[c].stage = "idle"
  BY DEF Base, GraphInv, GraphTypeOK, CallOK, AtThread, Runs, T
<1>2. ckpt[t] = NoCheckpoint /\ runs[t] = NoRow
  BY DEF Base, LifecycleInv, ThreadOK, Untouched, Runs
<1> DEFINE v == ckpt[t].values
           paused == FALSE
<1>3. v.final_status = Null /\ v.printable /\ runs[t].final_status = Null
  BY <1>2 DEF NoCheckpoint, NoValues, NoRow
<1>4. PICK doc \in Uploads :
        /\ MakeCheckpoint(c, "ingest_contract", v, paused) /\ runs' = runs
        /\ inv' = [inv EXCEPT ![c] =
                   [NoInvocation EXCEPT !.stage = "body", !.node = "ingest_contract",
                                        !.thread = t, !.document = doc, !.values = v]]
  BY DEF Runs, Start, storeVars
<1>5. /\ inv'[c].stage = "body" /\ inv'[c].document = doc /\ V(c)' = v /\ doc # "missing"
  BY <1>1, <1>4, ApiAssumption DEF NoInvocation, V
<1> HIDE DEF paused
<1>6. PICK k : k.values = v /\ unsaved'[c] = unsaved[c] \cup {k} /\ ckpt' = ckpt
  BY <1>1, <1>4, MakeJoins
<1>7. Trail(c)' = {k, ckpt[t]}
  BY <1>1, <1>6 DEF Trail
<1>8. \A x \in Trail(c)' : x.values.final_status = Null
  BY <1>3, <1>6, <1>7
<1>9. ~Concluding(c)'
  BY <1>5 DEF Concluding
<1> QED BY <1>1, <1>3, <1>4, <1>5, <1>8, <1>9 DEF RunOK

\* The writer saves a checkpoint of a run.
LEMMA RunSaves ==
  ASSUME Base, NEW c \in Calls, NEW t \in Threads, T(c) = t, T(c)' = t,
         RunOK(c), Save(c), http' = http
  PROVE  RunOK(c)'
<1>1. GraphInv /\ ShapeInv
  BY DEF Base, SerialInv
<1>2. PICK k \in unsaved[c] :
        /\ unsaved'[c] = unsaved[c] \ {k}
        /\ ckpt'[t] = IF k.id > ckpt[t].id THEN k ELSE ckpt[t]
  BY <1>1, SaveParts
<1>3. inv' = inv /\ runs' = runs
  BY <1>1, SaveParts
<1>4. Trail(c)' \subseteq Trail(c)
  BY <1>2 DEF Trail
<1> QED BY <1>3, <1>4 DEF RunOK, Resumes, Active, V, Concluding, Writing, T

\* A run at its thread.
LEMMA RunAt ==
  ASSUME Base, Base', NEW c \in Calls, NEW t \in Threads, AtThread(c, t),
         ThreadStep(c, t), RunOK(c), faults' = 0
  PROVE  RunOK(c)'
<1>1. /\ GraphInv /\ ShapeInv /\ inv \in [Calls -> Invocation] /\ T(c)' = t
      /\ http \in [Calls -> Http] /\ RoleOK(c) /\ HttpOK
  BY DEF Base, GraphInv, GraphTypeOK, LifecycleInv, SerialInv, AtThread, T, HttpOK
<1>2. CASE Runs(c, t)
  BY <1>2, RunTakes
<1>3. CASE Asks(c, t)
  <2>1. http'[c].asked \in Decisions
    BY <1>3, AskedGrows
  <2> QED BY <2>1 DEF RunOK, Resumes, Decisions, Null
<1>4. CASE Takes(c, t)
  <2>1. Resumes(c) /\ http' = http
    BY <1>1, <1>4 DEF Takes, RoleOK, RunnerOK, Active
  <2> QED BY <2>1 DEF RunOK, Resumes
<1>5. CASE T(c) = t /\ NodeStep(c) /\ http' = http
  <2>1. CASE Resumes(c)
    BY <1>5, <2>1 DEF RunOK, Resumes
  <2>2. CASE ~Resumes(c) /\ GoesOn(c) /\ Progress(c)
    BY <1>1, <1>5, <2>2, RunGoes
  <2>3. CASE ~Resumes(c) /\ Return(c)
    BY <1>1, <1>5, <2>3, RunReturns
  <2>4. CASE ~Resumes(c) /\ Pause(c)
    <3>1. /\ inv[c].stage = "interrupt" /\ inv[c].node = "human_review"
          /\ inv' = [inv EXCEPT ![c].stage = "returned"]
      BY <2>4 DEF Pause, At, Go
    <3>2. /\ inv'[c].stage = "returned" /\ inv'[c].node = "human_review"
          /\ V(c)' = V(c) /\ inv'[c].document = inv[c].document /\ Active(c)
      BY <1>1, <3>1 DEF V, Active, Running, Invocation
    <3>3. ~Concluding(c)'
      BY <3>2 DEF Concluding
    <3> QED BY <2>4, <3>2, <3>3 DEF RunOK
  <2> QED BY <1>1, <1>5, <2>1, <2>2, <2>3, <2>4, NodeStepKinds
<1>6. CASE T(c) = t /\ Save(c) /\ http' = http
  BY <1>1, <1>6, RunSaves
<1>7. CASE StatementFails(c)
  BY <1>1, <1>7, FaultParts
<1>8. CASE Respond(c) \/ RespondError(c)
  <2>1. inv'[c].stage = "done"
    BY <1>1, <1>8 DEF Respond, RespondError, Over, NoInvocation
  <2> QED BY <2>1 DEF RunOK, Active, Running
<1> QED BY <1>2, <1>3, <1>4, <1>5, <1>6, <1>7, <1>8 DEF ThreadStep

\* Who has taken the last node's update leaves the node.
LEMMA LastReturns ==
  ASSUME NEW c \in Calls, NodeStep(c), At(c, "audit_and_report", "return")
  PROVE  Return(c)
<1>1. inv[c].stage = "return" /\ inv[c].node = "audit_and_report"
  BY DEF At
<1>2. ~(\/ IngestContract(c) \/ ParseAndChunkClauses(c) \/ ExtractDetailsAndFlagRisk(c)
        \/ CheckPolicyRules(c) \/ AutoAdvanceStandardCases(c))
  BY <1>1 DEF IngestContract, ParseAndChunkClauses, ExtractDetailsAndFlagRisk,
     CheckPolicyRules, AutoAdvanceStandardCases, At
<1>3. ~(\/ SelectPending(c) \/ SetPending(c) \/ Pause(c) \/ SelectCompleted(c)
        \/ SetCompleted(c) \/ Decide(c) \/ RefuseAnswer(c))
  BY <1>1 DEF SelectPending, SetPending, Pause, SelectCompleted, SetCompleted, Decide,
     RefuseAnswer, At
<1>4. ~(\/ AuditAndReport(c) \/ ReportFails(c) \/ Finalize(c) \/ Insert(c) \/ Line(c))
  BY <1>1 DEF AuditAndReport, ReportFails, Finalize, Insert, Line, At
<1> QED BY <1>2, <1>3, <1>4 DEF NodeStep

\* A call answers: it leaves its thread at its end, before a reviewer, or without an
\* outcome; or it is a resume whose caller is told of an error.
LEMMA RestResponds ==
  ASSUME Base, ClosedInv, NEW c \in Calls, NEW t \in Threads, AtThread(c, t), T(c) = t,
         RunOK(c), CompletesOK(t), Respond(c) \/ RespondError(c)
  PROVE  RestOK(t)' /\ CompletesOK(t)'
<1>1. /\ http \in [Calls -> Http] /\ T(c)' = t /\ ckpt' = ckpt /\ runs' = runs
      /\ unsaved[c] = {} /\ HttpOK
  BY DEF Base, HttpOK, AtThread, T, Respond, RespondError, ckptVars, storeVars
<1>2. CompletesOK(t)'
  <2> SUFFICES ASSUME runs[t].completed_at PROVE Ended(t)'
    BY <1>1 DEF CompletesOK
  <2>1. CASE Ended(t)
    BY <1>1, <2>1 DEF Ended
  <2>2. CASE ~Ended(t)
    <3>1. PICK d \in Calls : /\ T(d) = t
                             /\ At(d, "audit_and_report", "return") \/ At(d, "END", "returned")
      BY <2>2 DEF CompletesOK
    <3>2. d = c
      BY <3>1 DEF AtThread, At, Active, Running
    <3>3. At(c, "END", "returned")
      BY <3>1, <3>2 DEF At, Respond, RespondError
    <3> QED BY <1>1, <2>2, <3>3, LeavesSaved DEF At
  <2> QED BY <2>1, <2>2
<1>3. RestOK(t)'
  <2>1. CASE Respond(c)
    <3>1. inv[c].stage = "returned"
      BY <2>1 DEF Respond
    <3>2. Ended(t) \/ Interrupted(t)
      BY <1>1, <3>1, LeavesSaved
    <3> QED BY <1>1, <3>2 DEF RestOK, Ended, Interrupted
  <2>2. CASE RespondError(c) /\ Resumes(c)
    <3>1. http'[c].code = 500 /\ http'[c].asked = http[c].asked
      BY <1>1, <2>2 DEF RespondError, Http
    <3> QED BY <1>1, <2>2, <3>1 DEF RestOK, Resumes
  <2>3. CASE RespondError(c) /\ ~Resumes(c)
    <3>1. inv[c].stage = "raised" /\ Active(c)
      BY <2>3 DEF RespondError, Active
    <3>2. /\ runs[t].final_status = Null
          /\ \A x \in Trail(c) : x.values.final_status = Null
      BY <2>3, <3>1 DEF RunOK
    <3>3. ckpt[t].values.final_status = Null
      BY <3>2 DEF Trail
    <3> QED BY <1>1, <3>2, <3>3 DEF RestOK
  <2> QED BY <2>1, <2>2, <2>3
<1> QED BY <1>2, <1>3

\* A call that completes the row of its thread is about to end it.
LEMMA CompletesAt ==
  ASSUME Base, ClosedInv, NEW c \in Calls, NEW t \in Threads, AtThread(c, t),
         ThreadStep(c, t), CompletesOK(t), ~(T(c) = t /\ (Respond(c) \/ RespondError(c))),
         faults' = 0
  PROVE  CompletesOK(t)'
<1> SUFFICES ASSUME runs'[t].completed_at
             PROVE  \/ Ended(t)'
                    \/ At(c, "audit_and_report", "return")' \/ At(c, "END", "returned")'
  BY DEF CompletesOK, AtThread, T
<1>1. /\ GraphInv /\ ShapeInv /\ inv \in [Calls -> Invocation]
  BY DEF Base, GraphInv, GraphTypeOK, SerialInv
<1>2. ASSUME runs[t].completed_at, ~Ended(t)
      PROVE  /\ T(c) = t
             /\ At(c, "audit_and_report", "return") \/ At(c, "END", "returned")
  <2>1. PICK d \in Calls : /\ T(d) = t
                           /\ At(d, "audit_and_report", "return") \/ At(d, "END", "returned")
    BY <1>2 DEF CompletesOK
  <2>2. d = c
    BY <2>1 DEF AtThread, At, Active, Running
  <2> QED BY <2>1, <2>2
<1>3. CASE Runs(c, t)
  <2>1. runs[t] = NoRow /\ runs' = runs
    BY <1>3 DEF Runs, Start, storeVars, Base, LifecycleInv, ThreadOK, Untouched
  <2> QED BY <2>1 DEF NoRow
<1>4. CASE Asks(c, t) \/ Takes(c, t)
  <2>1. runs' = runs /\ ckpt' = ckpt /\ inv[c].stage \in {"idle", "checked"}
    BY <1>4 DEF Asks, Takes, Resume, storeVars, ckptVars
  <2>2. Ended(t)
    BY <1>2, <2>1 DEF At
  <2> QED BY <2>1, <2>2 DEF Ended
<1>5. CASE T(c) = t /\ NodeStep(c)
  <2>1. inv[c].stage \in Running /\ ~Ended(t)
    BY <1>1, <1>5, NodeStepGoes, RunningIsOpen
  <2>2. CASE Finalize(c)
    <3>1. inv[c].node = "audit_and_report" /\ inv' = [inv EXCEPT ![c].stage = "return"]
      BY <2>2 DEF Finalize, At, Go
    <3> QED BY <1>1, <3>1 DEF At, Invocation
  <2>3. CASE ~Finalize(c)
    <3>1. runs[t].completed_at
      BY <1>1, <1>5, <2>3, RowKept
    <3>2. At(c, "audit_and_report", "return")
      BY <1>2, <2>1, <3>1 DEF At, Running
    <3>3. Return(c)
      BY <1>5, <3>2, LastReturns
    <3> DEFINE next == NextNode(inv[c].node, inv[c].result)
    <3>4. /\ inv'[c].stage = IF next = "END" THEN "returned" ELSE "body"
          /\ inv'[c].node = next
      BY <1>1, <3>3, ReturnBecomes DEF Becomes
    <3>5. next = "END"
      BY <3>2, NextNodeCases DEF At
    <3> QED BY <3>4, <3>5 DEF At
  <2> QED BY <2>2, <2>3
<1>6. CASE T(c) = t /\ Save(c)
  <2>1. Active(c) /\ unsaved[c] # {} /\ inv' = inv /\ runs' = runs
    BY <1>1, <1>6, SaveParts
  <2>2. ~Ended(t)
    BY <1>6, <2>1 DEF ClosedInv, EndOK
  <2> QED BY <1>2, <2>1, <2>2 DEF At
<1>7. CASE StatementFails(c)
  BY <1>1, <1>7, FaultParts
<1> QED BY <1>3, <1>4, <1>5, <1>6, <1>7 DEF ThreadStep

\* A thread that a call is at.
LEMMA RestAt ==
  ASSUME Base, ClosedInv, NEW c \in Calls, NEW t \in Threads, AtThread(c, t),
         ThreadStep(c, t), RunOK(c), CompletesOK(t), faults' = 0
  PROVE  RestOK(t)' /\ CompletesOK(t)'
<1>1. CASE T(c) = t /\ (Respond(c) \/ RespondError(c))
  BY <1>1, RestResponds
<1>2. CASE /\ ~(T(c) = t /\ (Respond(c) \/ RespondError(c)))
           /\ \/ Runs(c, t) \/ Asks(c, t) \/ Takes(c, t)
              \/ T(c) = t /\ (NodeStep(c) \/ Save(c) \/ StatementFails(c))
  <2>1. GraphInv /\ ShapeInv /\ inv \in [Calls -> Invocation]
    BY DEF Base, GraphInv, GraphTypeOK, SerialInv
  <2>2. inv'[c].stage \in Running \cup {"checked", "returned", "raised"}
    <3>1. CASE Runs(c, t)
      <4>1. PICK doc \in Uploads : Start(c, t, doc)
        BY <3>1 DEF Runs
      <4>2. inv'[c].stage = "body"
        BY <2>1, <4>1 DEF Start, NoInvocation
      <4> QED BY <4>2 DEF Running
    <3>2. CASE Asks(c, t)
      <4>1. PICK a : inv' = [inv EXCEPT ![c] = [NoInvocation EXCEPT !.stage = "checked",
                                                  !.thread = t, !.answer = a]]
        BY <3>2 DEF Asks
      <4> QED BY <2>1, <4>1 DEF NoInvocation
    <3>3. CASE Takes(c, t)
      <4> DEFINE s == IF ckpt[t].next = "END" THEN "returned" ELSE "body"
                 a == IF ckpt[t].answer = NoAnswer THEN inv[c].answer ELSE ckpt[t].answer
                 new == [NoInvocation EXCEPT !.stage = s, !.node = ckpt[t].next,
                                 !.thread = t, !.values = ckpt[t].values, !.answer = a]
      <4>1. inv' = [inv EXCEPT ![c] = new] /\ s \in {"returned", "body"}
        BY <3>3 DEF Takes, Resume
      <4> HIDE DEF s, a
      <4>2. new.stage = s
        BY DEF NoInvocation
      <4> HIDE DEF new
      <4> QED BY <2>1, <4>1, <4>2 DEF Running
    <3>4. CASE NodeStep(c)
      BY <2>1, <3>4, NodeStepGoes
    <3>5. CASE Save(c)
      BY <2>1, <3>5, SaveParts DEF Active
    <3>6. CASE StatementFails(c)
      BY <2>1, <3>6, FaultParts
    <3> QED BY <1>2, <3>1, <3>2, <3>3, <3>4, <3>5, <3>6
  <2>3. T(c)' = t /\ Active(c)'
    BY <2>2 DEF AtThread, T, Active
  <2>4. RestOK(t)'
    BY <2>3 DEF RestOK, Busy
  <2> QED BY <1>2, <2>4, CompletesAt
<1>3. \/ T(c) = t /\ (Respond(c) \/ RespondError(c))
      \/ /\ ~(T(c) = t /\ (Respond(c) \/ RespondError(c)))
         /\ \/ Runs(c, t) \/ Asks(c, t) \/ Takes(c, t)
            \/ T(c) = t /\ (NodeStep(c) \/ Save(c) \/ StatementFails(c))
  BY DEF ThreadStep
<1> QED BY <1>1, <1>2, <1>3

\* A thread that a step leaves alone, with all its calls.
LEMMA RestOther ==
  ASSUME NEW u \in Threads, RestOK(u), CompletesOK(u), runs'[u] = runs[u], ckpt'[u] = ckpt[u],
         \A d \in Calls : T(d) = u => inv'[d] = inv[d] /\ http'[d] = http[d]
  PROVE  RestOK(u)' /\ CompletesOK(u)'
<1>1. CompletesOK(u)'
  BY DEF CompletesOK, Ended, At, T
<1>2. RestOK(u)'
  BY DEF RestOK, Busy, Active, Resumes, Ended, Interrupted, T
<1> QED BY <1>1, <1>2

\* Every step of the service.
LEMMA RestServiceStep ==
  ASSUME ~Overlap, Base, Base', ClosedInv, RestInv, [Next]_vars
  PROVE  RestInv'
<1> SUFFICES ASSUME faults' = 0
             PROVE  /\ \A c \in Calls : RunOK(c)'
                    /\ \A t \in Threads : RestOK(t)' /\ CompletesOK(t)'
  BY DEF RestInv
<1>1. /\ \A c \in Calls : RunOK(c)
      /\ \A t \in Threads : RestOK(t) /\ CompletesOK(t)
      /\ \A c \in Calls : Active(c) => T(c) \in Threads
  BY FaultsStay DEF RestInv, Base, GraphInv, CallOK, T
<1>2. ASSUME NEW c \in Calls, NEW t \in Threads, AtThread(c, t), ThreadStep(c, t)
      PROVE  /\ \A d \in Calls : RunOK(d)'
             /\ \A u \in Threads : RestOK(u)' /\ CompletesOK(u)'
  <2>1. ASSUME NEW d \in Calls, d # c PROVE RunOK(d)'
    <3>1. \A u \in Threads : Active(d) /\ T(d) = u => ckpt'[u] = ckpt[u] /\ runs'[u] = runs[u]
      BY <1>2, <2>1 DEF AtThread, SameThread
    <3>2. inv'[d] = inv[d] /\ unsaved'[d] = unsaved[d] /\ http'[d] = http[d]
      BY <1>2, <2>1 DEF AtThread
    <3> QED BY <1>1, <3>1, <3>2, RunOther
  <2>2. ASSUME NEW u \in Threads, u # t PROVE RestOK(u)' /\ CompletesOK(u)'
    <3>1. T(c) # u
      <4>1. T(c) = t \/ T(c) = Null
        BY <1>2 DEF ThreadStep, Runs, Asks, Takes, Base, LifecycleInv, RoleOK
      <4> QED BY <2>2, <4>1, ThreadsAssumption
    <3>2. \A d \in Calls : T(d) = u => inv'[d] = inv[d] /\ http'[d] = http[d]
      BY <1>2, <3>1 DEF AtThread
    <3>3. ckpt'[u] = ckpt[u] /\ runs'[u] = runs[u]
      BY <1>2, <2>2 DEF AtThread, SameThread
    <3> QED BY <1>1, <3>2, <3>3, RestOther
  <2> QED BY <1>1, <1>2, <2>1, <2>2, RunAt, RestAt
<1>3. ASSUME NEW c \in Calls, TurnedAway(c)
      PROVE  /\ \A d \in Calls : RunOK(d)'
             /\ \A u \in Threads : RestOK(u)' /\ CompletesOK(u)'
  <2>1. /\ inv \in [Calls -> Invocation] /\ http \in [Calls -> Http] /\ ckpt' = ckpt
        /\ unsaved' = unsaved /\ runs' = runs /\ T(c) = Null /\ ~Active(c)
    BY <1>3 DEF Base, GraphInv, GraphTypeOK, HttpOK, TurnedAway, ckptVars, storeVars,
       LifecycleInv, RoleOK, Active, Running
  <2>2. /\ inv'[c].stage = "done"
        /\ \A d \in Calls : d # c => inv'[d] = inv[d] /\ http'[d] = http[d]
    BY <1>3, <2>1 DEF TurnedAway, Invocation, Http
  <2>3. RunOK(c)'
    BY <2>2 DEF RunOK, Active, Running
  <2>4. ASSUME NEW d \in Calls, d # c PROVE RunOK(d)'
    BY <1>1, <2>1, <2>2, <2>4, RunOther
  <2>5. ASSUME NEW u \in Threads PROVE RestOK(u)' /\ CompletesOK(u)'
    <3>1. \A d \in Calls : T(d) = u => inv'[d] = inv[d] /\ http'[d] = http[d]
      BY <2>1, <2>2, ThreadsAssumption
    <3> QED BY <1>1, <2>1, <3>1, RestOther
  <2> QED BY <2>3, <2>4, <2>5
<1>4. CASE CrashStep
  <2>1. faults \in Nat
    BY GraphAssumption DEF Base, GraphInv, GraphTypeOK
  <2> QED BY <1>4, <2>1 DEF CrashStep, Crash
<1>5. CASE UNCHANGED vars
  <2>1. inv' = inv /\ http' = http /\ ckpt' = ckpt /\ unsaved' = unsaved /\ runs' = runs
    BY <1>5 DEF vars, ckptVars, storeVars
  <2>2. ASSUME NEW d \in Calls PROVE RunOK(d)'
    BY <1>1, <2>1, RunOther
  <2>3. ASSUME NEW u \in Threads PROVE RestOK(u)' /\ CompletesOK(u)'
    BY <1>1, <2>1, RestOther
  <2> QED BY <2>2, <2>3
<1> QED BY <1>2, <1>3, <1>4, <1>5, ServiceSteps

\* What is left of a thread, as long as no statement fails.
LEMMA RestInvariance ==
  ASSUME ~Overlap, Checkpointer = "sqlite"
  PROVE  Spec => []RestInv
<1>1. Init => RestInv
  <2> SUFFICES ASSUME Init PROVE RestInv
    OBVIOUS
  <2>1. /\ \A c \in Calls : inv[c].stage = "idle"
        /\ \A t \in Threads : ckpt[t] = NoCheckpoint /\ runs[t] = NoRow
    BY DEF Init, CkptInit, StoreInit, GraphInit, NoInvocation
  <2>2. /\ NoCheckpoint.values.final_status = Null /\ NoRow.final_status = Null
        /\ ~NoRow.completed_at
    BY DEF NoCheckpoint, NoValues, NoRow
  <2>3. ASSUME NEW c \in Calls PROVE RunOK(c)
    BY <2>1 DEF RunOK, Active, Running
  <2>4. ASSUME NEW t \in Threads PROVE RestOK(t) /\ CompletesOK(t)
    BY <2>1, <2>2 DEF RestOK, CompletesOK
  <2> QED BY <2>3, <2>4 DEF RestInv
<1>2. Base /\ Base' /\ ClosedInv /\ RestInv /\ [Next]_vars => RestInv'
  BY RestServiceStep
<1> QED BY <1>1, <1>2, ServiceSerialInvariance, ClosedInvariance, PTL DEF Spec

\* With nobody at it, a thread without an error is told by GET /api/runs as it is: an
\* interrupted one by its interrupt, one that has ended by its state, and any other as one
\* that has no outcome yet.
LEMMA StatusOfThread ==
  ASSUME Base, ClosedInv, RestInv, InboxExact, Smooth, Quiet, NEW t \in Threads
  PROVE  /\ RunStatus(t).status = "interrupted" <=> t \in PendingReviews
         /\ RunStatus(t).status = "completed" <=> runs[t].completed_at
         /\ runs[t].completed_at => RunStatus(t).final_status = runs[t].final_status
<1> DEFINE v == ckpt[t].values
           final == Coalesce(v.final_status, runs[t].final_status)
           route == Coalesce(v.route, runs[t].route)
<1>1. /\ RestOK(t) /\ CompletesOK(t) /\ ThreadOK(t) /\ SavedOK(t)
      /\ Ended(t) => Told(t, v)
      /\ t \in PendingReviews <=> Interrupted(t)
      /\ ~Busy(t)
      /\ \A c \in Calls : Resumes(c) => http[c].code # 500
  BY DEF RestInv, Smooth, Base, LifecycleInv, ShapeInv, ClosedInv, InboxExact, Quiet, Busy,
     Resumes
<1>2. Interrupted(t) => runs[t].exists /\ ~Ended(t)
  BY <1>1 DEF ThreadOK, PutForward, Interrupted, SavedOK, Ended
<1>3. runs[t].completed_at => Ended(t)
  <2> SUFFICES ASSUME runs[t].completed_at, ~Ended(t) PROVE FALSE
    OBVIOUS
  <2>1. PICK c \in Calls : At(c, "audit_and_report", "return") \/ At(c, "END", "returned")
    BY <1>1 DEF CompletesOK
  <2> QED BY <2>1 DEF Quiet, At, Active, Running
<1>4. Ended(t) \/ Interrupted(t) \/ final = Null
  <2>1. CASE v.final_status = Null /\ runs[t].final_status = Null
    BY <2>1 DEF Coalesce
  <2> QED BY <1>1, <2>1 DEF RestOK
<1>5. ASSUME Ended(t)
      PROVE  /\ runs[t].exists /\ ~Interrupted(t) /\ runs[t].completed_at
             /\ final # Null /\ route # Null /\ final = runs[t].final_status
  <2>1. /\ v.final_status # Null /\ v.route # Null /\ runs[t].exists /\ runs[t].completed_at
        /\ runs[t].final_status = v.final_status
    BY <1>1, <1>5 DEF Told, RowTells, Decided, Sound
  <2> QED BY <1>2, <1>5, <2>1 DEF Coalesce
<1> HIDE DEF final, route
<1>6. RunStatus(t) = CASE ~runs[t].exists -> [NoHttp EXCEPT !.code = 404]
        [] runs[t].exists /\ Interrupted(t) ->
             [NoHttp EXCEPT !.code = 200, !.status = "interrupted"]
        [] runs[t].exists /\ ~Interrupted(t) /\ Null \in {final, route} ->
             [NoHttp EXCEPT !.code = 500]
        [] OTHER -> [NoHttp EXCEPT !.code = 200, !.status = "completed",
                                   !.final_status = final, !.decision = v.decision]
  BY DEF RunStatus, final, route, v
<1>7. CASE ~runs[t].exists
  <2>1. RunStatus(t).status = Null
    BY <1>6, <1>7 DEF NoHttp
  <2> QED BY <1>1, <1>2, <1>3, <1>5, <1>7, <2>1 DEF Null
<1>8. CASE runs[t].exists /\ Interrupted(t)
  <2>1. RunStatus(t).status = "interrupted"
    BY <1>6, <1>8 DEF NoHttp
  <2> QED BY <1>1, <1>2, <1>3, <1>8, <2>1
<1>9. CASE runs[t].exists /\ ~Interrupted(t) /\ Null \in {final, route}
  <2>1. RunStatus(t).status = Null
    BY <1>6, <1>9 DEF NoHttp
  <2> QED BY <1>1, <1>3, <1>5, <1>9, <2>1 DEF Null
<1>10. CASE runs[t].exists /\ ~Interrupted(t) /\ Null \notin {final, route}
  <2>1. RunStatus(t).status = "completed" /\ RunStatus(t).final_status = final
    BY <1>6, <1>10 DEF NoHttp
  <2>2. Ended(t)
    BY <1>4, <1>10
  <2> QED BY <1>1, <1>5, <1>10, <2>1, <2>2
<1> QED BY <1>7, <1>8, <1>9, <1>10

\* With nobody active and nothing gone wrong, GET /api/runs, which puts its answer together
\* from the checkpoints and the audit store, says what the audit store says: interrupted for
\* the runs of the inbox, completed with the row's final status for the finalised ones.
THEOREM ServiceStatusAgrees ==
  ASSUME ~Overlap, Checkpointer = "sqlite"
  PROVE  Spec => []StatusAgrees
<1>1. Base /\ ClosedInv /\ RestInv /\ InboxExact => StatusAgrees
  <2> SUFFICES ASSUME Base, ClosedInv, RestInv, InboxExact, Smooth, Quiet
               PROVE  \A t \in Threads :
                        /\ RunStatus(t).status = "interrupted" <=> t \in PendingReviews
                        /\ RunStatus(t).status = "completed" <=> runs[t].completed_at
                        /\ runs[t].completed_at =>
                             RunStatus(t).final_status = runs[t].final_status
    BY DEF StatusAgrees
  <2> QED BY StatusOfThread
<1> QED BY <1>1, ServiceSerialInvariance, ClosedInvariance, RestInvariance, ReviewInboxExact, PTL

\* The invariants of the outcome, each inductive with those before it.
THEOREM ServiceOutcomeInvariance ==
  ASSUME ~Overlap, Checkpointer = "sqlite"
  PROVE  Spec => []OutcomeInv
<1>1. ClosedInv /\ CaseInv /\ HonestInv /\ RestInv => OutcomeInv
  BY DEF OutcomeInv
<1> QED BY <1>1, ClosedInvariance, CaseInvariance, HonestInvariance, RestInvariance, PTL
================================================================================
