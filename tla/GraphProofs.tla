------------------------------- MODULE GraphProofs ------------------------------
(***************************************************************************)
(* Every step of the graph keeps GraphInv and ShapeInv, whoever calls it;    *)
(* and while the calls of a thread do not overlap, SerialInv too, and leaves *)
(* a thread that has ended as its report and its row tell it.  These are the *)
(* lemmas that the theorems about the service and about direct callers rest  *)
(* on.                                                                       *)
(***************************************************************************)
EXTENDS ReviewSerial, TLAPS

--------------------------------------------------------------------------------
(* Events account for what they accounted for when there are more of them. *)

\* append_event never takes an event away, so a backed outcome stays backed.
LEMMA BackedMonotone ==
  ASSUME NEW E, NEW F, E \subseteq F, NEW v, Backed(E, v)
  PROVE  Backed(F, v)
BY DEF Backed, Accounts

\* Channel values without an outcome need no event.
LEMMA BackedNothing ==
  ASSUME NEW E, NEW v, v.final_status = Null
  PROVE  Backed(E, v)
BY DEF Backed

\* An outcome is backed by the event that comes with it, one fact per kind of outcome.
LEMMA BackedFailure ==
  ASSUME NEW E, NEW v, v.final_status = "failed", NEW info, NEW c,
         NEW type \in {"ingest_failed", "extraction_failed", "policy_failed"}
  PROVE  Backed(E \cup {[type |-> type, info |-> info, by |-> c]}, v)
<1> DEFINE e == [type |-> type, info |-> info, by |-> c]
<1> SUFFICES Backed(E \cup {e}, v)
  OBVIOUS
<1>1. e \in E \cup {e} /\ e.type = type
  OBVIOUS
<1> HIDE DEF e
<1> QED BY <1>1 DEF Backed, Accounts

\* A document that needs manual parsing.
LEMMA BackedManualParse ==
  ASSUME NEW E, NEW v, v.final_status = "needs_manual_parse", NEW info, NEW c
  PROVE  Backed(E \cup {[type |-> "parse_unsupported", info |-> info, by |-> c]}, v)
<1> DEFINE e == [type |-> "parse_unsupported", info |-> info, by |-> c]
<1> SUFFICES Backed(E \cup {e}, v)
  OBVIOUS
<1>1. e \in E \cup {e} /\ e.type = "parse_unsupported"
  OBVIOUS
<1> HIDE DEF e
<1> QED BY <1>1 DEF Backed, Accounts

\* An automatic approval.
LEMMA BackedAutomatic ==
  ASSUME NEW E, NEW v, v.final_status = "approved_automatically",
         v.decision = "auto_approve", NEW info, NEW c
  PROVE  Backed(E \cup {[type |-> "auto_approved", info |-> info, by |-> c]}, v)
<1> DEFINE e == [type |-> "auto_approved", info |-> info, by |-> c]
<1> SUFFICES Backed(E \cup {e}, v)
  OBVIOUS
<1>1. e \in E \cup {e} /\ e.type = "auto_approved"
  OBVIOUS
<1> HIDE DEF e
<1> QED BY <1>1 DEF Backed, Accounts

\* A reviewer's decision.
LEMMA BackedReview ==
  ASSUME NEW E, NEW v, v.final_status = Verdict(v.decision), NEW c
  PROVE  Backed(E \cup {[type |-> "human_review_completed", info |-> v.decision,
                         by |-> c]}, v)
<1> DEFINE e == [type |-> "human_review_completed", info |-> v.decision, by |-> c]
<1> SUFFICES Backed(E \cup {e}, v)
  OBVIOUS
<1>1. e \in E \cup {e} /\ e.type = "human_review_completed" /\ e.info = v.decision
  OBVIOUS
<1>2. v.final_status \notin {"failed", "needs_manual_parse", "approved_automatically"}
  BY DEF Verdict
<1> HIDE DEF e
<1> QED BY <1>1, <1>2 DEF Backed, Accounts

\* The state a new thread and a new call start from has no outcome.
LEMMA NothingYet ==
  /\ NoValues \in Values /\ NoValues.final_status = Null
  /\ NoAnswer \in AnswersOrNone
BY DEF NoValues, Values, AnswersOrNone

--------------------------------------------------------------------------------
(* Types. *)

\* Taking another stage keeps an invocation well formed.
LEMMA GoType ==
  ASSUME inv \in [Calls -> Invocation], NEW c \in Calls, NEW s \in Stages, Go(c, s)
  PROVE  inv' \in [Calls -> Invocation]
BY DEF Go, Invocation

\* So does a call of append_event.
LEMMA EmitType ==
  ASSUME inv \in [Calls -> Invocation], NEW c \in Calls, NEW type \in EventTypes,
         NEW info \in Infos, NEW result \in Values, Emit(c, type, info, result)
  PROVE  inv' \in [Calls -> Invocation]
<1> DEFINE e == [type |-> type, info |-> info]
           new == [inv[c] EXCEPT !.stage = "insert", !.result = result, !.event = e]
<1>1. e \in [type : EventTypes \cup {Null}, info : Infos]
  OBVIOUS
<1>2. inv[c] \in Invocation
  OBVIOUS
<1>3. "insert" \in Stages
  BY DEF Stages
<1>4. new \in Invocation
  <2> HIDE DEF e
  <2> QED BY <1>1, <1>2, <1>3 DEF Invocation
<1>5. inv' = [inv EXCEPT ![c] = new]
  BY DEF Emit
<1> HIDE DEF new
<1> QED BY <1>4, <1>5

\* The record of a call that has not begun.
LEMMA NoInvocationType ==
  NoInvocation \in Invocation /\ NoInvocation.result = NoValues
<1> DEFINE e == [type |-> Null, info |-> Null]
           r == [interrupted_at |-> FALSE, resumed_at |-> FALSE]
<1>1. /\ e \in [type : EventTypes \cup {Null}, info : Infos]
      /\ r \in [interrupted_at : BOOLEAN, resumed_at : BOOLEAN]
  BY DEF Infos
<1>2. NoInvocation =
        [stage |-> "idle", node |-> "NONE", thread |-> Null, document |-> Null,
         answer |-> NoAnswer, values |-> NoValues, result |-> NoValues,
         event |-> e, read |-> r]
  BY DEF NoInvocation
<1> HIDE DEF e, r
<1> QED BY <1>1, <1>2, NothingYet DEF Invocation, Stages, Places

\* What is left of a call that is over.
LEMMA OverType ==
  ASSUME NEW t \in Threads \cup {Null}, NEW s \in Stages
  PROVE  [NoInvocation EXCEPT !.stage = s, !.thread = t] \in Invocation
BY NoInvocationType DEF Invocation

--------------------------------------------------------------------------------
(* Frames: what a step of one call does not touch. *)

\* A call that a step leaves alone is as well off as before it.
LEMMA OtherCall ==
  ASSUME NEW d \in Calls, CallOK(d), inv'[d] = inv[d], unsaved'[d] = unsaved[d],
         \A t \in Threads : events[t] \subseteq events'[t]
  PROVE  CallOK(d)'
<1> DEFINE E == events[inv[d].thread]
           F == events'[inv[d].thread]
<1>1. Active(d)' = Active(d)
  BY DEF Active
<1>2. Written(d)' = Written(d)
  BY DEF Written
<1>3. inv[d].thread \in Threads => E \subseteq F
  OBVIOUS
<1>4. inv[d].stage \in {"insert", "line"} => Active(d)
  BY DEF Active, Running
<1>5. \A v : inv[d].thread \in Threads /\ Backed(E, v) => Backed(F, v)
  BY <1>3, BackedMonotone
<1>6. inv[d].thread \in Threads => E \cup {Written(d)} \subseteq F \cup {Written(d)}
  BY <1>3
<1>7. \A v : inv[d].thread \in Threads /\ Backed(E \cup {Written(d)}, v)
               => Backed(F \cup {Written(d)}, v)
  BY <1>6, BackedMonotone
<1> QED
  <2> HIDE DEF E, F
  <2>1. CallOK(d)' =
          /\ Active(d) =>
               /\ inv[d].thread \in Threads
               /\ Backed(F, inv[d].values)
               /\ inv[d].stage \in Running \ {"insert"} => Backed(F, inv[d].result)
          /\ inv[d].stage = "insert" => Backed(F \cup {Written(d)}, inv[d].result)
          /\ inv[d].stage = "line" => Written(d) \in F
          /\ inv[d].stage \in {"insert", "line"} => inv[d].event.type \in EventTypes
          /\ inv[d].stage \in {"idle", "checked"} => unsaved[d] = {}
          /\ \A k \in unsaved[d] : inv[d].thread \in Threads /\ Backed(F, k.values)
    BY <1>1, <1>2 DEF CallOK, F, Backed
  <2>2. CallOK(d) =
          /\ Active(d) =>
               /\ inv[d].thread \in Threads
               /\ Backed(E, inv[d].values)
               /\ inv[d].stage \in Running \ {"insert"} => Backed(E, inv[d].result)
          /\ inv[d].stage = "insert" => Backed(E \cup {Written(d)}, inv[d].result)
          /\ inv[d].stage = "line" => Written(d) \in E
          /\ inv[d].stage \in {"insert", "line"} => inv[d].event.type \in EventTypes
          /\ inv[d].stage \in {"idle", "checked"} => unsaved[d] = {}
          /\ \A k \in unsaved[d] : inv[d].thread \in Threads /\ Backed(E, k.values)
    BY DEF CallOK, E
  <2> QED BY <1>3, <1>4, <1>5, <1>7, <2>1, <2>2

\* A step of call c that ends with c in order keeps every call in order.
LEMMA AllCalls ==
  ASSUME \A d \in Calls : CallOK(d), NEW c \in Calls, CallOK(c)',
         \A d \in Calls : d # c => inv'[d] = inv[d] /\ unsaved'[d] = unsaved[d],
         \A t \in Threads : events[t] \subseteq events'[t]
  PROVE  \A d \in Calls : CallOK(d)'
<1> SUFFICES ASSUME NEW d \in Calls PROVE CallOK(d)'
  OBVIOUS
<1>1. CASE d = c
  BY <1>1
<1>2. CASE d # c
  BY <1>2, OtherCall
<1> QED BY <1>1, <1>2

\* A step of call c that writes to neither stream keeps them in agreement, unless c was
\* between the two writes and leaves off without a fault.
LEMMA StreamsKept ==
  ASSUME StoreTypeOK, StreamsAgree, NEW c \in Calls,
         \A d \in Calls : d # c => inv'[d] = inv[d],
         UNCHANGED <<events, log>>,
         faults \in Nat, faults' \in Nat, faults <= faults',
         inv[c].stage # "line" \/ faults' > 0
  PROVE  StreamsAgree'
<1> SUFFICES ASSUME NEW t \in Threads,
                    NEW e \in events[t] \ log[t],
                    ~(faults' > 0)
             PROVE  BetweenWrites(e, t)'
  BY DEF StreamsAgree
<1>1. e.by \in Calls
  BY DEF StoreTypeOK, Event
<1>2. BetweenWrites(e, t)
  BY DEF StreamsAgree
<1>3. e.by # c
  BY <1>2 DEF BetweenWrites
<1> QED BY <1>1, <1>2, <1>3 DEF BetweenWrites

\* Saved states, reports and rows whose outcomes did not change stay backed.
LEMMA OutcomeKept ==
  ASSUME OutcomeLogged,
         \A t \in Threads :
           /\ events[t] \subseteq events'[t]
           /\ ckpt'[t].values = ckpt[t].values
           /\ reports'[t] = reports[t]
           /\ runs'[t].final_status \in {runs[t].final_status, "failed", Null}
  PROVE  OutcomeLogged'
<1> SUFFICES ASSUME NEW t \in Threads
             PROVE  /\ Backed(events'[t], ckpt'[t].values)
                    /\ reports'[t].written => Backed(events'[t], reports'[t])
                    /\ runs'[t].final_status \notin {"failed", Null} =>
                         \E d \in Words \cup {"auto_approve", Null} :
                           Accounts(events'[t], runs'[t].final_status, d)
  BY DEF OutcomeLogged, Backed
<1>1. Backed(events'[t], ckpt'[t].values)
  BY BackedMonotone DEF OutcomeLogged
<1>2. reports'[t].written => Backed(events'[t], reports'[t])
  BY BackedMonotone DEF OutcomeLogged
<1>3. ASSUME runs'[t].final_status \notin {"failed", Null}
      PROVE  \E d \in Words \cup {"auto_approve", Null} :
               Accounts(events'[t], runs'[t].final_status, d)
  <2>1. runs'[t].final_status = runs[t].final_status
    BY <1>3
  <2>2. PICK d \in Words \cup {"auto_approve", Null} :
          Accounts(events[t], runs[t].final_status, d)
    BY <1>3, <2>1 DEF OutcomeLogged
  <2>3. Accounts(events'[t], runs[t].final_status, d)
    BY <2>2 DEF Accounts
  <2> QED BY <2>1, <2>3
<1> QED BY <1>1, <1>2, <1>3

--------------------------------------------------------------------------------
(* The two kinds of step most actions are. *)

\* A call that takes another stage, its thread, values and update kept.
LEMMA GoStep ==
  ASSUME GraphInv, NEW c \in Calls, Active(c),
         NEW s \in Stages \ {"idle", "checked", "insert", "line"},
         s \in Running => inv[c].stage \in Running \ {"insert"},
         inv'[c].stage = s, inv'[c].thread = T(c), inv'[c].values = V(c),
         inv'[c].result = inv[c].result,
         \A d \in Calls : d # c => inv'[d] = inv[d],
         UNCHANGED <<events, log, unsaved>>,
         faults' \in Nat, faults <= faults',
         inv[c].stage # "line" \/ faults' > 0
  PROVE  /\ \A d \in Calls : CallOK(d)'
         /\ StreamsAgree'
<1>1. CallOK(c)
  BY DEF GraphInv
<1>2. CallOK(c)'
  BY <1>1 DEF CallOK, T, V, Backed, Active, Running
<1>3. \A d \in Calls : CallOK(d)'
  BY <1>2, AllCalls DEF GraphInv
<1>4. faults \in Nat
  BY GraphAssumption DEF GraphInv, GraphTypeOK
<1>5. StreamsAgree'
  BY <1>4, StreamsKept DEF GraphInv
<1> QED BY <1>3, <1>5

\* A call that begins append_event, with an update that the event will back.
LEMMA EmitStep ==
  ASSUME GraphInv, NEW c \in Calls, inv[c].stage \in Running,
         NEW type \in EventTypes, NEW info \in Infos, NEW result \in Values,
         Backed(events[T(c)] \cup {[type |-> type, info |-> info, by |-> c]}, result),
         Emit(c, type, info, result),
         UNCHANGED <<events, log, unsaved>>,
         faults' \in Nat, faults <= faults',
         inv[c].stage # "line" \/ faults' > 0
  PROVE  /\ inv' \in [Calls -> Invocation]
         /\ \A d \in Calls : CallOK(d)'
         /\ StreamsAgree'
<1>1. inv' \in [Calls -> Invocation]
  BY EmitType DEF GraphInv, GraphTypeOK
<1>2. /\ inv'[c].stage = "insert" /\ inv'[c].thread = T(c) /\ inv'[c].values = V(c)
      /\ inv'[c].result = result
      /\ inv'[c].event.type = type /\ inv'[c].event.info = info
      /\ \A d \in Calls : d # c => inv'[d] = inv[d]
  <2>1. inv \in [Calls -> Invocation]
    BY DEF GraphInv, GraphTypeOK
  <2> QED BY <2>1 DEF Emit, Invocation, T, V
<1>3. CallOK(c)
  BY DEF GraphInv
<1>4. Active(c) /\ Active(c)'
  BY <1>2 DEF Active, Running
<1>5. Written(c)' = [type |-> type, info |-> info, by |-> c]
  BY <1>2 DEF Written
<1>6. CallOK(c)'
  BY <1>2, <1>3, <1>4, <1>5 DEF CallOK, T, V, Backed
<1>7. \A d \in Calls : CallOK(d)'
  BY <1>2, <1>6, AllCalls DEF GraphInv
<1>8. faults \in Nat
  BY GraphAssumption DEF GraphInv, GraphTypeOK
<1>9. StreamsAgree'
  BY <1>2, <1>8, StreamsKept DEF GraphInv
<1> QED BY <1>1, <1>7, <1>9

--------------------------------------------------------------------------------
(* The writes to table runs. *)

\* register_run leaves a row; its final_status is the new one or the one it had.
LEMMA RegisterRow ==
  ASSUME runs \in [Threads -> Row], NEW t \in Threads,
         NEW final \in FinalStatuses \cup {Null}, NEW route \in Routes \cup {Null},
         RegisterRun(t, final, route)
  PROVE  /\ runs' \in [Threads -> Row]
         /\ \A u \in Threads : u # t => runs'[u] = runs[u]
         /\ runs'[t].final_status = Coalesce(final, runs[t].final_status)
BY DEF RegisterRun, Row, Coalesce, ReviewStatuses

\* mark_review_pending and mark_review_completed leave a row, its final_status as it was.
LEMMA TransitionRow ==
  ASSUME runs \in [Threads -> Row], NEW t \in Threads, NEW status \in ReviewStatuses,
         NEW read \in [interrupted_at : BOOLEAN, resumed_at : BOOLEAN],
         UpdateReviewStatus(t, status, read)
  PROVE  /\ runs' \in [Threads -> Row]
         /\ \A u \in Threads : runs'[u].final_status = runs[u].final_status
<1> DEFINE new == [runs[t] EXCEPT !.review_status = status,
                     !.interrupted_at = read.interrupted_at \/ status = "pending",
                     !.resumed_at = read.resumed_at \/ status = "completed"]
<1>1. new \in Row /\ new.final_status = runs[t].final_status
  BY DEF Row
<1>2. runs' = [runs EXCEPT ![t] = new]
  BY DEF UpdateReviewStatus
<1> HIDE DEF new
<1> QED BY <1>1, <1>2

\* finalize_run leaves a row; a row that was there has the final_status of the state.
LEMMA FinalizeRow ==
  ASSUME runs \in [Threads -> Row], NEW t \in Threads, NEW v \in Values,
         FinalizeRun(t, v)
  PROVE  /\ runs' \in [Threads -> Row]
         /\ \A u \in Threads : u # t => runs'[u] = runs[u]
         /\ runs'[t].final_status \in {runs[t].final_status, v.final_status}
<1> DEFINE new == [runs[t] EXCEPT !.review_status = DefaultReviewStatus(v),
                     !.final_status = v.final_status, !.route = v.route,
                     !.completed_at = TRUE]
<1>1. DefaultReviewStatus(v) \in ReviewStatuses
  BY DEF DefaultReviewStatus, Coalesce, Values, ReviewStatuses
<1>2. new \in Row /\ new.final_status = v.final_status
  BY <1>1 DEF Row, Values
<1>3. runs' = [runs EXCEPT ![t] = IF runs[t].exists THEN new ELSE runs[t]]
  BY DEF FinalizeRun
<1> HIDE DEF new
<1> QED BY <1>2, <1>3

--------------------------------------------------------------------------------
(* The actions of the nodes. *)

\* What an active call can count on.
LEMMA CallFacts ==
  ASSUME GraphInv, NEW c \in Calls, inv[c].stage \in Running
  PROVE  /\ Active(c) /\ T(c) \in Threads /\ inv[c] \in Invocation
         /\ V(c) \in Values /\ inv[c].result \in Values
         /\ Backed(events[T(c)], V(c))
         /\ faults \in Nat
<1>1. CallOK(c) /\ inv[c] \in Invocation /\ faults \in Nat
  BY GraphAssumption DEF GraphInv, GraphTypeOK
<1>2. Active(c)
  BY DEF Active
<1> QED BY <1>1, <1>2 DEF CallOK, T, V, Invocation

\* An update that leaves the outcome alone is backed by whatever backed it before.
LEMMA SameOutcome ==
  ASSUME NEW E, NEW e, NEW v, NEW w, Backed(E, v),
         w.final_status = v.final_status, w.decision = v.decision
  PROVE  Backed(E \cup {e}, w)
<1>1. Backed(E \cup {e}, v)
  BY BackedMonotone
<1> QED BY <1>1 DEF Backed

\* ingest_contract: a row without an outcome of its own, or "failed" with its event.
LEMMA IngestKeeps ==
  ASSUME GraphInv, NEW c \in Calls, IngestContract(c)
  PROVE  GraphInv'
<1>1. inv[c].stage \in Running /\ inv[c].stage # "line"
  BY DEF IngestContract, At, Running
<1>2. /\ T(c) \in Threads /\ V(c) \in Values /\ Backed(events[T(c)], V(c))
      /\ faults \in Nat
  BY <1>1, CallFacts
<1>3. StoreTypeOK /\ OutcomeLogged /\ CkptTypeOK /\ GraphTypeOK
  BY DEF GraphInv
<1>4. UNCHANGED <<events, log, reports, ckpt, unsaved, clock, faults>>
  BY DEF IngestContract, ckptVars
<1>5. CASE IngestFound(c)
  <2> DEFINE w == [V(c) EXCEPT !.parse_status = "pending",
                               !.review_status = "not_required"]
  <2>1. w \in Values /\ w.final_status = V(c).final_status /\ w.decision = V(c).decision
    BY <1>2 DEF Values, ReviewStatuses
  <2>2. RegisterRun(T(c), Null, Null) /\ Emit(c, "ingested", Null, w)
    BY <1>5 DEF IngestFound
  <2>3. /\ runs' \in [Threads -> Row]
        /\ \A u \in Threads : runs'[u].final_status = runs[u].final_status
    BY <1>2, <1>3, <2>2, RegisterRow DEF StoreTypeOK, Coalesce
  <2>4. Backed(events[T(c)] \cup {[type |-> "ingested", info |-> Null, by |-> c]}, w)
    <3> HIDE DEF w
    <3> QED BY <1>2, <2>1, SameOutcome
  <2>5. /\ inv' \in [Calls -> Invocation]
        /\ \A d \in Calls : CallOK(d)'
        /\ StreamsAgree'
    <3> HIDE DEF w
    <3>1. "ingested" \in EventTypes /\ Null \in Infos
      BY DEF EventTypes, Infos
    <3>2. UNCHANGED <<events, log, unsaved>> /\ faults' \in Nat /\ faults <= faults'
      BY <1>2, <1>4
    <3> QED BY <1>1, <2>1, <2>2, <2>4, <3>1, <3>2, EmitStep
  <2>6. OutcomeLogged'
    BY <1>3, <1>4, <2>3, OutcomeKept
  <2> QED BY <1>3, <1>4, <2>3, <2>5, <2>6
          DEF GraphInv, StoreTypeOK, CkptTypeOK, GraphTypeOK
<1>6. CASE IngestMissing(c)
  <2> DEFINE w == [V(c) EXCEPT !.final_status = "failed", !.route = "audit_only",
                               !.review_status = "not_required"]
  <2>1. w \in Values /\ w.final_status = "failed"
    BY <1>2 DEF Values, ReviewStatuses, FinalStatuses, Routes
  <2>2. RegisterRun(T(c), "failed", "audit_only") /\ Emit(c, "ingest_failed", Null, w)
    BY <1>6 DEF IngestMissing
  <2>3. /\ runs' \in [Threads -> Row]
        /\ \A u \in Threads : runs'[u].final_status \in {runs[u].final_status, "failed"}
    <3>1. "failed" \in FinalStatuses /\ "audit_only" \in Routes
      BY DEF FinalStatuses, Routes
    <3> QED BY <1>2, <1>3, <2>2, <3>1, RegisterRow DEF StoreTypeOK, Coalesce
  <2>4. Backed(events[T(c)] \cup {[type |-> "ingest_failed", info |-> Null, by |-> c]}, w)
    <3> HIDE DEF w
    <3> QED BY <2>1, BackedFailure
  <2>5. /\ inv' \in [Calls -> Invocation]
        /\ \A d \in Calls : CallOK(d)'
        /\ StreamsAgree'
    <3> HIDE DEF w
    <3>1. "ingest_failed" \in EventTypes /\ Null \in Infos
      BY DEF EventTypes, Infos
    <3>2. UNCHANGED <<events, log, unsaved>> /\ faults' \in Nat /\ faults <= faults'
      BY <1>2, <1>4
    <3> QED BY <1>1, <2>1, <2>2, <2>4, <3>1, <3>2, EmitStep
  <2>6. OutcomeLogged'
    BY <1>3, <1>4, <2>3, OutcomeKept
  <2> QED BY <1>3, <1>4, <2>3, <2>5, <2>6
          DEF GraphInv, StoreTypeOK, CkptTypeOK, GraphTypeOK
<1> QED BY <1>5, <1>6 DEF IngestContract

\* A statement that only begins append_event.
LEMMA EmitKeeps ==
  ASSUME GraphInv, NEW c \in Calls, inv[c].stage \in Running \ {"line"},
         NEW type \in EventTypes, NEW info \in Infos, NEW result \in Values,
         Backed(events[T(c)] \cup {[type |-> type, info |-> info, by |-> c]}, result),
         Emit(c, type, info, result),
         UNCHANGED <<storeVars, ckptVars, faults>>
  PROVE  GraphInv'
<1>1. UNCHANGED <<runs, events, log, reports, ckpt, unsaved, clock, faults>>
  BY DEF storeVars, ckptVars
<1>2. StoreTypeOK /\ OutcomeLogged /\ CkptTypeOK /\ GraphTypeOK
  BY DEF GraphInv
<1>3. faults' \in Nat /\ faults <= faults' /\ UNCHANGED <<events, log, unsaved>>
  BY <1>1, <1>2, GraphAssumption DEF GraphTypeOK
<1>4. /\ inv' \in [Calls -> Invocation]
      /\ \A d \in Calls : CallOK(d)'
      /\ StreamsAgree'
  BY <1>3, EmitStep
<1>5. OutcomeLogged'
  BY <1>1, <1>2, OutcomeKept
<1> QED BY <1>1, <1>2, <1>4, <1>5 DEF GraphInv, StoreTypeOK, CkptTypeOK, GraphTypeOK

\* A statement that only moves on to another stage.
LEMMA GoKeeps ==
  ASSUME GraphInv, NEW c \in Calls,
         inv[c].stage \in Running \ {"line"},
         NEW s \in Stages \ {"idle", "checked", "insert", "line"},
         s \in Running => inv[c].stage # "insert",
         Go(c, s),
         UNCHANGED <<storeVars, ckptVars, faults>>
  PROVE  GraphInv'
<1>1. UNCHANGED <<runs, events, log, reports, ckpt, unsaved, clock, faults>>
  BY DEF storeVars, ckptVars
<1>2. StoreTypeOK /\ OutcomeLogged /\ CkptTypeOK /\ GraphTypeOK
  BY DEF GraphInv
<1>3. faults' \in Nat /\ faults <= faults' /\ UNCHANGED <<events, log, unsaved>>
  BY <1>1, <1>2, GraphAssumption DEF GraphTypeOK
<1>4. /\ inv'[c].stage = s /\ inv'[c].thread = T(c) /\ inv'[c].values = V(c)
      /\ inv'[c].result = inv[c].result
      /\ \A d \in Calls : d # c => inv'[d] = inv[d]
  BY <1>2 DEF Go, GraphTypeOK, Invocation, T, V
<1>5. inv' \in [Calls -> Invocation]
  BY <1>2, GoType DEF GraphTypeOK
<1>6. Active(c)
  BY DEF Active
<1>7. (\A d \in Calls : CallOK(d)') /\ StreamsAgree'
  BY <1>3, <1>4, <1>6, GoStep
<1>8. OutcomeLogged'
  BY <1>1, <1>2, OutcomeKept
<1> QED BY <1>1, <1>2, <1>5, <1>7, <1>8 DEF GraphInv, StoreTypeOK, CkptTypeOK, GraphTypeOK

\* parse_and_chunk_clauses.
LEMMA ParseKeeps ==
  ASSUME GraphInv, NEW c \in Calls, ParseAndChunkClauses(c)
  PROVE  GraphInv'
<1>1. inv[c].stage \in Running \ {"line"} /\ inv[c].stage # "insert"
  BY DEF ParseAndChunkClauses, At, Running
<1>2. V(c) \in Values /\ Backed(events[T(c)], V(c))
  BY <1>1, CallFacts
<1>3. UNCHANGED <<storeVars, ckptVars, faults>>
  BY DEF ParseAndChunkClauses
<1>4. {"parsed", "parse_unsupported"} \subseteq EventTypes /\ Null \in Infos
  BY DEF EventTypes, Infos
<1>5. ASSUME Emit(c, "parsed", Null, [V(c) EXCEPT !.parse_status = "parsed"])
      PROVE  GraphInv'
  <2> DEFINE w == [V(c) EXCEPT !.parse_status = "parsed"]
  <2>1. w \in Values /\ w.final_status = V(c).final_status /\ w.decision = V(c).decision
    BY <1>2 DEF Values
  <2>2. Emit(c, "parsed", Null, w)
    BY <1>5
  <2> HIDE DEF w
  <2>3. Backed(events[T(c)] \cup {[type |-> "parsed", info |-> Null, by |-> c]}, w)
    BY <1>2, <2>1, SameOutcome
  <2> QED BY <1>1, <1>3, <1>4, <2>1, <2>2, <2>3, EmitKeeps
<1>6. ASSUME Emit(c, "parse_unsupported", Null,
                  [V(c) EXCEPT !.parse_status = "needs_manual_parse",
                               !.route = "audit_only",
                               !.final_status = "needs_manual_parse"])
      PROVE  GraphInv'
  <2> DEFINE w == [V(c) EXCEPT !.parse_status = "needs_manual_parse",
                               !.route = "audit_only",
                               !.final_status = "needs_manual_parse"]
  <2>1. w \in Values /\ w.final_status = "needs_manual_parse"
    BY <1>2 DEF Values, Routes, FinalStatuses
  <2>2. Emit(c, "parse_unsupported", Null, w)
    BY <1>6
  <2> HIDE DEF w
  <2>3. Backed(events[T(c)] \cup
                 {[type |-> "parse_unsupported", info |-> Null, by |-> c]}, w)
    BY <2>1, BackedManualParse
  <2> QED BY <1>1, <1>3, <1>4, <2>1, <2>2, <2>3, EmitKeeps
<1>7. ASSUME Go(c, "raised") PROVE GraphInv'
  <2>1. "raised" \in Stages \ {"idle", "checked", "insert", "line"}
        /\ "raised" \notin Running
    BY DEF Stages, Running
  <2> QED BY <1>1, <1>3, <1>7, <2>1, GoKeeps
<1> QED BY <1>5, <1>6, <1>7 DEF ParseAndChunkClauses

\* A node that gives up: "failed", with the event that says so.
LEMMA FailureEmitted ==
  ASSUME GraphInv, NEW c \in Calls, inv[c].stage \in Running,
         NEW type \in {"extraction_failed", "policy_failed"}
  PROVE  /\ type \in EventTypes /\ Null \in Infos /\ FailedValues(c) \in Values
         /\ Backed(events[T(c)] \cup {[type |-> type, info |-> Null, by |-> c]},
                   FailedValues(c))
<1>1. V(c) \in Values
  BY CallFacts
<1>2. FailedValues(c) \in Values /\ FailedValues(c).final_status = "failed"
  BY <1>1 DEF FailedValues, Values, FinalStatuses, Routes
<1>3. type \in EventTypes /\ Null \in Infos
  BY DEF EventTypes, Infos
<1>4. Backed(events[T(c)] \cup {[type |-> type, info |-> Null, by |-> c]}, FailedValues(c))
  BY <1>2, BackedFailure
<1> QED BY <1>2, <1>3, <1>4

\* extract_details_and_flag_risk.
LEMMA ExtractKeeps ==
  ASSUME GraphInv, NEW c \in Calls, ExtractDetailsAndFlagRisk(c)
  PROVE  GraphInv'
<1>1. inv[c].stage \in Running \ {"line"}
  BY DEF ExtractDetailsAndFlagRisk, At, Running
<1>2. V(c) \in Values /\ Backed(events[T(c)], V(c))
  BY <1>1, CallFacts
<1>3. UNCHANGED <<storeVars, ckptVars, faults>>
  BY DEF ExtractDetailsAndFlagRisk
<1>4. ASSUME NEW x \in Extractions,
             Emit(c, "extracted", Null,
                  [V(c) EXCEPT !.extractions = x, !.printable = TRUE])
      PROVE  GraphInv'
  <2> DEFINE w == [V(c) EXCEPT !.extractions = x, !.printable = TRUE]
  <2>1. w \in Values /\ w.final_status = V(c).final_status /\ w.decision = V(c).decision
    BY <1>2 DEF Values
  <2>2. Emit(c, "extracted", Null, w)
    BY <1>4
  <2>3. "extracted" \in EventTypes /\ Null \in Infos
    BY DEF EventTypes, Infos
  <2> HIDE DEF w
  <2>4. Backed(events[T(c)] \cup {[type |-> "extracted", info |-> Null, by |-> c]}, w)
    BY <1>2, <2>1, SameOutcome
  <2> QED BY <1>1, <1>3, <2>1, <2>2, <2>3, <2>4, EmitKeeps
<1>5. ASSUME Emit(c, "extraction_failed", Null, FailedValues(c)) PROVE GraphInv'
  <2>1. /\ "extraction_failed" \in EventTypes /\ Null \in Infos
        /\ FailedValues(c) \in Values
        /\ Backed(events[T(c)] \cup
                    {[type |-> "extraction_failed", info |-> Null, by |-> c]},
                  FailedValues(c))
    BY <1>1, FailureEmitted
  <2> QED BY <1>1, <1>3, <1>5, <2>1, EmitKeeps
<1> QED BY <1>4, <1>5 DEF ExtractDetailsAndFlagRisk

\* check_policy_rules.
LEMMA PolicyKeeps ==
  ASSUME GraphInv, NEW c \in Calls, CheckPolicyRules(c)
  PROVE  GraphInv'
<1>1. inv[c].stage \in Running \ {"line"}
  BY DEF CheckPolicyRules, At, Running
<1>2. V(c) \in Values /\ Backed(events[T(c)], V(c))
  BY <1>1, CallFacts
<1>3. UNCHANGED <<storeVars, ckptVars, faults>>
  BY DEF CheckPolicyRules
<1>4. ASSUME Emit(c, "policy_evaluated", Null,
                  [V(c) EXCEPT !.route = EvaluatePolicy(V(c).extractions)])
      PROVE  GraphInv'
  <2> DEFINE w == [V(c) EXCEPT !.route = EvaluatePolicy(V(c).extractions)]
  <2>1. w \in Values /\ w.final_status = V(c).final_status /\ w.decision = V(c).decision
    BY <1>2 DEF Values, EvaluatePolicy, Routes
  <2>2. Emit(c, "policy_evaluated", Null, w)
    BY <1>4
  <2>3. "policy_evaluated" \in EventTypes /\ Null \in Infos
    BY DEF EventTypes, Infos
  <2> HIDE DEF w
  <2>4. Backed(events[T(c)] \cup
                 {[type |-> "policy_evaluated", info |-> Null, by |-> c]}, w)
    BY <1>2, <2>1, SameOutcome
  <2> QED BY <1>1, <1>3, <2>1, <2>2, <2>3, <2>4, EmitKeeps
<1>5. ASSUME Emit(c, "policy_failed", Null, FailedValues(c)) PROVE GraphInv'
  <2>1. /\ "policy_failed" \in EventTypes /\ Null \in Infos
        /\ FailedValues(c) \in Values
        /\ Backed(events[T(c)] \cup
                    {[type |-> "policy_failed", info |-> Null, by |-> c]},
                  FailedValues(c))
    BY <1>1, FailureEmitted
  <2> QED BY <1>1, <1>3, <1>5, <2>1, EmitKeeps
<1> QED BY <1>4, <1>5 DEF CheckPolicyRules

\* auto_advance_standard_cases.
LEMMA AutoAdvanceKeeps ==
  ASSUME GraphInv, NEW c \in Calls, AutoAdvanceStandardCases(c)
  PROVE  GraphInv'
<1> DEFINE w == [V(c) EXCEPT !.final_status = "approved_automatically",
                             !.review_status = "not_required",
                             !.decision = "auto_approve"]
<1>1. inv[c].stage \in Running \ {"line"}
  BY DEF AutoAdvanceStandardCases, At, Running
<1>2. V(c) \in Values
  BY <1>1, CallFacts
<1>3. UNCHANGED <<storeVars, ckptVars, faults>> /\ Emit(c, "auto_approved", Null, w)
  BY DEF AutoAdvanceStandardCases
<1>4. w \in Values /\ w.final_status = "approved_automatically"
      /\ w.decision = "auto_approve"
  BY <1>2 DEF Values, FinalStatuses, ReviewStatuses
<1>5. "auto_approved" \in EventTypes /\ Null \in Infos
  BY DEF EventTypes, Infos
<1> HIDE DEF w
<1>6. Backed(events[T(c)] \cup {[type |-> "auto_approved", info |-> Null, by |-> c]}, w)
  BY <1>4, BackedAutomatic
<1> QED BY <1>1, <1>3, <1>4, <1>5, <1>6, EmitKeeps

--------------------------------------------------------------------------------
(* The actions of human_review. *)

\* A recorded answer leaves the saved values and the unsaved checkpoints as they are.
LEMMA KeepAnswerFrame ==
  ASSUME CkptTypeOK, NEW t \in Threads, NEW answer \in AnswersOrNone,
         KeepAnswer(t, answer)
  PROVE  /\ CkptTypeOK' /\ UNCHANGED <<unsaved, clock>>
         /\ \A u \in Threads : ckpt'[u].values = ckpt[u].values
BY DEF KeepAnswer, CkptTypeOK, ckptVars, Checkpoint

\* The SELECT of a review transition.
LEMMA SelectStep ==
  ASSUME GraphInv, NEW c \in Calls, inv[c].stage \in Running \ {"insert", "line"},
         NEW status,
         NEW update \in Running \ {"insert", "line"},
         NEW otherwise \in Running \ {"insert", "line"},
         SelectStatus(c, status, update, otherwise),
         UNCHANGED <<events, log, unsaved, faults>>
  PROVE  /\ inv' \in [Calls -> Invocation]
         /\ \A d \in Calls : CallOK(d)'
         /\ StreamsAgree'
<1> DEFINE s == IF WillTransition(T(c), status) THEN update ELSE otherwise
           r == [interrupted_at |-> runs[T(c)].interrupted_at,
                 resumed_at |-> runs[T(c)].resumed_at]
<1>1. T(c) \in Threads /\ inv[c] \in Invocation /\ Active(c) /\ faults \in Nat
  BY CallFacts
<1>2. runs[T(c)] \in Row /\ inv \in [Calls -> Invocation]
  BY <1>1 DEF GraphInv, StoreTypeOK, GraphTypeOK
<1>3. s \in Running \ {"insert", "line"}
  OBVIOUS
<1>4. s \in Stages \ {"idle", "checked", "insert", "line"}
  BY <1>3 DEF Running, Stages
<1>5. r \in [interrupted_at : BOOLEAN, resumed_at : BOOLEAN]
  BY <1>2 DEF Row
<1>6. inv' = [inv EXCEPT ![c] = [inv[c] EXCEPT !.stage = s, !.read = r]]
  BY DEF SelectStatus
<1> HIDE DEF s, r
<1>7. [inv[c] EXCEPT !.stage = s, !.read = r] \in Invocation
  BY <1>1, <1>4, <1>5 DEF Invocation
<1>8. inv' \in [Calls -> Invocation]
  BY <1>2, <1>6, <1>7
<1>9. /\ inv'[c].stage = s /\ inv'[c].thread = T(c) /\ inv'[c].values = V(c)
      /\ inv'[c].result = inv[c].result
      /\ \A d \in Calls : d # c => inv'[d] = inv[d]
  BY <1>1, <1>2, <1>6 DEF Invocation, T, V
<1>10. (\A d \in Calls : CallOK(d)') /\ StreamsAgree'
  <2>1. /\ inv[c].stage \in Running \ {"insert"} /\ inv[c].stage # "line"
        /\ faults' \in Nat /\ faults <= faults' /\ UNCHANGED <<events, log, unsaved>>
    BY <1>1
  <2> QED BY <1>1, <1>4, <1>9, <2>1, GoStep
<1> QED BY <1>8, <1>10

\* mark_review_pending, up to its UPDATE.
LEMMA SelectPendingKeeps ==
  ASSUME GraphInv, NEW c \in Calls, SelectPending(c)
  PROVE  GraphInv'
<1>1. UNCHANGED <<runs, events, log, reports, ckpt, unsaved, clock, faults>>
  BY DEF SelectPending, storeVars, ckptVars
<1>2. /\ inv[c].stage \in Running \ {"insert", "line"}
      /\ {"set_pending", "interrupt"} \subseteq Running \ {"insert", "line"}
      /\ SelectStatus(c, "pending", "set_pending", "interrupt")
  BY DEF SelectPending, At, Running
<1>3. /\ inv' \in [Calls -> Invocation]
      /\ \A d \in Calls : CallOK(d)'
      /\ StreamsAgree'
  BY <1>1, <1>2, SelectStep
<1>4. OutcomeLogged'
  BY <1>1, OutcomeKept DEF GraphInv
<1> QED BY <1>1, <1>3, <1>4 DEF GraphInv, StoreTypeOK, CkptTypeOK, GraphTypeOK

\* interrupt() returning, and mark_review_completed up to its UPDATE.
LEMMA SelectCompletedKeeps ==
  ASSUME GraphInv, NEW c \in Calls, SelectCompleted(c)
  PROVE  GraphInv'
<1>1. UNCHANGED <<runs, events, log, reports, faults>>
  BY DEF SelectCompleted, storeVars
<1>2. /\ inv[c].stage \in Running \ {"insert", "line"}
      /\ {"set_completed", "decide"} \subseteq Running \ {"insert", "line"}
      /\ SelectStatus(c, "completed", "set_completed", "decide")
      /\ KeepAnswer(T(c), inv[c].answer)
  BY DEF SelectCompleted, At, Running
<1>3. T(c) \in Threads /\ inv[c].answer \in AnswersOrNone
  BY <1>2, CallFacts DEF Invocation
<1>4. /\ CkptTypeOK' /\ UNCHANGED unsaved
      /\ \A u \in Threads : ckpt'[u].values = ckpt[u].values
  BY <1>2, <1>3, KeepAnswerFrame DEF GraphInv
<1>5. /\ inv' \in [Calls -> Invocation]
      /\ \A d \in Calls : CallOK(d)'
      /\ StreamsAgree'
  BY <1>1, <1>2, <1>4, SelectStep
<1>6. OutcomeLogged'
  BY <1>1, <1>4, OutcomeKept DEF GraphInv
<1> QED BY <1>1, <1>4, <1>5, <1>6 DEF GraphInv, StoreTypeOK, GraphTypeOK

\* The UPDATE of a review transition and the append_event it is followed by.
LEMMA SetStatusKeeps ==
  ASSUME GraphInv, NEW c \in Calls, inv[c].stage \in Running \ {"insert", "line"},
         NEW status \in ReviewStatuses, NEW type \in EventTypes,
         UpdateReviewStatus(T(c), status, inv[c].read),
         Emit(c, type, Null, V(c)),
         UNCHANGED <<events, log, reports, ckptVars, faults>>
  PROVE  GraphInv'
<1>1. UNCHANGED <<events, log, reports, ckpt, unsaved, clock, faults>>
  BY DEF ckptVars
<1>2. /\ T(c) \in Threads /\ V(c) \in Values /\ Backed(events[T(c)], V(c))
      /\ inv[c].read \in [interrupted_at : BOOLEAN, resumed_at : BOOLEAN]
      /\ faults \in Nat
  BY CallFacts DEF Invocation
<1>3. /\ runs' \in [Threads -> Row]
      /\ \A u \in Threads : runs'[u].final_status = runs[u].final_status
  BY <1>2, TransitionRow DEF GraphInv, StoreTypeOK
<1>4. Backed(events[T(c)] \cup {[type |-> type, info |-> Null, by |-> c]}, V(c))
  BY <1>2, SameOutcome
<1>5. /\ inv' \in [Calls -> Invocation]
      /\ \A d \in Calls : CallOK(d)'
      /\ StreamsAgree'
  <2>1. Null \in Infos /\ faults' \in Nat /\ faults <= faults'
        /\ UNCHANGED <<events, log, unsaved>>
    BY <1>1, <1>2 DEF Infos
  <2> QED BY <1>2, <1>4, <2>1, EmitStep
<1>6. OutcomeLogged'
  BY <1>1, <1>3, OutcomeKept DEF GraphInv
<1> QED BY <1>1, <1>3, <1>5, <1>6 DEF GraphInv, StoreTypeOK, CkptTypeOK, GraphTypeOK

\* Both transitions.
LEMMA TransitionsKeep ==
  ASSUME GraphInv, NEW c \in Calls, SetPending(c) \/ SetCompleted(c)
  PROVE  GraphInv'
<1>1. /\ inv[c].stage \in Running \ {"insert", "line"}
      /\ UNCHANGED <<events, log, reports, ckptVars, faults>>
  BY DEF SetPending, SetCompleted, At, Running
<1>2. CASE SetPending(c)
  <2>1. /\ UpdateReviewStatus(T(c), "pending", inv[c].read)
        /\ Emit(c, "human_review_pending", Null, V(c))
        /\ "pending" \in ReviewStatuses /\ "human_review_pending" \in EventTypes
    BY <1>2 DEF SetPending, ReviewStatuses, EventTypes
  <2> QED BY <1>1, <2>1, SetStatusKeeps
<1>3. CASE SetCompleted(c)
  <2>1. /\ UpdateReviewStatus(T(c), "completed", inv[c].read)
        /\ Emit(c, "human_review_resumed", Null, V(c))
        /\ "completed" \in ReviewStatuses /\ "human_review_resumed" \in EventTypes
    BY <1>3 DEF SetCompleted, ReviewStatuses, EventTypes
  <2> QED BY <1>1, <2>1, SetStatusKeeps
<1> QED BY <1>2, <1>3

\* Edits leave the channels what they are.
LEMMA EditedType ==
  ASSUME NEW c \in Calls, V(c) \in Values, NEW v \in Edited(c)
  PROVE  v \in Values
<1>1. ASSUME NEW x \in Extractions, v = [V(c) EXCEPT !.extractions = x]
      PROVE  v \in Values
  BY <1>1 DEF Values
<1>2. CASE v = [V(c) EXCEPT !.printable = FALSE]
  BY <1>2 DEF Values
<1> QED BY <1>1, <1>2 DEF Edited

\* The decision: its outcome comes with human_review_completed.
LEMMA DecideKeeps ==
  ASSUME GraphInv, NEW c \in Calls, Decide(c)
  PROVE  GraphInv'
<1> DEFINE d == inv[c].answer.decision
<1>1. PICK v \in Edited(c) :
        Emit(c, "human_review_completed", d,
             [v EXCEPT !.decision = d, !.review_status = "completed",
                       !.final_status = Verdict(d)])
  BY DEF Decide
<1> DEFINE w == [v EXCEPT !.decision = d, !.review_status = "completed",
                          !.final_status = Verdict(d)]
<1>2. inv[c].stage \in Running \ {"line"} /\ UNCHANGED <<storeVars, ckptVars, faults>>
  BY DEF Decide, At, Running
<1>3. v \in Values /\ inv[c].answer \in AnswersOrNone
  BY <1>2, CallFacts, EditedType DEF Invocation
<1>4. d \in Words
  BY <1>3 DEF Decide, Accepted, AnswersOrNone, Answers, NoAnswer, Words
<1>5. Verdict(d) \in FinalStatuses
  BY DEF Verdict, FinalStatuses
<1>6. w \in Values /\ w.final_status = Verdict(w.decision) /\ w.decision = d
  <2> HIDE DEF d
  <2> QED BY <1>3, <1>4, <1>5 DEF Values, ReviewStatuses
<1>7. "human_review_completed" \in EventTypes /\ d \in Infos
  BY <1>4 DEF EventTypes, Infos
<1> HIDE DEF d, w
<1>8. Backed(events[T(c)] \cup {[type |-> "human_review_completed", info |-> d,
                                 by |-> c]}, w)
  BY <1>6, BackedReview
<1> QED BY <1>1, <1>2, <1>6, <1>7, <1>8, EmitKeeps DEF w, d

\* An answer or a report that raises.
LEMMA RefuseKeeps ==
  ASSUME GraphInv, NEW c \in Calls, RefuseAnswer(c) \/ ReportFails(c)
  PROVE  GraphInv'
<1>1. /\ inv[c].stage \in Running \ {"line"} /\ Go(c, "raised")
      /\ UNCHANGED <<storeVars, ckptVars, faults>>
  BY DEF RefuseAnswer, ReportFails, At, Running, storeVars, ckptVars
<1>2. "raised" \in Stages \ {"idle", "checked", "insert", "line"}
      /\ "raised" \notin Running
  BY DEF Stages, Running
<1> QED BY <1>1, <1>2, GoKeeps

--------------------------------------------------------------------------------
(* Checkpoints in the making. *)

\* A new checkpoint joins those the call has not saved.
LEMMA MakeFrame ==
  ASSUME CkptTypeOK, NEW c \in Calls, NEW next \in Places, NEW values \in Values,
         NEW paused \in BOOLEAN, MakeCheckpoint(c, next, values, paused)
  PROVE  /\ CkptTypeOK' /\ ckpt' = ckpt
         /\ \A d \in Calls : d # c => unsaved'[d] = unsaved[d]
         /\ \A k \in unsaved'[c] : k \in unsaved[c] \/ k.values = values
<1> DEFINE k == [id |-> clock + 1, next |-> next, values |-> values,
                 paused |-> paused, answer |-> NoAnswer]
<1>1. clock + 1 \in Nat /\ NoAnswer \in AnswersOrNone
  BY NothingYet DEF CkptTypeOK
<1>2. k \in Checkpoint /\ k.values = values
  BY <1>1 DEF Checkpoint
<1>3. /\ unsaved' = [unsaved EXCEPT ![c] = @ \cup {k}] /\ clock' = clock + 1
      /\ ckpt' = ckpt
  BY DEF MakeCheckpoint
<1> HIDE DEF k
<1> QED BY <1>1, <1>2, <1>3 DEF CkptTypeOK

\* The edges of the graph lead to its nodes or its end.
LEMMA NextNodePlace ==
  ASSUME NEW node, NEW v
  PROVE  NextNode(node, v) \in Places
BY DEF NextNode, AfterIngest, AfterParse, AfterPolicy, Places, Nodes

\* Call c makes a checkpoint of backed values and goes on with them.
LEMMA CheckpointStep ==
  ASSUME GraphInv, NEW c \in Calls, inv[c].stage \in Running \ {"insert", "line"},
         NEW v \in Values, Backed(events[T(c)], v),
         NEW place \in Places, NEW next \in Places, NEW paused \in BOOLEAN,
         NEW s \in {"body", "returned"},
         inv' = [inv EXCEPT ![c] = [@ EXCEPT !.node = place, !.values = v, !.stage = s]],
         MakeCheckpoint(c, next, v, paused),
         UNCHANGED <<storeVars, faults>>
  PROVE  GraphInv'
<1>1. /\ T(c) \in Threads /\ inv[c] \in Invocation /\ CallOK(c) /\ faults \in Nat
      /\ inv \in [Calls -> Invocation] /\ CkptTypeOK /\ OutcomeLogged
      /\ StoreTypeOK /\ StreamsAgree
  BY CallFacts DEF GraphInv, GraphTypeOK
<1>2. UNCHANGED <<runs, events, log, reports, faults>>
  BY DEF storeVars
<1>3. s \in Stages
  BY DEF Stages
<1>4. [inv[c] EXCEPT !.node = place, !.values = v, !.stage = s] \in Invocation
  BY <1>1, <1>3 DEF Invocation
<1>5. inv' \in [Calls -> Invocation]
  BY <1>1, <1>4
<1>6. /\ inv'[c].stage = s /\ inv'[c].thread = T(c) /\ inv'[c].values = v
      /\ inv'[c].result = inv[c].result
      /\ \A d \in Calls : d # c => inv'[d] = inv[d]
  BY <1>1 DEF Invocation, T
<1>7. /\ CkptTypeOK' /\ ckpt' = ckpt
      /\ \A d \in Calls : d # c => unsaved'[d] = unsaved[d]
      /\ \A k \in unsaved'[c] : k \in unsaved[c] \/ k.values = v
  BY <1>1, MakeFrame
<1>8. CallOK(c)'
  <2>1. Active(c)
    BY DEF Active
  <2>2. Backed(events[T(c)], inv[c].result) /\ \A k \in unsaved[c] : Backed(events[T(c)], k.values)
    BY <1>1, <2>1 DEF CallOK, T
  <2>3. \A k \in unsaved'[c] : Backed(events[T(c)], k.values)
    BY <1>7, <2>2
  <2> QED BY <1>1, <1>2, <1>6, <2>2, <2>3 DEF CallOK, Backed
<1>9. \A d \in Calls : CallOK(d)'
  BY <1>2, <1>6, <1>7, <1>8, AllCalls DEF GraphInv
<1>10. StreamsAgree'
  BY <1>1, <1>2, <1>6, StreamsKept
<1>11. OutcomeLogged'
  BY <1>1, <1>2, <1>7, OutcomeKept
<1> QED BY <1>1, <1>2, <1>5, <1>7, <1>9, <1>10, <1>11
        DEF GraphInv, StoreTypeOK, GraphTypeOK

\* interrupt() without an answer.
LEMMA PauseKeeps ==
  ASSUME GraphInv, NEW c \in Calls, Pause(c)
  PROVE  GraphInv'
<1>1. /\ inv[c].stage \in Running \ {"insert", "line"}
      /\ MakeCheckpoint(c, "human_review", V(c), TRUE)
      /\ inv' = [inv EXCEPT ![c].stage = "returned"]
      /\ UNCHANGED <<storeVars, faults>>
  BY DEF Pause, At, Running, Go
<1>2. /\ V(c) \in Values /\ Backed(events[T(c)], V(c)) /\ inv[c] \in Invocation
      /\ inv \in [Calls -> Invocation] /\ inv[c].node \in Places
  BY <1>1, CallFacts DEF GraphInv, GraphTypeOK, Invocation
<1>3. [inv[c] EXCEPT !.stage = "returned"] =
        [inv[c] EXCEPT !.node = inv[c].node, !.values = V(c), !.stage = "returned"]
  BY <1>2 DEF Invocation, V
<1>4. inv' = [inv EXCEPT ![c] = [inv[c] EXCEPT !.node = inv[c].node, !.values = V(c),
                                              !.stage = "returned"]]
  BY <1>1, <1>3
<1>5. "human_review" \in Places
  BY DEF Places, Nodes
<1> QED BY <1>1, <1>2, <1>4, <1>5, CheckpointStep

\* A node's update taken by the loop.
LEMMA ReturnKeeps ==
  ASSUME GraphInv, NEW c \in Calls, Return(c)
  PROVE  GraphInv'
<1> DEFINE v == inv[c].result
           next == NextNode(inv[c].node, v)
           s == IF next = "END" THEN "returned" ELSE "body"
<1>1. /\ inv[c].stage = "return" /\ MakeCheckpoint(c, next, v, FALSE)
      /\ inv' = [inv EXCEPT ![c] = [inv[c] EXCEPT !.node = next, !.values = v, !.stage = s]]
      /\ UNCHANGED <<storeVars, faults>>
  BY DEF Return
<1>2. inv[c].stage \in Running \ {"insert", "line"}
  BY <1>1 DEF Running
<1>3. v \in Values /\ Active(c) /\ CallOK(c)
  BY <1>2, CallFacts DEF GraphInv
<1>4. Backed(events[T(c)], v)
  BY <1>2, <1>3 DEF CallOK, T
<1>5. next \in Places
  BY NextNodePlace
<1>6. s \in {"body", "returned"}
  OBVIOUS
<1> HIDE DEF v, next, s
<1> QED BY <1>1, <1>2, <1>3, <1>4, <1>5, <1>6, CheckpointStep

\* The background writer: what it saves was backed when it was made.
LEMMA SaveKeeps ==
  ASSUME GraphInv, NEW c \in Calls, Save(c)
  PROVE  GraphInv'
<1>1. PICK k \in unsaved[c] :
        /\ unsaved' = [unsaved EXCEPT ![c] = @ \ {k}]
        /\ ckpt' = IF k.id > ckpt[T(c)].id THEN [ckpt EXCEPT ![T(c)] = k] ELSE ckpt
        /\ clock' = clock
  BY DEF Save, SaveCheckpoint
<1>2. UNCHANGED <<runs, events, log, reports, inv, faults>>
  BY DEF Save, storeVars
<1>3. /\ CkptTypeOK /\ OutcomeLogged /\ StoreTypeOK /\ GraphTypeOK /\ StreamsAgree
      /\ CallOK(c) /\ \A d \in Calls : CallOK(d)
  BY DEF GraphInv
<1>4. /\ T(c) \in Threads /\ Backed(events[T(c)], k.values) /\ k \in Checkpoint
  BY <1>3 DEF CallOK, CkptTypeOK, T
<1>5. /\ unsaved'[c] \subseteq unsaved[c]
      /\ \A d \in Calls : d # c => unsaved'[d] = unsaved[d]
      /\ CkptTypeOK'
  BY <1>1, <1>3, <1>4 DEF CkptTypeOK
<1>6. CallOK(c)'
  BY <1>2, <1>3, <1>5 DEF CallOK, Active, Written, Backed
<1>7. \A d \in Calls : CallOK(d)'
  BY <1>2, <1>3, <1>5, <1>6, AllCalls
<1>8. OutcomeLogged'
  <2>1. \A t \in Threads : Backed(events[t], ckpt'[t].values)
    BY <1>1, <1>3, <1>4 DEF OutcomeLogged, CkptTypeOK
  <2> QED BY <1>2, <1>3, <2>1 DEF OutcomeLogged, Backed
<1>9. StreamsAgree'
  BY <1>2, <1>3 DEF StreamsAgree, BetweenWrites
<1> QED BY <1>2, <1>3, <1>5, <1>7, <1>8, <1>9 DEF GraphInv, StoreTypeOK, GraphTypeOK

--------------------------------------------------------------------------------
(* audit_and_report. *)

\* The report shows the outcome of the thread's values.
LEMMA ReportKeeps ==
  ASSUME GraphInv, NEW c \in Calls, AuditAndReport(c)
  PROVE  GraphInv'
<1> DEFINE r == [written |-> TRUE, final_status |-> V(c).final_status,
                 decision |-> V(c).decision]
<1>1. inv[c].stage \in Running /\ inv[c].stage # "line"
  BY DEF AuditAndReport, At, Running
<1>2. /\ T(c) \in Threads /\ V(c) \in Values /\ Backed(events[T(c)], V(c))
      /\ faults \in Nat
  BY <1>1, CallFacts
<1>3. UNCHANGED <<runs, events, log, ckpt, unsaved, clock, faults>>
      /\ reports' = [reports EXCEPT ![T(c)] = r]
      /\ Emit(c, "report_written", V(c).final_status, V(c))
  BY DEF AuditAndReport, WriteReport, ckptVars
<1>4. StoreTypeOK /\ OutcomeLogged /\ CkptTypeOK /\ GraphTypeOK
  BY DEF GraphInv
<1>5. /\ r \in Report /\ r.final_status = V(c).final_status
      /\ r.decision = V(c).decision
  BY <1>2 DEF Report, Values
<1> HIDE DEF r
<1>6. reports' \in [Threads -> Report]
  BY <1>3, <1>4, <1>5 DEF StoreTypeOK
<1>7. /\ inv' \in [Calls -> Invocation]
      /\ \A d \in Calls : CallOK(d)'
      /\ StreamsAgree'
  <2>1. "report_written" \in EventTypes /\ V(c).final_status \in Infos
    BY <1>2 DEF EventTypes, Infos, Values
  <2>2. Backed(events[T(c)] \cup {[type |-> "report_written", info |-> V(c).final_status,
                                   by |-> c]}, V(c))
    BY <1>2, SameOutcome
  <2>3. faults' \in Nat /\ faults <= faults' /\ UNCHANGED <<events, log, unsaved>>
    BY <1>2, <1>3
  <2> QED BY <1>1, <1>2, <1>3, <2>1, <2>2, <2>3, EmitStep
<1>8. OutcomeLogged'
  <2>1. Backed(events[T(c)], r)
    BY <1>2, <1>5 DEF Backed
  <2>2. \A t \in Threads : reports'[t].written => Backed(events[t], reports'[t])
    BY <1>3, <1>4, <2>1 DEF OutcomeLogged, StoreTypeOK
  <2> QED BY <1>3, <1>4, <2>2 DEF OutcomeLogged, Backed
<1> QED BY <1>3, <1>4, <1>6, <1>7, <1>8 DEF GraphInv, StoreTypeOK, CkptTypeOK, GraphTypeOK

\* The row takes the outcome of the thread's values.
LEMMA FinalizeKeeps ==
  ASSUME GraphInv, NEW c \in Calls, Finalize(c)
  PROVE  GraphInv'
<1>1. /\ inv[c].stage \in Running \ {"insert", "line"}
      /\ "return" \in Running /\ "return" \in Stages \ {"idle", "checked", "insert", "line"}
      /\ FinalizeRun(T(c), V(c)) /\ Go(c, "return")
      /\ UNCHANGED <<events, log, reports, ckpt, unsaved, clock, faults>>
  BY DEF Finalize, At, Running, Stages, ckptVars
<1>2. /\ T(c) \in Threads /\ V(c) \in Values /\ Backed(events[T(c)], V(c))
      /\ Active(c) /\ faults \in Nat /\ inv[c] \in Invocation
  BY <1>1, CallFacts
<1>3. StoreTypeOK /\ OutcomeLogged /\ CkptTypeOK /\ GraphTypeOK
  BY DEF GraphInv
<1>4. /\ runs' \in [Threads -> Row]
      /\ \A u \in Threads : u # T(c) => runs'[u] = runs[u]
      /\ runs'[T(c)].final_status \in {runs[T(c)].final_status, V(c).final_status}
  BY <1>1, <1>2, <1>3, FinalizeRow DEF StoreTypeOK
<1>5. inv' \in [Calls -> Invocation]
  BY <1>1, <1>3, GoType DEF GraphTypeOK
<1>6. (\A d \in Calls : CallOK(d)') /\ StreamsAgree'
  <2>1. /\ inv'[c].stage = "return" /\ inv'[c].thread = T(c) /\ inv'[c].values = V(c)
        /\ inv'[c].result = inv[c].result
        /\ \A d \in Calls : d # c => inv'[d] = inv[d]
    BY <1>1, <1>2, <1>3 DEF Go, GraphTypeOK, Invocation, T, V
  <2>2. faults' \in Nat /\ faults <= faults' /\ UNCHANGED <<events, log, unsaved>>
    BY <1>1, <1>2
  <2> QED BY <1>1, <1>2, <2>1, <2>2, GoStep
<1>7. OutcomeLogged'
  <2>1. ASSUME V(c).final_status # Null
        PROVE  \E d \in Words \cup {"auto_approve", Null} :
                 Accounts(events[T(c)], V(c).final_status, d)
    <3>1. V(c).decision \in Words \cup {"auto_approve", Null}
      BY <1>2 DEF Values
    <3> QED BY <1>2, <2>1, <3>1 DEF Backed
  <2>2. \A t \in Threads :
          runs'[t].final_status \notin {"failed", Null} =>
            \E d \in Words \cup {"auto_approve", Null} :
              Accounts(events[t], runs'[t].final_status, d)
    BY <1>3, <1>4, <2>1 DEF OutcomeLogged
  <2> QED BY <1>1, <1>3, <2>2 DEF OutcomeLogged, Backed
<1> QED BY <1>1, <1>3, <1>4, <1>5, <1>6, <1>7
        DEF GraphInv, StoreTypeOK, CkptTypeOK, GraphTypeOK

--------------------------------------------------------------------------------
(* The two writes of append_event. *)

\* The row of table events: from here on the update is backed.
LEMMA InsertKeeps ==
  ASSUME GraphInv, NEW c \in Calls, Insert(c)
  PROVE  GraphInv'
<1> DEFINE e == Written(c)
<1>1. /\ inv[c].stage = "insert" /\ Go(c, "line")
      /\ UNCHANGED <<runs, log, reports, ckpt, unsaved, clock, faults>>
      /\ events' = [events EXCEPT ![T(c)] = @ \cup {e}]
  BY DEF Insert, InsertEvent, ckptVars
<1>2. inv[c].stage \in Running /\ "line" \in Stages
  BY <1>1 DEF Running, Stages
<1>3. /\ T(c) \in Threads /\ inv[c] \in Invocation /\ faults \in Nat /\ Active(c)
      /\ StoreTypeOK /\ OutcomeLogged /\ CkptTypeOK /\ GraphTypeOK /\ StreamsAgree
      /\ CallOK(c)
  BY <1>2, CallFacts DEF GraphInv
<1>4. /\ inv'[c].stage = "line" /\ inv'[c].thread = T(c) /\ inv'[c].values = V(c)
      /\ inv'[c].result = inv[c].result /\ inv'[c].event = inv[c].event
      /\ \A d \in Calls : d # c => inv'[d] = inv[d]
      /\ inv' \in [Calls -> Invocation]
  <2>1. inv' \in [Calls -> Invocation]
    BY <1>1, <1>2, <1>3, GoType DEF GraphTypeOK
  <2> QED BY <1>1, <1>3, <2>1 DEF Go, GraphTypeOK, Invocation, T, V
<1>5. e \in Event /\ e.by = c /\ e.type = inv[c].event.type /\ e.info = inv[c].event.info
      /\ Written(c)' = e
  <2>1. inv[c].event.type \in EventTypes /\ inv[c].event.info \in Infos
    BY <1>1, <1>3 DEF CallOK, Invocation
  <2> QED BY <1>4, <2>1 DEF Written, Event
<1> HIDE DEF e
<1>6. /\ events'[T(c)] = events[T(c)] \cup {e}
      /\ \A t \in Threads : t # T(c) => events'[t] = events[t]
      /\ events' \in [Threads -> SUBSET Event]
  BY <1>1, <1>3, <1>5 DEF StoreTypeOK
<1>7. \A t \in Threads : events[t] \subseteq events'[t]
  BY <1>6
<1>8. CallOK(c)'
  <2>1. /\ Backed(events[T(c)], V(c)) /\ Backed(events[T(c)] \cup {e}, inv[c].result)
        /\ \A k \in unsaved[c] : Backed(events[T(c)], k.values)
        /\ inv[c].event.type \in EventTypes
    BY <1>1, <1>3 DEF CallOK, T, V, e
  <2>2. \A v : Backed(events[T(c)], v) => Backed(events[T(c)] \cup {e}, v)
    BY BackedMonotone
  <2> QED BY <1>1, <1>3, <1>4, <1>5, <1>6, <2>1, <2>2 DEF CallOK, Backed
<1>9. \A d \in Calls : CallOK(d)'
  BY <1>1, <1>4, <1>7, <1>8, AllCalls DEF GraphInv
<1>10. StreamsAgree'
  <2> SUFFICES ASSUME NEW t \in Threads
               PROVE  /\ log[t] \subseteq events'[t]
                      /\ \A x \in events'[t] \ log[t] : faults > 0 \/ BetweenWrites(x, t)'
    BY <1>1 DEF StreamsAgree
  <2>1. log[t] \subseteq events'[t]
    BY <1>3, <1>7 DEF StreamsAgree
  <2>2. ASSUME NEW x \in events'[t] \ log[t], ~(faults > 0)
        PROVE  BetweenWrites(x, t)'
    <3>1. CASE x \in events[t]
      <4>1. BetweenWrites(x, t) /\ x.by \in Calls
        BY <1>3, <2>2, <3>1 DEF StreamsAgree, StoreTypeOK, Event
      <4>2. x.by # c
        BY <1>1, <4>1 DEF BetweenWrites
      <4> QED BY <1>4, <4>1, <4>2 DEF BetweenWrites
    <3>2. CASE x \notin events[t]
      <4>1. x = e /\ t = T(c)
        BY <1>6, <2>2, <3>2
      <4> QED BY <1>4, <1>5, <4>1 DEF BetweenWrites
    <3> QED BY <3>1, <3>2
  <2> QED BY <2>1, <2>2
<1>11. OutcomeLogged'
  BY <1>1, <1>3, <1>7, OutcomeKept
<1> QED BY <1>1, <1>3, <1>4, <1>6, <1>9, <1>10, <1>11
        DEF GraphInv, StoreTypeOK, CkptTypeOK, GraphTypeOK

\* The line of events.jsonl: its row is there.
LEMMA LineKeeps ==
  ASSUME GraphInv, NEW c \in Calls, Line(c)
  PROVE  GraphInv'
<1> DEFINE e == Written(c)
           s == AfterEvent(inv[c].event.type)
<1>1. /\ inv[c].stage = "line" /\ Go(c, s)
      /\ UNCHANGED <<runs, events, reports, ckpt, unsaved, clock, faults>>
      /\ log' = [log EXCEPT ![T(c)] = @ \cup {e}]
  BY DEF Line, AppendLine, ckptVars
<1>2. inv[c].stage \in Running
  BY <1>1 DEF Running
<1>3. /\ s \in {"interrupt", "decide", "finalize", "return"} /\ s \in Stages
      /\ s \in Running \ {"insert"}
  BY DEF AfterEvent, Stages, Running
<1>4. /\ T(c) \in Threads /\ inv[c] \in Invocation /\ faults \in Nat /\ Active(c)
      /\ StoreTypeOK /\ OutcomeLogged /\ CkptTypeOK /\ GraphTypeOK /\ StreamsAgree
      /\ CallOK(c)
  BY <1>2, CallFacts DEF GraphInv
<1> HIDE DEF s
<1>5. /\ inv'[c].stage = s /\ inv'[c].thread = T(c) /\ inv'[c].values = V(c)
      /\ inv'[c].result = inv[c].result
      /\ \A d \in Calls : d # c => inv'[d] = inv[d]
      /\ inv' \in [Calls -> Invocation]
  <2>1. inv' \in [Calls -> Invocation]
    BY <1>1, <1>3, <1>4, GoType DEF GraphTypeOK
  <2> QED BY <1>1, <1>4, <2>1 DEF Go, GraphTypeOK, Invocation, T, V
<1>6. e \in events[T(c)] /\ e \in Event
  BY <1>1, <1>4 DEF CallOK, StoreTypeOK, T
<1>7. e.type = inv[c].event.type /\ e.info = inv[c].event.info /\ e.by = c
  BY DEF Written
<1>8. CallOK(c)'
  BY <1>1, <1>2, <1>3, <1>4, <1>5 DEF CallOK, Backed, T, V
<1>9. \A d \in Calls : CallOK(d)'
  BY <1>1, <1>5, <1>8, AllCalls DEF GraphInv
<1>10. /\ log' \in [Threads -> SUBSET Event] /\ log'[T(c)] = log[T(c)] \cup {e}
       /\ \A t \in Threads : t # T(c) => log'[t] = log[t]
  <2> HIDE DEF e
  <2> QED BY <1>1, <1>4, <1>6 DEF StoreTypeOK
<1>11. StreamsAgree'
  <2> SUFFICES ASSUME NEW t \in Threads
               PROVE  /\ log'[t] \subseteq events[t]
                      /\ \A x \in events[t] \ log'[t] : faults > 0 \/ BetweenWrites(x, t)'
    BY <1>1 DEF StreamsAgree
  <2>1. log'[t] \subseteq events[t]
    BY <1>4, <1>6, <1>10 DEF StreamsAgree
  <2>2. ASSUME NEW x \in events[t] \ log'[t], ~(faults > 0)
        PROVE  BetweenWrites(x, t)'
    <3>1. x \in events[t] \ log[t]
      BY <1>10, <2>2
    <3>2. BetweenWrites(x, t) /\ x \in Event
      BY <1>4, <2>2, <3>1 DEF StreamsAgree, StoreTypeOK
    <3>3. x.by # c
      <4>1. SUFFICES ASSUME x.by = c PROVE FALSE
        OBVIOUS
      <4>2. t = T(c) /\ x.type = inv[c].event.type /\ x.info = inv[c].event.info
        BY <3>2, <4>1 DEF BetweenWrites, T
      <4>3. x = e
        BY <1>7, <3>2, <4>1, <4>2 DEF Event, Written
      <4> QED BY <1>10, <2>2, <4>2, <4>3
    <3>4. x.by \in Calls
      BY <3>2 DEF Event
    <3> QED BY <1>5, <3>2, <3>3, <3>4 DEF BetweenWrites
  <2> QED BY <2>1, <2>2
<1>12. OutcomeLogged'
  BY <1>1, <1>4, OutcomeKept
<1> QED BY <1>1, <1>4, <1>5, <1>9, <1>10, <1>11, <1>12
        DEF GraphInv, StoreTypeOK, CkptTypeOK, GraphTypeOK

\* Every step of a running invocation.
LEMMA NodeStepKeeps ==
  ASSUME GraphInv, NEW c \in Calls, NodeStep(c)
  PROVE  GraphInv'
BY IngestKeeps, ParseKeeps, ExtractKeeps, PolicyKeeps, AutoAdvanceKeeps,
   SelectPendingKeeps, SelectCompletedKeeps, TransitionsKeep, PauseKeeps, DecideKeeps,
   RefuseKeeps, ReportKeeps, FinalizeKeeps, InsertKeeps, LineKeeps, ReturnKeeps
   DEF NodeStep

--------------------------------------------------------------------------------
(* Faults. *)

\* A failed statement: the node's own failure where it is caught, or the end of the call.
LEMMA FaultKeeps ==
  ASSUME GraphInv, NEW c \in Calls, StatementFails(c)
  PROVE  GraphInv'
<1>1. /\ faults \in 0..MaxFaults /\ MaxFaults \in Nat
      /\ StoreTypeOK /\ OutcomeLogged /\ CkptTypeOK /\ GraphTypeOK
  BY GraphAssumption DEF GraphInv, GraphTypeOK
<1>2. /\ faults' \in 0..MaxFaults /\ faults' \in Nat /\ faults <= faults' /\ faults' > 0
      /\ UNCHANGED <<runs, events, log, reports>>
  BY <1>1 DEF StatementFails, storeVars
<1>3. inv[c].stage \in Running
  BY DEF StatementFails, Touching, Running
<1>4. /\ T(c) \in Threads /\ inv[c] \in Invocation /\ Active(c)
  BY <1>3, CallFacts
<1>5. CASE Caught(c) /\ UNCHANGED ckptVars /\
           Emit(c, IF inv[c].event.type = "extracted" THEN "extraction_failed"
                   ELSE "policy_failed", Null, FailedValues(c))
  <2> DEFINE type == IF inv[c].event.type = "extracted" THEN "extraction_failed"
                     ELSE "policy_failed"
  <2>1. type \in {"extraction_failed", "policy_failed"}
        /\ Emit(c, type, Null, FailedValues(c))
    BY <1>5
  <2> HIDE DEF type
  <2>2. /\ type \in EventTypes /\ Null \in Infos /\ FailedValues(c) \in Values
        /\ Backed(events[T(c)] \cup {[type |-> type, info |-> Null, by |-> c]},
                  FailedValues(c))
    BY <1>3, <2>1, FailureEmitted
  <2>3. UNCHANGED <<events, log, unsaved>> /\ UNCHANGED <<ckpt, clock>>
    BY <1>2, <1>5 DEF ckptVars
  <2>4. /\ inv' \in [Calls -> Invocation]
        /\ \A d \in Calls : CallOK(d)'
        /\ StreamsAgree'
    BY <1>2, <1>3, <2>1, <2>2, <2>3, EmitStep
  <2>5. OutcomeLogged'
    BY <1>1, <1>2, <2>3, OutcomeKept
  <2> QED BY <1>1, <1>2, <2>3, <2>4, <2>5
          DEF GraphInv, StoreTypeOK, CkptTypeOK, GraphTypeOK
<1>6. CASE Go(c, "raised") /\ (KeepAnswer(T(c), inv[c].answer) \/ UNCHANGED ckptVars)
  <2>1. /\ CkptTypeOK' /\ UNCHANGED unsaved
        /\ \A u \in Threads : ckpt'[u].values = ckpt[u].values
    <3>1. inv[c].answer \in AnswersOrNone
      BY <1>4 DEF Invocation
    <3> QED BY <1>1, <1>4, <1>6, <3>1, KeepAnswerFrame DEF CkptTypeOK, ckptVars
  <2>2. "raised" \in Stages \ {"idle", "checked", "insert", "line"}
        /\ "raised" \notin Running
    BY DEF Stages, Running
  <2>3. inv' \in [Calls -> Invocation]
    BY <1>1, <1>6, <2>2, GoType DEF GraphTypeOK
  <2>4. /\ inv'[c].stage = "raised" /\ inv'[c].thread = T(c) /\ inv'[c].values = V(c)
        /\ inv'[c].result = inv[c].result
        /\ \A d \in Calls : d # c => inv'[d] = inv[d]
    BY <1>1, <1>4, <1>6 DEF Go, GraphTypeOK, Invocation, T, V
  <2>5. (\A d \in Calls : CallOK(d)') /\ StreamsAgree'
    BY <1>2, <1>4, <2>1, <2>2, <2>4, GoStep
  <2>6. OutcomeLogged'
    BY <1>1, <1>2, <2>1, OutcomeKept
  <2> QED BY <1>1, <1>2, <2>1, <2>3, <2>5, <2>6
          DEF GraphInv, StoreTypeOK, GraphTypeOK
<1> QED BY <1>5, <1>6 DEF StatementFails

\* The process stops: the store stands, saved threads stand or are gone, and no call
\* carries anything on.
LEMMA CrashKeeps ==
  ASSUME GraphInv, Crash
  PROVE  GraphInv'
<1>1. /\ faults \in 0..MaxFaults /\ MaxFaults \in Nat
      /\ StoreTypeOK /\ OutcomeLogged /\ CkptTypeOK /\ GraphTypeOK
      /\ \A c \in Calls : CallOK(c)
  BY GraphAssumption DEF GraphInv, GraphTypeOK
<1>2. /\ faults' \in 0..MaxFaults /\ faults' > 0
      /\ UNCHANGED <<runs, events, log, reports, clock>>
      /\ unsaved' = [c \in Calls |-> {}]
      /\ \/ ckpt' = ckpt
         \/ ckpt' = [t \in Threads |-> NoCheckpoint]
      /\ inv' = [c \in Calls |-> IF Active(c) THEN Over(c, "dead") ELSE inv[c]]
  BY <1>1 DEF Crash, LoseUnsaved, storeVars
<1>3. NoCheckpoint \in Checkpoint /\ NoCheckpoint.values.final_status = Null
  BY NothingYet DEF NoCheckpoint, Checkpoint, Places
<1>4. CkptTypeOK'
  BY <1>1, <1>2, <1>3 DEF CkptTypeOK
<1>5. ASSUME NEW c \in Calls
      PROVE  Over(c, "dead") \in Invocation /\ Over(c, "dead").stage = "dead"
  <2>1. T(c) \in Threads \cup {Null} /\ "dead" \in Stages
    BY <1>1 DEF GraphTypeOK, Invocation, T, Stages
  <2> QED BY <2>1, OverType DEF Over, NoInvocation
<1>6. inv' \in [Calls -> Invocation]
  BY <1>1, <1>2, <1>5 DEF GraphTypeOK
<1>7. ASSUME NEW c \in Calls
      PROVE  CallOK(c)'
  <2>1. /\ inv'[c].stage \notin Running \cup {"checked", "returned", "raised"}
        /\ unsaved'[c] = {}
    BY <1>2, <1>5 DEF Active, Running
  <2>2. ~Active(c)'
    BY <2>1 DEF Active, Running
  <2> QED BY <2>1, <2>2 DEF CallOK, Running
<1>8. StreamsAgree'
  BY <1>2 DEF GraphInv, StreamsAgree
<1>9. OutcomeLogged'
  <2>1. \A t \in Threads : Backed(events[t], ckpt'[t].values)
    <3>1. \A t \in Threads : Backed(events[t], NoCheckpoint.values)
      BY <1>3, BackedNothing
    <3> QED BY <1>1, <1>2, <3>1 DEF OutcomeLogged
  <2> QED BY <1>1, <1>2, <2>1 DEF OutcomeLogged, Backed
<1> QED BY <1>1, <1>2, <1>4, <1>6, <1>7, <1>8, <1>9
        DEF GraphInv, StoreTypeOK, GraphTypeOK

--------------------------------------------------------------------------------
(* Beginnings and ends of calls. *)

\* A step of call c on inv alone, to a record that is in order with what is saved.
LEMMA CallChanges ==
  ASSUME GraphInv, NEW c \in Calls, NEW new \in Invocation,
         inv' = [inv EXCEPT ![c] = new],
         inv[c].stage # "line",
         CallOK(c)',
         UNCHANGED <<storeVars, ckptVars, faults>>
  PROVE  GraphInv'
<1>1. /\ UNCHANGED <<runs, events, log, reports, ckpt, unsaved, clock, faults>>
      /\ inv \in [Calls -> Invocation] /\ faults \in Nat
      /\ StoreTypeOK /\ OutcomeLogged /\ CkptTypeOK /\ GraphTypeOK /\ StreamsAgree
  BY GraphAssumption DEF storeVars, ckptVars, GraphInv, GraphTypeOK
<1>2. inv' \in [Calls -> Invocation] /\ \A d \in Calls : d # c => inv'[d] = inv[d]
  BY <1>1
<1>3. \A d \in Calls : CallOK(d)'
  BY <1>1, <1>2, AllCalls DEF GraphInv
<1>4. StreamsAgree'
  BY <1>1, <1>2, StreamsKept
<1>5. OutcomeLogged'
  BY <1>1, OutcomeKept
<1> QED BY <1>1, <1>2, <1>3, <1>4, <1>5 DEF GraphInv, StoreTypeOK, CkptTypeOK, GraphTypeOK

\* A call that has been answered.
LEMMA OverKeeps ==
  ASSUME GraphInv, NEW c \in Calls, inv[c].stage \in {"returned", "raised"},
         unsaved[c] = {}, inv' = [inv EXCEPT ![c] = Over(c, "done")],
         UNCHANGED <<storeVars, ckptVars, faults>>
  PROVE  GraphInv'
<1>1. T(c) \in Threads \cup {Null} /\ "done" \in Stages
      /\ inv \in [Calls -> Invocation]
  BY DEF GraphInv, GraphTypeOK, Invocation, T, Stages
<1>2. Over(c, "done") \in Invocation /\ Over(c, "done").stage = "done"
  BY <1>1, OverType DEF Over, NoInvocation
<1>3. inv'[c].stage = "done" /\ unsaved'[c] = {}
  BY <1>1, <1>2 DEF ckptVars
<1>4. CallOK(c)'
  BY <1>3 DEF CallOK, Active, Running
<1> QED BY <1>2, <1>4, CallChanges

\* graph.invoke with an input.
LEMMA StartKeeps ==
  ASSUME GraphInv, NEW c \in Calls, inv[c].stage = "idle", NEW t \in Threads,
         NEW doc \in Documents, Start(c, t, doc)
  PROVE  GraphInv'
<1> DEFINE v == ckpt[t].values
           new == [NoInvocation EXCEPT !.stage = "body", !.node = "ingest_contract",
                                       !.thread = t, !.document = doc, !.values = v]
<1>1. /\ inv' = [inv EXCEPT ![c] = new]
      /\ MakeCheckpoint(c, "ingest_contract", v, FALSE)
      /\ UNCHANGED <<runs, events, log, reports, faults>>
  BY DEF Start, storeVars
<1>2. /\ inv \in [Calls -> Invocation] /\ faults \in Nat /\ CallOK(c)
      /\ StoreTypeOK /\ OutcomeLogged /\ CkptTypeOK /\ GraphTypeOK /\ StreamsAgree
  BY GraphAssumption DEF GraphInv, GraphTypeOK
<1>3. v \in Values /\ Backed(events[t], v) /\ unsaved[c] = {}
  BY <1>2 DEF CkptTypeOK, Checkpoint, OutcomeLogged, CallOK
<1> HIDE DEF v
<1>4. /\ new \in Invocation /\ new.stage = "body" /\ new.thread = t /\ new.values = v
      /\ new.result = NoValues
  <2>1. "body" \in Stages /\ "ingest_contract" \in Places
    BY DEF Stages, Places, Nodes
  <2> QED BY <1>3, <2>1, NoInvocationType DEF Invocation
<1>5. "ingest_contract" \in Places
  BY DEF Places, Nodes
<1>6. /\ CkptTypeOK' /\ ckpt' = ckpt
      /\ \A d \in Calls : d # c => unsaved'[d] = unsaved[d]
      /\ \A k \in unsaved'[c] : k.values = v
  BY <1>1, <1>2, <1>3, <1>5, MakeFrame
<1> HIDE DEF new
<1>7. /\ inv' \in [Calls -> Invocation] /\ inv'[c] = new
      /\ \A d \in Calls : d # c => inv'[d] = inv[d]
  BY <1>1, <1>2, <1>4
<1>8. CallOK(c)'
  <2>1. Backed(events[t], NoValues)
    BY NothingYet, BackedNothing
  <2>2. \A k \in unsaved'[c] : Backed(events[t], k.values)
    BY <1>3, <1>6
  <2> QED BY <1>1, <1>3, <1>4, <1>7, <2>1, <2>2 DEF CallOK, Backed
<1>9. \A d \in Calls : CallOK(d)'
  BY <1>1, <1>6, <1>7, <1>8, AllCalls DEF GraphInv
<1>10. StreamsAgree'
  BY <1>1, <1>2, <1>7, StreamsKept
<1>11. OutcomeLogged'
  BY <1>1, <1>2, <1>6, OutcomeKept
<1> QED BY <1>1, <1>2, <1>6, <1>7, <1>9, <1>10, <1>11
        DEF GraphInv, StoreTypeOK, GraphTypeOK

\* graph.invoke with Command(resume=...), from a call that is new or has been checked.
LEMMA ResumeKeeps ==
  ASSUME GraphInv, NEW c \in Calls, inv[c].stage \in {"idle", "checked"},
         NEW t \in Threads, NEW answer \in AnswersOrNone, Resume(c, t, answer)
  PROVE  GraphInv'
<1> DEFINE k == ckpt[t]
           s == IF k.next = "END" THEN "returned" ELSE "body"
           a == IF k.answer = NoAnswer THEN answer ELSE k.answer
           new == [NoInvocation EXCEPT !.stage = s, !.node = k.next, !.thread = t,
                                       !.values = k.values, !.answer = a]
<1>1. inv' = [inv EXCEPT ![c] = new] /\ UNCHANGED <<storeVars, ckptVars, faults>>
  BY DEF Resume
<1>2. /\ inv \in [Calls -> Invocation] /\ CallOK(c) /\ OutcomeLogged /\ CkptTypeOK
  BY DEF GraphInv, GraphTypeOK
<1>3. /\ k \in Checkpoint /\ k.values \in Values /\ k.next \in Places
      /\ k.answer \in AnswersOrNone
      /\ Backed(events[t], k.values) /\ unsaved[c] = {}
  BY <1>2 DEF CkptTypeOK, Checkpoint, OutcomeLogged, CallOK
<1> HIDE DEF k
<1>4. s \in {"body", "returned"} /\ s \in Stages /\ a \in AnswersOrNone
  BY <1>3 DEF Stages
<1> HIDE DEF s, a
<1>5. /\ new \in Invocation /\ new.stage = s /\ new.thread = t
      /\ new.values = k.values /\ new.result = NoValues
  BY <1>3, <1>4, NoInvocationType DEF Invocation
<1> HIDE DEF new
<1>6. inv'[c] = new
  BY <1>1, <1>2
<1>7. CallOK(c)'
  <2>1. Backed(events[t], NoValues)
    BY NothingYet, BackedNothing
  <2>2. UNCHANGED <<events, unsaved>>
    BY <1>1 DEF storeVars, ckptVars
  <2> QED BY <1>3, <1>4, <1>5, <1>6, <2>1, <2>2 DEF CallOK, Backed
<1>8. inv[c].stage # "line"
  OBVIOUS
<1> QED BY <1>1, <1>5, <1>7, <1>8, CallChanges

\* The empty store with no call under way.
LEMMA InitInv ==
  ASSUME StoreInit, CkptInit, GraphInit
  PROVE  GraphInv
<1>1. StoreTypeOK
  BY DEF StoreInit, StoreTypeOK, NoRow, Row, NoReport, Report
<1>2. CkptTypeOK
  <2>1. NoCheckpoint \in Checkpoint
    BY NothingYet DEF NoCheckpoint, Checkpoint, Places
  <2> QED BY <2>1 DEF CkptInit, CkptTypeOK
<1>3. GraphTypeOK
  BY NoInvocationType, GraphAssumption DEF GraphInit, GraphTypeOK
<1>4. ASSUME NEW c \in Calls PROVE CallOK(c)
  <2>1. inv[c].stage = "idle" /\ unsaved[c] = {}
    BY DEF GraphInit, NoInvocation, CkptInit
  <2> QED BY <2>1 DEF CallOK, Active, Running
<1>5. StreamsAgree
  BY DEF StoreInit, StreamsAgree
<1>6. OutcomeLogged
  <2>1. \A t \in Threads : Backed(events[t], ckpt[t].values)
    BY NothingYet DEF CkptInit, NoCheckpoint, Backed
  <2> QED BY <2>1 DEF StoreInit, OutcomeLogged, NoRow, NoReport
<1> QED BY <1>1, <1>2, <1>3, <1>4, <1>5, <1>6 DEF GraphInv

\* Nothing of the graph changes.
LEMMA StutterKeeps ==
  ASSUME GraphInv, UNCHANGED <<storeVars, ckptVars, inv, faults>>
  PROVE  GraphInv'
<1>1. UNCHANGED <<runs, events, log, reports, ckpt, unsaved, clock, inv, faults>>
  BY DEF storeVars, ckptVars
<1>2. \A d \in Calls : CallOK(d)'
  BY <1>1, OtherCall DEF GraphInv
<1>3. OutcomeLogged'
  BY <1>1, OutcomeKept DEF GraphInv
<1>4. StreamsAgree'
  BY <1>1 DEF GraphInv, StreamsAgree, BetweenWrites
<1> QED BY <1>1, <1>2, <1>3, <1>4 DEF GraphInv, StoreTypeOK, CkptTypeOK, GraphTypeOK

--------------------------------------------------------------------------------
(* The shape of calls and checkpoints (ShapeInv), one lemma per step of the graph, and *)
(* what a step leaves of a call, field by field.                                      *)

\* What a step of call c leaves of its record, field by field, and of the others'.
Becomes(c, stage, node, values, result, event, read) ==
  /\ inv'[c].stage = stage /\ inv'[c].node = node /\ inv'[c].values = values
  /\ inv'[c].result = result /\ inv'[c].event = event /\ inv'[c].read = read
  /\ inv'[c].thread = T(c) /\ inv'[c].document = inv[c].document
  /\ inv'[c].answer = inv[c].answer
  /\ \A d \in Calls : d # c => inv'[d] = inv[d]

\* Another stage, nothing else.
LEMMA GoBecomes ==
  ASSUME inv \in [Calls -> Invocation], NEW c \in Calls, NEW s, Go(c, s)
  PROVE  Becomes(c, s, inv[c].node, V(c), inv[c].result, inv[c].event, inv[c].read)
BY DEF Go, Becomes, Invocation, V, T

\* append_event begins.
LEMMA EmitBecomes ==
  ASSUME inv \in [Calls -> Invocation], NEW c \in Calls, NEW type, NEW info, NEW result,
         Emit(c, type, info, result)
  PROVE  /\ Becomes(c, "insert", inv[c].node, V(c), result,
                    [type |-> type, info |-> info], inv[c].read)
         /\ inv'[c].event.type = type /\ inv'[c].event.info = info
<1> DEFINE e == [type |-> type, info |-> info]
<1>1. e.type = type /\ e.info = info
  OBVIOUS
<1>2. inv' = [inv EXCEPT ![c] = [@ EXCEPT !.stage = "insert", !.result = result, !.event = e]]
  BY DEF Emit
<1> HIDE DEF e
<1>3. Becomes(c, "insert", inv[c].node, V(c), result, e, inv[c].read)
  BY <1>2 DEF Becomes, Invocation, V, T
<1> QED BY <1>1, <1>3 DEF Becomes, e

\* A SELECT of a review transition.
LEMMA SelectBecomes ==
  ASSUME inv \in [Calls -> Invocation], NEW c \in Calls, NEW status, NEW update,
         NEW otherwise, SelectStatus(c, status, update, otherwise)
  PROVE  /\ Becomes(c, IF WillTransition(T(c), status) THEN update ELSE otherwise,
                    inv[c].node, V(c), inv[c].result, inv[c].event, inv'[c].read)
         /\ inv'[c].read.interrupted_at = runs[T(c)].interrupted_at
         /\ inv'[c].read.resumed_at = runs[T(c)].resumed_at
<1> DEFINE s == IF WillTransition(T(c), status) THEN update ELSE otherwise
           r == [interrupted_at |-> runs[T(c)].interrupted_at,
                 resumed_at |-> runs[T(c)].resumed_at]
<1>1. /\ r.interrupted_at = runs[T(c)].interrupted_at
      /\ r.resumed_at = runs[T(c)].resumed_at
  OBVIOUS
<1>2. inv' = [inv EXCEPT ![c] = [@ EXCEPT !.stage = s, !.read = r]]
  BY DEF SelectStatus
<1> HIDE DEF r, s
<1>3. Becomes(c, s, inv[c].node, V(c), inv[c].result, inv[c].event, r) /\ inv'[c].read = r
  BY <1>2 DEF Becomes, Invocation, V, T
<1> QED BY <1>1, <1>3 DEF s

\* The loop takes a node's update.
LEMMA ReturnBecomes ==
  ASSUME inv \in [Calls -> Invocation], NEW c \in Calls, Return(c)
  PROVE  LET next == NextNode(inv[c].node, inv[c].result) IN
         /\ Becomes(c, IF next = "END" THEN "returned" ELSE "body", next,
                    inv[c].result, inv[c].result, inv[c].event, inv[c].read)
         /\ inv[c].stage = "return"
         /\ MakeCheckpoint(c, next, inv[c].result, FALSE)
         /\ UNCHANGED <<storeVars, faults>>
<1> DEFINE v == inv[c].result
           next == NextNode(inv[c].node, v)
           s == IF next = "END" THEN "returned" ELSE "body"
<1>1. /\ inv' = [inv EXCEPT ![c] = [@ EXCEPT !.node = next, !.values = v, !.stage = s]]
      /\ inv[c].stage = "return"
      /\ MakeCheckpoint(c, next, v, FALSE)
      /\ UNCHANGED <<storeVars, faults>>
  BY DEF Return
<1> HIDE DEF next, s
<1>2. Becomes(c, s, next, v, v, inv[c].event, inv[c].read)
  BY <1>1 DEF Becomes, Invocation, T
<1> QED BY <1>1, <1>2 DEF next, s

\* A checkpoint joins those call c has not saved.
LEMMA MakeJoins ==
  ASSUME CkptTypeOK, NEW c \in Calls, NEW next, NEW values, NEW paused,
         MakeCheckpoint(c, next, values, paused)
  PROVE  \E k : /\ k.id = clock + 1 /\ k.next = next /\ k.values = values
                /\ k.paused = paused /\ k.answer = NoAnswer
                /\ unsaved' = [unsaved EXCEPT ![c] = @ \cup {k}]
                /\ unsaved'[c] = unsaved[c] \cup {k}
                /\ \A d \in Calls : d # c => unsaved'[d] = unsaved[d]
                /\ clock' = clock + 1 /\ ckpt' = ckpt
<1> DEFINE k == [id |-> clock + 1, next |-> next, values |-> values,
                 paused |-> paused, answer |-> NoAnswer]
<1>1. /\ k.id = clock + 1 /\ k.next = next /\ k.values = values
      /\ k.paused = paused /\ k.answer = NoAnswer
  OBVIOUS
<1>2. /\ unsaved' = [unsaved EXCEPT ![c] = @ \cup {k}]
      /\ clock' = clock + 1 /\ ckpt' = ckpt
  BY DEF MakeCheckpoint
<1> HIDE DEF k
<1>3. /\ unsaved'[c] = unsaved[c] \cup {k}
      /\ \A d \in Calls : d # c => unsaved'[d] = unsaved[d]
  BY <1>2 DEF CkptTypeOK
<1> QED BY <1>1, <1>2, <1>3

--------------------------------------------------------------------------------
\* A step of call c that keeps its shape and that of the checkpoints keeps ShapeInv.
LEMMA ShapeStep ==
  ASSUME ShapeInv, NEW c \in Calls, ShapeOK(c)', UnsavedOK(c)',
         \A d \in Calls : d # c => inv'[d] = inv[d] /\ unsaved'[d] = unsaved[d],
         clock \in Nat, clock' \in Nat, clock <= clock',
         CkptTypeOK, CkptTypeOK',
         \A t \in Threads : SavedOK(t)'
  PROVE  ShapeInv'
<1>1. ASSUME NEW d \in Calls, d # c
      PROVE  ShapeOK(d)' /\ UnsavedOK(d)'
  <2>1. ShapeOK(d) /\ UnsavedOK(d) /\ inv'[d] = inv[d] /\ unsaved'[d] = unsaved[d]
    BY <1>1 DEF ShapeInv
  <2>2. ShapeOK(d)'
    BY <2>1 DEF ShapeOK, PastAnswer, Writing, Active
  <2>3. \A k \in unsaved[d] : k.id \in Nat
    BY DEF CkptTypeOK, Checkpoint
  <2>4. UnsavedOK(d)'
    BY <2>1, <2>3 DEF UnsavedOK
  <2> QED BY <2>2, <2>4
<1> QED BY <1>1 DEF ShapeInv

\* No checkpoint is made or saved.
LEMMA ShapeFrame ==
  ASSUME GraphInv, ShapeInv, NEW c \in Calls, ShapeOK(c)',
         \A d \in Calls : d # c => inv'[d] = inv[d],
         UNCHANGED <<unsaved, clock>>, CkptTypeOK',
         \A t \in Threads : ckpt'[t].id = ckpt[t].id /\ ckpt'[t].paused = ckpt[t].paused
                              /\ ckpt'[t].next = ckpt[t].next
  PROVE  ShapeInv'
<1>1. clock \in Nat /\ CkptTypeOK
  BY DEF GraphInv, CkptTypeOK
<1>2. \A t \in Threads : SavedOK(t)'
  BY DEF ShapeInv, SavedOK
<1>3. UnsavedOK(c)'
  BY DEF ShapeInv, UnsavedOK
<1> QED BY <1>1, <1>2, <1>3, ShapeStep

\* A recorded answer changes nothing else of a checkpoint.
LEMMA KeepAnswerFields ==
  ASSUME CkptTypeOK, NEW t \in Threads, NEW answer, KeepAnswer(t, answer)
  PROVE  /\ UNCHANGED <<unsaved, clock>>
         /\ \A u \in Threads : /\ ckpt'[u].id = ckpt[u].id /\ ckpt'[u].next = ckpt[u].next
                               /\ ckpt'[u].paused = ckpt[u].paused
                               /\ ckpt'[u].values = ckpt[u].values
         /\ \A u \in Threads : u # t => ckpt'[u] = ckpt[u]
         /\ \/ ckpt'[t].answer = ckpt[t].answer
            \/ ckpt[t].paused /\ ckpt'[t].answer = answer
BY DEF KeepAnswer, CkptTypeOK, ckptVars, Checkpoint

\* An event of the node it is written at.
LEMMA ShapeEmit ==
  ASSUME GraphInv, ShapeInv, NEW c \in Calls, inv[c].stage \in Running,
         NEW type \in EventsOf(inv[c].node), NEW info, NEW result,
         Emit(c, type, info, result), UNCHANGED ckptVars,
         type \in {"human_review_resumed", "human_review_completed"} => inv[c].answer # NoAnswer
  PROVE  ShapeInv'
<1>1. /\ Becomes(c, "insert", inv[c].node, V(c), result,
                 [type |-> type, info |-> info], inv[c].read)
      /\ inv'[c].event.type = type
  BY EmitBecomes DEF GraphInv, GraphTypeOK
<1>2. UNCHANGED <<ckpt, unsaved, clock>>
  BY DEF ckptVars
<1>3. Active(c) /\ Active(c)' /\ ShapeOK(c)
  BY <1>1 DEF Active, Running, Becomes, ShapeInv
<1>4. ShapeOK(c)'
  BY <1>1, <1>2, <1>3 DEF ShapeOK, PastAnswer, Writing, Becomes, Running
<1>5. CkptTypeOK'
  BY <1>2 DEF GraphInv, CkptTypeOK
<1> QED BY <1>1, <1>2, <1>4, <1>5, ShapeFrame DEF Becomes

\* Another stage of the same node.
LEMMA ShapeGo ==
  ASSUME GraphInv, ShapeInv, NEW c \in Calls, inv[c].stage \in Running,
         NEW stage, NEW read,
         Becomes(c, stage, inv[c].node, V(c), inv[c].result, inv[c].event, read),
         UNCHANGED <<unsaved, clock>>, CkptTypeOK',
         \A t \in Threads : ckpt'[t].id = ckpt[t].id /\ ckpt'[t].paused = ckpt[t].paused
                              /\ ckpt'[t].next = ckpt[t].next,
         stage \in Running \cup {"raised"},
         stage = "insert" => inv[c].stage = "insert",
         stage = "line" => inv[c].stage \in {"insert", "line"},
         stage \in {"set_pending", "interrupt", "set_completed", "decide"} =>
           inv[c].node = "human_review",
         stage = "finalize" => inv[c].node = "audit_and_report",
         stage \in {"set_completed", "decide"} => inv[c].answer # NoAnswer
  PROVE  ShapeInv'
<1>1. ShapeOK(c) /\ Active(c) /\ Active(c)'
  BY DEF ShapeInv, Active, Running, Becomes
<1>2. ShapeOK(c)'
  BY <1>1 DEF ShapeOK, PastAnswer, Writing, Becomes, Running
<1> QED BY <1>2, ShapeFrame DEF Becomes

\* The steps of the nodes before and after human_review.
LEMMA ShapeNodes ==
  ASSUME GraphInv, ShapeInv, NEW c \in Calls,
         \/ IngestContract(c) \/ ParseAndChunkClauses(c) \/ ExtractDetailsAndFlagRisk(c)
         \/ CheckPolicyRules(c) \/ AutoAdvanceStandardCases(c) \/ AuditAndReport(c)
         \/ SetPending(c) \/ SetCompleted(c) \/ Decide(c)
  PROVE  ShapeInv'
<1>1. /\ inv[c].stage \in Running /\ UNCHANGED ckptVars
      /\ \/ Go(c, "raised")
         \/ \E type \in EventsOf(inv[c].node) : \E info, result :
              /\ Emit(c, type, info, result)
              /\ type \in {"human_review_resumed", "human_review_completed"} =>
                   inv[c].stage \in {"set_completed", "decide"}
  <2>1. CASE IngestContract(c)
    BY <2>1 DEF IngestContract, IngestFound, IngestMissing, At, Running, EventsOf
  <2>2. CASE ParseAndChunkClauses(c)
    BY <2>2 DEF ParseAndChunkClauses, At, Running, EventsOf
  <2>3. CASE ExtractDetailsAndFlagRisk(c)
    BY <2>3 DEF ExtractDetailsAndFlagRisk, At, Running, EventsOf
  <2>4. CASE CheckPolicyRules(c)
    BY <2>4 DEF CheckPolicyRules, At, Running, EventsOf
  <2>5. CASE AutoAdvanceStandardCases(c)
    BY <2>5 DEF AutoAdvanceStandardCases, At, Running, EventsOf
  <2>6. CASE AuditAndReport(c)
    BY <2>6 DEF AuditAndReport, At, Running, EventsOf
  <2>7. CASE SetPending(c)
    BY <2>7 DEF SetPending, At, Running, EventsOf
  <2>8. CASE SetCompleted(c)
    BY <2>8 DEF SetCompleted, At, Running, EventsOf
  <2>9. CASE Decide(c)
    BY <2>9 DEF Decide, At, Running, EventsOf
  <2> QED BY <2>1, <2>2, <2>3, <2>4, <2>5, <2>6, <2>7, <2>8, <2>9
<1>2. CASE Go(c, "raised")
  <2>1. Becomes(c, "raised", inv[c].node, V(c), inv[c].result, inv[c].event, inv[c].read)
    BY <1>2, GoBecomes DEF GraphInv, GraphTypeOK
  <2>2. UNCHANGED <<ckpt, unsaved, clock>> /\ CkptTypeOK'
    BY <1>1 DEF ckptVars, GraphInv, CkptTypeOK
  <2>3. "raised" \notin Running
    BY DEF Running
  <2> QED BY <1>1, <2>1, <2>2, <2>3, ShapeGo
<1>3. ASSUME NEW type \in EventsOf(inv[c].node), NEW info, NEW result,
             Emit(c, type, info, result),
             type \in {"human_review_resumed", "human_review_completed"} =>
               inv[c].stage \in {"set_completed", "decide"}
      PROVE  ShapeInv'
  <2>1. type \in {"human_review_resumed", "human_review_completed"} => inv[c].answer # NoAnswer
    BY <1>3 DEF ShapeInv, ShapeOK, PastAnswer
  <2> QED BY <1>1, <1>3, <2>1, ShapeEmit
<1> QED BY <1>1, <1>2, <1>3

\* The SELECTs, the two writes of append_event, and what raises.
LEMMA ShapeStages ==
  ASSUME GraphInv, ShapeInv, NEW c \in Calls,
         \/ SelectPending(c) \/ SelectCompleted(c) \/ RefuseAnswer(c) \/ ReportFails(c)
         \/ Finalize(c) \/ Insert(c) \/ Line(c)
  PROVE  ShapeInv'
<1>1. /\ ShapeOK(c) /\ CkptTypeOK /\ inv \in [Calls -> Invocation]
  BY DEF ShapeInv, GraphInv, GraphTypeOK
<1>2. CASE SelectPending(c)
  <2>1. /\ inv[c].stage \in Running /\ inv[c].node = "human_review"
        /\ UNCHANGED <<ckpt, unsaved, clock>> /\ CkptTypeOK'
    BY <1>1, <1>2 DEF SelectPending, At, Running, ckptVars, CkptTypeOK
  <2>2. PICK stage \in {"set_pending", "interrupt"} :
          Becomes(c, stage, inv[c].node, V(c), inv[c].result, inv[c].event, inv'[c].read)
    BY <1>1, <1>2, SelectBecomes DEF SelectPending
  <2>3. stage \in Running
    BY DEF Running
  <2> QED BY <2>1, <2>2, <2>3, ShapeGo
<1>3. CASE SelectCompleted(c)
  <2>1. /\ inv[c].stage \in Running /\ inv[c].node = "human_review" /\ inv[c].answer # NoAnswer
        /\ KeepAnswer(T(c), inv[c].answer)
    BY <1>3 DEF SelectCompleted, At, Running
  <2>2. PICK stage \in {"set_completed", "decide"} :
          Becomes(c, stage, inv[c].node, V(c), inv[c].result, inv[c].event, inv'[c].read)
    BY <1>1, <1>3, SelectBecomes DEF SelectCompleted
  <2>3. stage \in Running
    BY DEF Running
  <2>4. T(c) \in Threads /\ inv[c].answer \in AnswersOrNone
    BY <2>1, CallFacts DEF Invocation
  <2>5. CkptTypeOK'
    BY <1>1, <2>1, <2>4, KeepAnswerFrame
  <2>6. /\ UNCHANGED <<unsaved, clock>>
        /\ \A t \in Threads : ckpt'[t].id = ckpt[t].id /\ ckpt'[t].paused = ckpt[t].paused
                              /\ ckpt'[t].next = ckpt[t].next
    BY <1>1, <2>1, <2>4, KeepAnswerFields
  <2> QED BY <2>1, <2>2, <2>3, <2>5, <2>6, ShapeGo
<1>4. ASSUME NEW stage \in Running \cup {"raised"}, Go(c, stage), inv[c].stage \in Running,
             UNCHANGED ckptVars,
             stage # "insert", stage = "line" => inv[c].stage = "insert",
             stage \in {"set_pending", "interrupt", "set_completed", "decide"} =>
               inv[c].node = "human_review",
             stage = "finalize" => inv[c].node = "audit_and_report",
             stage \in {"set_completed", "decide"} => inv[c].answer # NoAnswer
      PROVE  ShapeInv'
  <2>1. Becomes(c, stage, inv[c].node, V(c), inv[c].result, inv[c].event, inv[c].read)
    BY <1>1, <1>4, GoBecomes
  <2>2. UNCHANGED <<ckpt, unsaved, clock>> /\ CkptTypeOK'
    BY <1>1, <1>4 DEF ckptVars, CkptTypeOK
  <2> QED BY <1>4, <2>1, <2>2, ShapeGo
<1>5. CASE RefuseAnswer(c) \/ ReportFails(c)
  <2>1. inv[c].stage \in Running /\ Go(c, "raised") /\ UNCHANGED ckptVars
    BY <1>5 DEF RefuseAnswer, ReportFails, At, Running
  <2> QED BY <1>4, <2>1
<1>6. CASE Finalize(c)
  <2>1. inv[c].stage \in Running /\ Go(c, "return") /\ "return" \in Running /\ UNCHANGED ckptVars
    BY <1>6 DEF Finalize, At, Running
  <2> QED BY <1>4, <2>1
<1>7. CASE Insert(c)
  <2>1. inv[c].stage \in Running /\ inv[c].stage = "insert" /\ Go(c, "line") /\ "line" \in Running
        /\ UNCHANGED ckptVars
    BY <1>7 DEF Insert, Running
  <2> QED BY <1>4, <2>1
<1>8. CASE Line(c)
  <2> DEFINE s == AfterEvent(inv[c].event.type)
  <2>1. /\ inv[c].stage \in Running /\ inv[c].stage = "line" /\ Go(c, s) /\ UNCHANGED ckptVars
    BY <1>8 DEF Line, Running
  <2>2. /\ s \in {"interrupt", "decide", "finalize", "return"} /\ s \in Running
        /\ s = "interrupt" => inv[c].event.type = "human_review_pending"
        /\ s = "decide" => inv[c].event.type = "human_review_resumed"
        /\ s = "finalize" => inv[c].event.type = "report_written"
    BY DEF AfterEvent, Running
  <2>3. /\ s \in {"interrupt", "decide"} => inv[c].node = "human_review"
        /\ s = "finalize" => inv[c].node = "audit_and_report"
        /\ s = "decide" => inv[c].answer # NoAnswer
    BY <1>1, <2>1, <2>2 DEF ShapeOK, EventsOf, PastAnswer, Writing
  <2> HIDE DEF s
  <2> QED BY <1>4, <2>1, <2>2, <2>3
<1> QED BY <1>2, <1>3, <1>5, <1>6, <1>7, <1>8

\* A new checkpoint, made by a call that goes on to a node or leaves the graph.
LEMMA ShapeMake ==
  ASSUME CkptTypeOK, CkptTypeOK', ShapeInv, NEW c \in Calls, NEW next, NEW values, NEW paused,
         MakeCheckpoint(c, next, values, paused),
         next # "NONE", paused => next = "human_review",
         ShapeOK(c)', \A d \in Calls : d # c => inv'[d] = inv[d]
  PROVE  ShapeInv'
<1>1. PICK k : /\ k.id = clock + 1 /\ k.next = next /\ k.values = values
               /\ k.paused = paused /\ k.answer = NoAnswer
               /\ unsaved'[c] = unsaved[c] \cup {k}
               /\ \A d \in Calls : d # c => unsaved'[d] = unsaved[d]
               /\ clock' = clock + 1 /\ ckpt' = ckpt
  BY MakeJoins
<1>2. clock \in Nat /\ (\A d \in Calls : \A x \in unsaved[d] : x.id \in Nat)
      /\ \A t \in Threads : ckpt[t].id \in Nat
  BY DEF CkptTypeOK, Checkpoint
<1>3. UnsavedOK(c)'
  BY <1>1, <1>2 DEF ShapeInv, UnsavedOK
<1>4. \A t \in Threads : SavedOK(t)'
  BY <1>1, <1>2 DEF ShapeInv, SavedOK
<1> QED BY <1>1, <1>2, <1>3, <1>4, ShapeStep

\* The edges lead to a node or to the end, and to human_review only after the policy.
LEMMA NextNodeCases ==
  ASSUME NEW node, NEW v
  PROVE  /\ NextNode(node, v) \in Nodes \cup {"END"}
         /\ NextNode(node, v) = "END" <=> node = "audit_and_report"
         /\ NextNode(node, v) = "human_review" =>
              node = "check_policy_rules" /\ v.route = "human_review"
         /\ NextNode(node, v) = "auto_advance_standard_cases" =>
              node = "check_policy_rules" /\ v.route = "auto_advance"
         /\ NextNode(node, v) = "check_policy_rules" => node = "extract_details_and_flag_risk"
         /\ NextNode(node, v) = "extract_details_and_flag_risk" =>
              node = "parse_and_chunk_clauses"
         /\ NextNode(node, v) = "parse_and_chunk_clauses" => node = "ingest_contract"
         /\ NextNode(node, v) # "ingest_contract"
         /\ node = "human_review" => NextNode(node, v) = "audit_and_report"
BY DEF NextNode, AfterIngest, AfterParse, AfterPolicy, Nodes

\* A pause, and a node's return.
LEMMA ShapeCheckpoints ==
  ASSUME GraphInv, ShapeInv, NEW c \in Calls, Pause(c) \/ Return(c)
  PROVE  ShapeInv'
<1>1. /\ ShapeOK(c) /\ CkptTypeOK /\ inv \in [Calls -> Invocation]
  BY DEF ShapeInv, GraphInv, GraphTypeOK
<1>2. GraphInv'
  BY PauseKeeps, ReturnKeeps
<1>3. CkptTypeOK'
  BY <1>2 DEF GraphInv
<1>4. CASE Pause(c)
  <2>1. /\ MakeCheckpoint(c, "human_review", V(c), TRUE)
        /\ Becomes(c, "returned", inv[c].node, V(c), inv[c].result, inv[c].event, inv[c].read)
        /\ inv[c].node = "human_review"
    BY <1>1, <1>4, GoBecomes DEF Pause, At
  <2>2. ShapeOK(c)'
    BY <2>1 DEF ShapeOK, PastAnswer, Writing, Becomes, Running, Active
  <2>3. \A d \in Calls : d # c => inv'[d] = inv[d]
    BY <2>1 DEF Becomes
  <2> QED BY <1>1, <1>3, <2>1, <2>2, <2>3, ShapeMake
<1>5. CASE Return(c)
  <2> DEFINE next == NextNode(inv[c].node, inv[c].result)
  <2>1. /\ MakeCheckpoint(c, next, inv[c].result, FALSE)
        /\ Becomes(c, IF next = "END" THEN "returned" ELSE "body", next,
                    inv[c].result, inv[c].result, inv[c].event, inv[c].read)
    BY <1>1, <1>5, ReturnBecomes
  <2>2. next \in Nodes \cup {"END"} /\ next # "NONE"
    BY NextNodeCases DEF Nodes
  <2> HIDE DEF next
  <2>3. ShapeOK(c)'
    BY <2>1, <2>2 DEF ShapeOK, PastAnswer, Writing, Becomes, Running, Active
  <2>4. \A d \in Calls : d # c => inv'[d] = inv[d]
    BY <2>1 DEF Becomes
  <2> QED BY <1>1, <1>3, <2>1, <2>2, <2>3, <2>4, ShapeMake
<1> QED BY <1>4, <1>5

\* Every step of a running invocation.
LEMMA ShapeNodeStep ==
  ASSUME GraphInv, ShapeInv, NEW c \in Calls, NodeStep(c)
  PROVE  ShapeInv'
BY ShapeNodes, ShapeStages, ShapeCheckpoints DEF NodeStep

\* What the writer does, in the parts that later proofs need.
LEMMA SaveParts ==
  ASSUME GraphInv, ShapeInv, NEW c \in Calls, Save(c)
  PROVE  /\ UNCHANGED <<runs, events, log, reports, inv, faults, clock>>
         /\ T(c) \in Threads /\ Active(c)
         /\ \A d \in Calls : d # c => unsaved'[d] = unsaved[d]
         /\ \A t \in Threads : t # T(c) => ckpt'[t] = ckpt[t]
         /\ \E k \in unsaved[c] :
              /\ unsaved'[c] = unsaved[c] \ {k}
              /\ \A other \in unsaved'[c] : other.id > k.id
              /\ ckpt'[T(c)] = IF k.id > ckpt[T(c)].id THEN k ELSE ckpt[T(c)]
<1>1. PICK k \in unsaved[c] :
        /\ \A other \in unsaved[c] : k.id <= other.id
        /\ unsaved' = [unsaved EXCEPT ![c] = @ \ {k}]
        /\ ckpt' = IF k.id > ckpt[T(c)].id THEN [ckpt EXCEPT ![T(c)] = k] ELSE ckpt
        /\ clock' = clock
  BY DEF Save, SaveCheckpoint
<1>2. UNCHANGED <<runs, events, log, reports, inv, faults>>
  BY DEF Save, storeVars
<1>3. CkptTypeOK /\ CallOK(c) /\ ShapeOK(c) /\ UnsavedOK(c)
  BY DEF GraphInv, ShapeInv
<1>4. T(c) \in Threads /\ Active(c)
  BY <1>3 DEF CallOK, ShapeOK, T
<1>5. \A x \in unsaved[c] : x.id \in Nat
  BY <1>3 DEF CkptTypeOK, Checkpoint
<1>6. unsaved'[c] = unsaved[c] \ {k} /\ \A d \in Calls : d # c => unsaved'[d] = unsaved[d]
  BY <1>1, <1>3 DEF CkptTypeOK
<1>7. \A other \in unsaved'[c] : other.id > k.id
  BY <1>1, <1>3, <1>5, <1>6 DEF UnsavedOK
<1>8. /\ \A t \in Threads : t # T(c) => ckpt'[t] = ckpt[t]
      /\ ckpt'[T(c)] = IF k.id > ckpt[T(c)].id THEN k ELSE ckpt[T(c)]
  BY <1>1, <1>3, <1>4 DEF CkptTypeOK
<1> QED BY <1>1, <1>2, <1>4, <1>6, <1>7, <1>8

\* The checkpoint writer.
LEMMA ShapeSave ==
  ASSUME GraphInv, ShapeInv, NEW c \in Calls, Save(c)
  PROVE  ShapeInv'
<1>1. PICK k \in unsaved[c] :
        /\ unsaved'[c] = unsaved[c] \ {k}
        /\ ckpt'[T(c)] = IF k.id > ckpt[T(c)].id THEN k ELSE ckpt[T(c)]
  BY SaveParts
<1>2. /\ UNCHANGED <<inv, clock>>
      /\ \A d \in Calls : d # c => unsaved'[d] = unsaved[d]
      /\ \A t \in Threads : t # T(c) => ckpt'[t] = ckpt[t]
      /\ Active(c) /\ T(c) \in Threads
  BY SaveParts
<1>3. GraphInv'
  BY SaveKeeps
<1>4. ShapeOK(c) /\ UnsavedOK(c) /\ CkptTypeOK /\ CkptTypeOK' /\ clock \in Nat
  BY <1>3 DEF ShapeInv, GraphInv, CkptTypeOK
<1>5. ShapeOK(c)'
  BY <1>2, <1>4 DEF ShapeOK, PastAnswer, Writing, Active
<1>6. UnsavedOK(c)'
  BY <1>1, <1>2, <1>4 DEF UnsavedOK
<1>7. \A t \in Threads : SavedOK(t)'
  BY <1>1, <1>2, <1>4 DEF ShapeInv, SavedOK, UnsavedOK
<1> QED BY <1>2, <1>4, <1>5, <1>6, <1>7, ShapeStep

\* What a failed statement does, in the parts that later proofs need.
LEMMA FaultParts ==
  ASSUME GraphInv, NEW c \in Calls, StatementFails(c)
  PROVE  /\ inv[c].stage \in Running
         /\ UNCHANGED <<runs, events, log, reports, unsaved, clock>>
         /\ faults' > 0 /\ faults' \in Nat
         /\ \A t \in Threads : /\ ckpt'[t].id = ckpt[t].id /\ ckpt'[t].next = ckpt[t].next
                               /\ ckpt'[t].paused = ckpt[t].paused
                               /\ ckpt'[t].values = ckpt[t].values
         /\ \A t \in Threads : t # T(c) => ckpt'[t] = ckpt[t]
         /\ \/ Becomes(c, "raised", inv[c].node, V(c), inv[c].result, inv[c].event, inv[c].read)
            \/ /\ inv[c].stage \in {"insert", "line"}
               /\ \/ /\ inv[c].event.type = "extracted"
                     /\ Emit(c, "extraction_failed", Null, FailedValues(c))
                  \/ /\ inv[c].event.type = "policy_evaluated"
                     /\ Emit(c, "policy_failed", Null, FailedValues(c))
<1>1. /\ faults \in Nat /\ CkptTypeOK /\ inv \in [Calls -> Invocation]
  BY GraphAssumption DEF GraphInv, GraphTypeOK
<1>2. inv[c].stage \in Running
  BY DEF StatementFails, Touching, Running
<1>3. UNCHANGED <<runs, events, log, reports>> /\ faults' > 0 /\ faults' \in Nat
  BY <1>1 DEF StatementFails, storeVars
<1>4. T(c) \in Threads /\ inv[c].answer \in AnswersOrNone
  BY <1>2, CallFacts DEF Invocation
<1>5. UNCHANGED ckptVars \/ KeepAnswer(T(c), inv[c].answer)
  BY DEF StatementFails
<1>6. /\ UNCHANGED <<unsaved, clock>>
      /\ \A t \in Threads : /\ ckpt'[t].id = ckpt[t].id /\ ckpt'[t].next = ckpt[t].next
                            /\ ckpt'[t].paused = ckpt[t].paused
                            /\ ckpt'[t].values = ckpt[t].values
      /\ \A t \in Threads : t # T(c) => ckpt'[t] = ckpt[t]
  BY <1>1, <1>4, <1>5, KeepAnswerFields DEF ckptVars
<1>7. \/ Go(c, "raised")
      \/ /\ inv[c].stage \in {"insert", "line"}
         /\ \/ /\ inv[c].event.type = "extracted"
               /\ Emit(c, "extraction_failed", Null, FailedValues(c))
            \/ /\ inv[c].event.type = "policy_evaluated"
               /\ Emit(c, "policy_failed", Null, FailedValues(c))
  <2>1. CASE Caught(c)
    BY <2>1 DEF StatementFails, Caught
  <2>2. CASE ~Caught(c)
    BY <2>2 DEF StatementFails
  <2> QED BY <2>1, <2>2
<1> QED BY <1>1, <1>2, <1>3, <1>6, <1>7, GoBecomes

\* A failed statement.
LEMMA ShapeFault ==
  ASSUME GraphInv, ShapeInv, NEW c \in Calls, StatementFails(c)
  PROVE  ShapeInv'
<1>1. GraphInv' /\ ShapeOK(c) /\ inv \in [Calls -> Invocation]
  BY FaultKeeps DEF ShapeInv, GraphInv, GraphTypeOK
<1>2. /\ inv[c].stage \in Running /\ UNCHANGED <<unsaved, clock>> /\ CkptTypeOK'
      /\ \A t \in Threads : ckpt'[t].id = ckpt[t].id /\ ckpt'[t].next = ckpt[t].next
                            /\ ckpt'[t].paused = ckpt[t].paused
  BY <1>1, FaultParts DEF GraphInv
<1>3. CASE Becomes(c, "raised", inv[c].node, V(c), inv[c].result, inv[c].event, inv[c].read)
  <2>1. "raised" \notin Running
    BY DEF Running
  <2> QED BY <1>2, <1>3, <2>1, ShapeGo
<1>4. ASSUME NEW type \in {"extraction_failed", "policy_failed"},
             inv[c].stage \in {"insert", "line"},
             type = "extraction_failed" => inv[c].event.type = "extracted",
             type = "policy_failed" => inv[c].event.type = "policy_evaluated",
             Emit(c, type, Null, FailedValues(c))
      PROVE  ShapeInv'
  <2>1. Becomes(c, "insert", inv[c].node, V(c), FailedValues(c),
                 [type |-> type, info |-> Null], inv[c].read)
        /\ inv'[c].event.type = type
    BY <1>1, <1>4, EmitBecomes
  <2>2. type \in EventsOf(inv[c].node)
    BY <1>1, <1>4 DEF ShapeOK, EventsOf
  <2>3. Active(c) /\ Active(c)'
    BY <1>2, <2>1 DEF Active, Running, Becomes
  <2>4. ShapeOK(c)'
    BY <1>1, <1>2, <2>1, <2>2, <2>3 DEF ShapeOK, PastAnswer, Writing, Becomes, Running
  <2> QED BY <1>2, <2>1, <2>4, ShapeFrame DEF Becomes
<1> QED BY <1>3, <1>4, FaultParts

\* The process stops.
LEMMA ShapeCrash ==
  ASSUME GraphInv, ShapeInv, Crash
  PROVE  ShapeInv'
<1>1. /\ unsaved' = [c \in Calls |-> {}] /\ clock' = clock
      /\ ckpt' = ckpt \/ ckpt' = [t \in Threads |-> NoCheckpoint]
      /\ inv' = [c \in Calls |-> IF Active(c) THEN Over(c, "dead") ELSE inv[c]]
  BY DEF Crash, LoseUnsaved
<1>2. clock \in Nat
  BY DEF GraphInv, CkptTypeOK
<1>3. ASSUME NEW c \in Calls PROVE ShapeOK(c)' /\ UnsavedOK(c)'
  <2>1. /\ inv'[c].stage \notin Running \cup {"returned"} /\ unsaved'[c] = {}
    BY <1>1 DEF Over, Active, Running, NoInvocation
  <2> QED BY <2>1 DEF ShapeOK, UnsavedOK, PastAnswer, Writing, Running
<1>4. ASSUME NEW t \in Threads PROVE SavedOK(t)'
  BY <1>1, <1>2 DEF ShapeInv, SavedOK, NoCheckpoint
<1> QED BY <1>3, <1>4 DEF ShapeInv

\* A call begins, or ends, and makes no checkpoint.
LEMMA ShapeCall ==
  ASSUME GraphInv, ShapeInv, NEW c \in Calls, unsaved[c] = {},
         \A d \in Calls : d # c => inv'[d] = inv[d],
         inv'[c].stage \in {"body", "returned", "checked", "done"},
         inv'[c].stage = "body" => inv'[c].node \in Nodes,
         inv'[c].stage = "returned" => inv'[c].node = "END",
         UNCHANGED ckptVars
  PROVE  ShapeInv'
<1>1. UNCHANGED <<ckpt, unsaved, clock>> /\ CkptTypeOK'
  BY DEF ckptVars, GraphInv, CkptTypeOK
<1>2. ShapeOK(c)'
  BY <1>1 DEF ShapeOK, PastAnswer, Writing, Running
<1> QED BY <1>1, <1>2, ShapeFrame

\* A call with an input begins.
LEMMA ShapeStart ==
  ASSUME GraphInv, ShapeInv, NEW c \in Calls, inv[c].stage = "idle", NEW t \in Threads,
         NEW doc \in Documents, Start(c, t, doc)
  PROVE  ShapeInv'
<1>1. GraphInv'
  BY StartKeeps
<1>2. CkptTypeOK /\ CkptTypeOK' /\ inv \in [Calls -> Invocation]
  BY <1>1 DEF GraphInv, GraphTypeOK
<1>3. /\ MakeCheckpoint(c, "ingest_contract", ckpt[t].values, FALSE)
      /\ inv'[c].stage = "body" /\ inv'[c].node = "ingest_contract"
      /\ \A d \in Calls : d # c => inv'[d] = inv[d]
  BY <1>2 DEF Start, NoInvocation
<1>4. ShapeOK(c)'
  BY <1>3 DEF ShapeOK, PastAnswer, Writing, Running, Nodes, Active
<1> QED BY <1>2, <1>3, <1>4, ShapeMake

\* A call resumes a paused thread.
LEMMA ShapeResume ==
  ASSUME GraphInv, ShapeInv, NEW c \in Calls, inv[c].stage \in {"idle", "checked"},
         NEW t \in Threads, Interrupted(t), NEW answer, Resume(c, t, answer)
  PROVE  ShapeInv'
<1> DEFINE a == IF ckpt[t].answer = NoAnswer THEN answer ELSE ckpt[t].answer
           s == IF ckpt[t].next = "END" THEN "returned" ELSE "body"
           new == [NoInvocation EXCEPT !.stage = s, !.node = ckpt[t].next, !.thread = t,
                                       !.values = ckpt[t].values, !.answer = a]
<1>1. /\ inv \in [Calls -> Invocation] /\ unsaved[c] = {} /\ ckpt[t].next = "human_review"
  BY DEF GraphInv, GraphTypeOK, CallOK, ShapeInv, SavedOK, Interrupted
<1>2. inv' = [inv EXCEPT ![c] = new] /\ s = "body" /\ UNCHANGED ckptVars
  BY <1>1 DEF Resume
<1> HIDE DEF a, s
<1>3. new.stage = "body" /\ new.node = "human_review"
  BY <1>1, <1>2 DEF NoInvocation
<1> HIDE DEF new
<1> QED BY <1>1, <1>2, <1>3, ShapeCall DEF Nodes

\* A call is over.
LEMMA ShapeOver ==
  ASSUME GraphInv, ShapeInv, NEW c \in Calls, unsaved[c] = {},
         inv' = [inv EXCEPT ![c] = Over(c, "done")], UNCHANGED ckptVars
  PROVE  ShapeInv'
<1>1. inv \in [Calls -> Invocation] /\ Over(c, "done").stage = "done"
  BY DEF GraphInv, GraphTypeOK, Over, NoInvocation
<1>2. inv'[c].stage = "done" /\ \A d \in Calls : d # c => inv'[d] = inv[d]
  BY <1>1
<1> QED BY <1>2, ShapeCall

\* Nothing is running.
LEMMA ShapeInit ==
  ASSUME CkptInit, GraphInit
  PROVE  ShapeInv
<1>1. \A c \in Calls : inv[c].stage = "idle" /\ unsaved[c] = {}
  BY DEF GraphInit, NoInvocation, CkptInit
<1>2. \A c \in Calls : ShapeOK(c) /\ UnsavedOK(c)
  BY <1>1 DEF ShapeOK, UnsavedOK, PastAnswer, Writing, Running
<1>3. NoCheckpoint.id = 0 /\ ~NoCheckpoint.paused
  BY DEF NoCheckpoint
<1>4. ASSUME NEW t \in Threads PROVE SavedOK(t)
  <2>1. ckpt[t].id = 0 /\ ckpt[t].paused = FALSE /\ clock = 0
    BY <1>3 DEF CkptInit
  <2>2. ckpt[t].id <= clock
    BY <2>1
  <2> QED BY <2>1, <2>2, Zenon DEF SavedOK
<1>5. \A t \in Threads : SavedOK(t)
  BY <1>4
<1> QED BY <1>2, <1>5 DEF ShapeInv

--------------------------------------------------------------------------------
(* The rows, field by field. *)

\* register_run makes the row, not yet before a reviewer, and keeps the timestamps.
LEMMA RegisterFields ==
  ASSUME runs \in [Threads -> Row], NEW t \in Threads, NEW final, NEW route,
         RegisterRun(t, final, route)
  PROVE  /\ \A u \in Threads : u # t => runs'[u] = runs[u]
         /\ runs'[t].exists /\ runs'[t].review_status = "not_required"
         /\ runs'[t].interrupted_at = runs[t].interrupted_at
         /\ runs'[t].resumed_at = runs[t].resumed_at
         /\ runs'[t].completed_at = runs[t].completed_at
         /\ runs'[t].route = Coalesce(route, runs[t].route)
BY DEF RegisterRun

\* A review transition writes the status and, on top of what was read, one timestamp.
LEMMA TransitionFields ==
  ASSUME runs \in [Threads -> Row], NEW t \in Threads, NEW status, NEW read,
         UpdateReviewStatus(t, status, read)
  PROVE  /\ \A u \in Threads : u # t => runs'[u] = runs[u]
         /\ runs'[t].exists = runs[t].exists /\ runs'[t].review_status = status
         /\ runs'[t].completed_at = runs[t].completed_at
         /\ runs'[t].final_status = runs[t].final_status
         /\ read.interrupted_at \/ status = "pending" => runs'[t].interrupted_at
         /\ read.resumed_at \/ status = "completed" => runs'[t].resumed_at
         /\ read.resumed_at = FALSE /\ status = "pending" => runs'[t].resumed_at = FALSE
<1> DEFINE in == read.interrupted_at \/ status = "pending"
           re == read.resumed_at \/ status = "completed"
<1>1. runs' = [runs EXCEPT ![t] = [@ EXCEPT !.review_status = status,
                                            !.interrupted_at = in, !.resumed_at = re]]
  BY DEF UpdateReviewStatus
<1>2. read.resumed_at = FALSE /\ status = "pending" => re = FALSE
  OBVIOUS
<1>3. (read.interrupted_at \/ status = "pending" => in)
      /\ (read.resumed_at \/ status = "completed" => re)
  OBVIOUS
<1> HIDE DEF in, re
<1>4. /\ \A u \in Threads : u # t => runs'[u] = runs[u]
      /\ runs'[t].exists = runs[t].exists /\ runs'[t].review_status = status
      /\ runs'[t].completed_at = runs[t].completed_at
      /\ runs'[t].final_status = runs[t].final_status
      /\ runs'[t].interrupted_at = in /\ runs'[t].resumed_at = re
  BY <1>1 DEF Row
<1> QED BY <1>2, <1>3, <1>4

\* finalize_run completes a row that is there and keeps its other timestamps.
LEMMA FinalizeFields ==
  ASSUME runs \in [Threads -> Row], NEW t \in Threads, NEW v, FinalizeRun(t, v),
         runs[t].exists
  PROVE  /\ \A u \in Threads : u # t => runs'[u] = runs[u]
         /\ runs'[t].exists /\ runs'[t].completed_at
         /\ runs'[t].review_status = DefaultReviewStatus(v)
         /\ runs'[t].final_status = v.final_status /\ runs'[t].route = v.route
         /\ runs'[t].interrupted_at = runs[t].interrupted_at
         /\ runs'[t].resumed_at = runs[t].resumed_at
BY DEF FinalizeRun, Row

--------------------------------------------------------------------------------
(* Frames of a step of a node, for whoever relies on the shape of its call. *)

\* Nothing of thread t changes.
SameThread(t) ==
  /\ runs'[t] = runs[t] /\ events'[t] = events[t] /\ log'[t] = log[t]
  /\ reports'[t] = reports[t] /\ ckpt'[t] = ckpt[t]

\* A step of a node: the call stays on its thread and goes on, gives up or leaves the
\* graph; it leaves by its interrupt or from the last node.
LEMMA NodeStepGoes ==
  ASSUME GraphInv, ShapeInv, NEW c \in Calls, NodeStep(c)
  PROVE  /\ inv[c].stage \in Running /\ inv'[c].thread = T(c)
         /\ \A d \in Calls : d # c => inv'[d] = inv[d]
         /\ inv'[c].stage \in Running \cup {"raised", "returned"}
         /\ inv'[c].stage = "returned" =>
              Pause(c) \/ (Return(c) /\ inv[c].node = "audit_and_report")
         /\ At(c, "audit_and_report", "return")' => Finalize(c)
<1>1. inv \in [Calls -> Invocation] /\ ShapeOK(c)
  BY DEF GraphInv, GraphTypeOK, ShapeInv
<1>2. inv[c].stage \in Running
  BY DEF NodeStep, IngestContract, ParseAndChunkClauses, ExtractDetailsAndFlagRisk,
     CheckPolicyRules, AutoAdvanceStandardCases, SelectPending, SetPending, Pause,
     SelectCompleted, SetCompleted, Decide, RefuseAnswer, AuditAndReport, ReportFails,
     Finalize, Insert, Line, Return, At, Running
<1>3. CASE \E type, info, result : Emit(c, type, info, result)
  <2>1. /\ inv'[c].stage = "insert" /\ inv'[c].thread = T(c)
        /\ \A d \in Calls : d # c => inv'[d] = inv[d]
    BY <1>1, <1>3, EmitBecomes DEF Becomes
  <2> QED BY <1>2, <2>1 DEF Running, At
<1>4. ASSUME NEW s, Go(c, s), s \in Running \cup {"raised", "returned"},
             s = "return" => Finalize(c) \/ inv[c].node # "audit_and_report",
             s = "returned" => Pause(c)
      PROVE  /\ inv'[c].thread = T(c)
             /\ \A d \in Calls : d # c => inv'[d] = inv[d]
             /\ inv'[c].stage \in Running \cup {"raised", "returned"}
             /\ inv'[c].stage = "returned" => Pause(c)
             /\ At(c, "audit_and_report", "return")' => Finalize(c)
  BY <1>1, <1>4, GoBecomes DEF Becomes, At
<1>5. CASE SelectPending(c) \/ SelectCompleted(c)
  <2>1. ASSUME NEW status, NEW update \in {"set_pending", "set_completed"},
               NEW otherwise \in {"interrupt", "decide"},
               SelectStatus(c, status, update, otherwise)
        PROVE  /\ inv'[c].stage \in {"set_pending", "set_completed", "interrupt", "decide"}
               /\ inv'[c].thread = T(c) /\ \A d \in Calls : d # c => inv'[d] = inv[d]
    BY <1>1, <2>1, SelectBecomes DEF Becomes
  <2>2. /\ inv'[c].stage \in {"set_pending", "set_completed", "interrupt", "decide"}
        /\ inv'[c].thread = T(c) /\ \A d \in Calls : d # c => inv'[d] = inv[d]
    <3>1. CASE SelectPending(c)
      BY <2>1, <3>1 DEF SelectPending
    <3>2. CASE SelectCompleted(c)
      BY <2>1, <3>2 DEF SelectCompleted
    <3> QED BY <1>5, <3>1, <3>2
  <2> QED BY <1>2, <2>2 DEF Running, At
<1>6. CASE Return(c)
  <2>1. /\ inv'[c].stage = IF NextNode(inv[c].node, inv[c].result) = "END" THEN "returned"
                           ELSE "body"
        /\ inv'[c].thread = T(c) /\ \A d \in Calls : d # c => inv'[d] = inv[d]
    BY <1>1, <1>6, ReturnBecomes DEF Becomes
  <2>2. NextNode(inv[c].node, inv[c].result) = "END" => inv[c].node = "audit_and_report"
    BY NextNodeCases
  <2> QED BY <1>2, <1>6, <2>1, <2>2 DEF Running, At
<1>7. CASE \/ ParseAndChunkClauses(c) /\ Go(c, "raised")
           \/ RefuseAnswer(c) \/ ReportFails(c)
  <2>1. Go(c, "raised")
    BY <1>7 DEF RefuseAnswer, ReportFails
  <2> QED BY <1>2, <1>4, <2>1
<1>8. CASE Pause(c) \/ Finalize(c) \/ Insert(c)
  <2>1. PICK s \in {"returned", "return", "line"} :
          /\ Go(c, s) /\ (s = "return" => Finalize(c)) /\ (s = "returned" => Pause(c))
    BY <1>8 DEF Pause, Finalize, Insert
  <2>2. s \in Running \cup {"raised", "returned"}
    BY DEF Running
  <2> QED BY <1>2, <1>4, <2>1, <2>2
<1>9. CASE Line(c)
  <2> DEFINE s == AfterEvent(inv[c].event.type)
  <2>1. Go(c, s) /\ s \in {"interrupt", "decide", "finalize", "return"}
    BY <1>9 DEF Line, AfterEvent
  <2>2. s = "return" => inv[c].node # "audit_and_report"
    BY <1>1, <1>9 DEF Line, ShapeOK, EventsOf, AfterEvent
  <2>3. s \in Running /\ s # "returned"
    BY <2>1 DEF Running
  <2> HIDE DEF s
  <2> QED BY <1>2, <1>4, <2>1, <2>2, <2>3
<1> QED
  BY <1>3, <1>5, <1>6, <1>7, <1>8, <1>9
  DEF NodeStep, IngestContract, IngestFound, IngestMissing, ParseAndChunkClauses,
      ExtractDetailsAndFlagRisk, CheckPolicyRules, AutoAdvanceStandardCases, SetPending,
      SetCompleted, Decide, AuditAndReport

\* A step of a node touches its own thread only.
LEMMA NodeStepFrame ==
  ASSUME GraphInv, ShapeInv, NEW c \in Calls, NodeStep(c)
  PROVE  /\ T(c) \in Threads /\ faults' = faults
         /\ \A t \in Threads : t # T(c) => SameThread(t)
         /\ \A d \in Calls : d # c => unsaved'[d] = unsaved[d]
<1>1. PICK t \in Threads : T(c) = t
  BY NodeStepGoes, CallFacts
<1>2. StoreTypeOK /\ CkptTypeOK
  BY DEF GraphInv
<1>3. /\ faults' = faults
      /\ \A u \in Threads : u # t => runs'[u] = runs[u]
  BY <1>1, <1>2 DEF NodeStep, IngestContract, IngestFound, IngestMissing, RegisterRun,
     ParseAndChunkClauses, ExtractDetailsAndFlagRisk, CheckPolicyRules,
     AutoAdvanceStandardCases, SelectPending, SetPending, Pause, SelectCompleted,
     SetCompleted, UpdateReviewStatus, Decide, RefuseAnswer, AuditAndReport, ReportFails,
     Finalize, FinalizeRun, Insert, Line, Return, storeVars, StoreTypeOK
<1>4. \A u \in Threads : u # t => events'[u] = events[u] /\ log'[u] = log[u]
  BY <1>1, <1>2 DEF NodeStep, IngestContract, ParseAndChunkClauses,
     ExtractDetailsAndFlagRisk, CheckPolicyRules, AutoAdvanceStandardCases, SelectPending,
     SetPending, Pause, SelectCompleted, SetCompleted, Decide, RefuseAnswer, AuditAndReport,
     ReportFails, Finalize, Insert, InsertEvent, Line, AppendLine, Return, storeVars,
     StoreTypeOK
<1>5. \A u \in Threads : u # t => reports'[u] = reports[u]
  BY <1>1, <1>2 DEF NodeStep, IngestContract, ParseAndChunkClauses,
     ExtractDetailsAndFlagRisk, CheckPolicyRules, AutoAdvanceStandardCases, SelectPending,
     SetPending, Pause, SelectCompleted, SetCompleted, Decide, RefuseAnswer, AuditAndReport,
     WriteReport, ReportFails, Finalize, Insert, Line, Return, storeVars, StoreTypeOK
<1>6. /\ \A u \in Threads : u # t => ckpt'[u] = ckpt[u]
      /\ \A d \in Calls : d # c => unsaved'[d] = unsaved[d]
  <2>1. CASE \E next, values, paused : MakeCheckpoint(c, next, values, paused)
    BY <1>2, <2>1, MakeJoins
  <2>2. CASE SelectCompleted(c)
    BY <1>1, <1>2, <2>2, KeepAnswerFields DEF SelectCompleted
  <2>3. CASE UNCHANGED ckptVars
    BY <2>3 DEF ckptVars
  <2> QED
    BY <2>1, <2>2, <2>3 DEF NodeStep, IngestContract, ParseAndChunkClauses,
       ExtractDetailsAndFlagRisk, CheckPolicyRules, AutoAdvanceStandardCases, SelectPending,
       SetPending, Pause, SetCompleted, Decide, RefuseAnswer, AuditAndReport, ReportFails,
       Finalize, Insert, Line, Return
<1> QED BY <1>1, <1>3, <1>4, <1>5, <1>6 DEF SameThread

--------------------------------------------------------------------------------
(* Threads whose calls do not overlap: frames. *)

\* A step of call c, the only one at thread t, that leaves c and the thread in order.
LEMMA SerialStep ==
  ASSUME GraphInv, SerialInv, ShapeInv', NEW c \in Calls, NEW t \in Threads,
         \A d \in Calls : d # c /\ Active(d) => T(d) # t,
         inv'[c].thread = t,
         \A d \in Calls : d # c => inv'[d] = inv[d] /\ unsaved'[d] = unsaved[d],
         \A u \in Threads : u # t => SameThread(u),
         SoleCallOK(c)', CheckpointOK(t, ckpt[t])'
  PROVE  SerialInv'
<1>1. ASSUME NEW d \in Calls, d # c PROVE (Active(d)' <=> Active(d)) /\ T(d)' = T(d)
  BY <1>1 DEF Active, T
<1>2. T(c)' = t
  BY DEF T
<1>3. Sole'
  BY <1>1, <1>2 DEF Sole, SerialInv
<1>4. ASSUME NEW d \in Calls, d # c PROVE SoleCallOK(d)'
  <2>1. SoleCallOK(d) /\ CallOK(d) /\ inv'[d] = inv[d] /\ unsaved'[d] = unsaved[d]
    BY <1>4 DEF SerialInv, GraphInv
  <2>2. CASE Active(d)
    <3>1. PICK u \in Threads : T(d) = u
      BY <2>1, <2>2 DEF CallOK, T
    <3>2. SameThread(u)
      BY <1>4, <2>2, <3>1
    <3> QED BY <2>1, <3>1, <3>2 DEF SoleCallOK, DecidedOK, WritesOK, LastOK, MissingOK,
            Concluding, Writing, At, V, T, ReportTells, RowTells, Told, CheckpointOK, Active,
            Interrupted, SameThread
  <2>3. CASE ~Active(d)
    <3>1. inv[d].stage \notin Running /\ inv[d].stage # "return"
      BY <2>3 DEF Active, Running
    <3> QED BY <1>1, <1>4, <2>1, <2>3, <3>1 DEF SoleCallOK, DecidedOK, WritesOK, LastOK,
            MissingOK, At, V, T, Running
  <2> QED BY <2>2, <2>3
<1>5. ASSUME NEW u \in Threads, u # t PROVE CheckpointOK(u, ckpt[u])'
  BY <1>5 DEF SerialInv, SameThread, CheckpointOK
<1> QED BY <1>3, <1>4, <1>5 DEF SerialInv

\* The call has the thread to itself.
LEMMA SoleAtThread ==
  ASSUME SerialInv, NEW c \in Calls, NEW t \in Threads, T(c) = t, Active(c)
  PROVE  \A d \in Calls : d # c /\ Active(d) => T(d) # t
BY DEF SerialInv, Sole

\* What a running call of the thread can count on.
LEMMA SerialFacts ==
  ASSUME GraphInv, SerialInv, NEW c \in Calls, inv[c].stage \in Running
  PROVE  /\ T(c) \in Threads /\ Active(c) /\ ShapeInv /\ ShapeOK(c)
         /\ inv \in [Calls -> Invocation] /\ V(c) \in Values /\ inv[c].result \in Values
         /\ StoreTypeOK /\ CkptTypeOK /\ runs \in [Threads -> Row]
         /\ DecidedOK(c) /\ WritesOK(c) /\ LastOK(c) /\ MissingOK(c)
         /\ CheckpointOK(T(c), ckpt[T(c)])
BY CallFacts DEF SerialInv, SoleCallOK, ShapeInv, GraphInv, GraphTypeOK, StoreTypeOK

\* A step that makes and saves no checkpoint.
LEMMA SerialLast ==
  ASSUME GraphInv, SerialInv, NEW c \in Calls, NEW t \in Threads, T(c) = t, Active(c),
         inv'[c].thread = t, inv'[c].node = inv[c].node, inv'[c].values = V(c),
         inv'[c].stage # "checked", unsaved' = unsaved,
         ckpt'[t].id = ckpt[t].id, ckpt'[t].next = ckpt[t].next,
         ckpt'[t].values = ckpt[t].values, runs[t].exists => runs'[t].exists
  PROVE  LastOK(c)' /\ CheckpointOK(t, ckpt[t])'
<1>1. LastOK(c) /\ CheckpointOK(t, ckpt[t])
  BY DEF SerialInv, SoleCallOK
<1>2. CheckpointOK(t, ckpt[t])'
  BY <1>1 DEF CheckpointOK
<1>3. \A k \in unsaved[c] : CheckpointOK(t, k) => CheckpointOK(t, k)'
  BY DEF CheckpointOK
<1>4. \A k \in unsaved[c] : k.id > ckpt'[t].id /\ CheckpointOK(t, k)'
  BY <1>1, <1>3 DEF LastOK, T
<1> QED BY <1>1, <1>2, <1>4 DEF LastOK, T, V

--------------------------------------------------------------------------------
(* Statements that make no checkpoint. *)

\* The call goes on at its node.
LEMMA SerialGoes ==
  ASSUME GraphInv, SerialInv, ShapeInv', NEW c \in Calls, inv[c].stage \in Running,
         NEW t \in Threads, T(c) = t,
         NEW stage, stage # "checked", NEW result, NEW event, NEW read,
         Becomes(c, stage, inv[c].node, V(c), result, event, read),
         unsaved' = unsaved, ckpt'[t].id = ckpt[t].id, ckpt'[t].next = ckpt[t].next,
         ckpt'[t].values = ckpt[t].values, runs[t].exists => runs'[t].exists,
         \A u \in Threads : u # t => SameThread(u),
         DecidedOK(c)', WritesOK(c)', MissingOK(c)'
  PROVE  SerialInv'
<1>1. Active(c)
  BY DEF Active
<1>2. LastOK(c)' /\ CheckpointOK(t, ckpt[t])'
  BY <1>1, SerialLast DEF Becomes
<1>3. SoleCallOK(c)'
  BY <1>2 DEF SoleCallOK
<1> QED BY <1>1, <1>2, <1>3, SoleAtThread, SerialStep DEF Becomes

\* The node has its update, and is to append an event; whatever leads to the report is
\* decided.
LEMMA SerialEmits ==
  ASSUME GraphInv, SerialInv, ShapeInv', NEW c \in Calls, inv[c].stage \in Running,
         NEW t \in Threads, T(c) = t, inv[c].node # "audit_and_report",
         NEW type, NEW info, NEW w, Emit(c, type, info, w),
         UNCHANGED ckptVars, runs'[t].exists, \A u \in Threads : u # t => SameThread(u),
         type \notin {"human_review_pending", "human_review_resumed"} =>
           Sound(w) /\ (NextNode(inv[c].node, w) = "audit_and_report" => Decided(w)),
         inv[c].document = "missing" =>
           /\ runs'[t].route = "audit_only"
           /\ w.final_status = "failed" /\ w.route = "audit_only"
  PROVE  SerialInv'
<1>1. /\ inv \in [Calls -> Invocation] /\ DecidedOK(c) /\ MissingOK(c) /\ inv[c].node \in Nodes
      /\ UNCHANGED <<ckpt, unsaved, clock>>
  BY SerialFacts DEF ckptVars, ShapeOK
<1>2. /\ Becomes(c, "insert", inv[c].node, V(c), w, [type |-> type, info |-> info],
                 inv[c].read)
      /\ inv'[c].event.type = type
  BY <1>1, EmitBecomes
<1>3. DecidedOK(c)'
  BY <1>1, <1>2 DEF Becomes, DecidedOK, Concluding, Writing, V, Running
<1>4. WritesOK(c)'
  BY <1>1, <1>2 DEF Becomes, WritesOK, At, T, Nodes
<1>5. MissingOK(c)'
  BY <1>1, <1>2 DEF Becomes, MissingOK, At, T
<1> QED BY <1>1, <1>2, <1>3, <1>4, <1>5, SerialGoes

\* The node raises.
LEMMA SerialRaises ==
  ASSUME GraphInv, SerialInv, ShapeInv', NEW c \in Calls, inv[c].stage \in Running,
         NEW t \in Threads, T(c) = t,
         Becomes(c, "raised", inv[c].node, V(c), inv[c].result, inv[c].event, inv[c].read),
         unsaved' = unsaved, ckpt'[t].id = ckpt[t].id, ckpt'[t].next = ckpt[t].next,
         ckpt'[t].values = ckpt[t].values, runs' = runs,
         \A u \in Threads : u # t => SameThread(u)
  PROVE  SerialInv'
<1>1. MissingOK(c) /\ inv[c].node \in Nodes
  BY SerialFacts DEF ShapeOK
<1>2. DecidedOK(c)'
  BY DEF Becomes, DecidedOK, Running
<1>3. WritesOK(c)'
  BY <1>1 DEF Becomes, WritesOK, At, Running, Nodes
<1>4. MissingOK(c)'
  BY <1>1 DEF Becomes, MissingOK, Running
<1> QED BY <1>2, <1>3, <1>4, SerialGoes

\* ingest_contract.
LEMMA SerialIngest ==
  ASSUME GraphInv, SerialInv, ShapeInv', NEW c \in Calls, IngestContract(c)
  PROVE  SerialInv'
<1>1. /\ inv[c].stage = "body" /\ inv[c].node = "ingest_contract" /\ inv[c].stage \in Running
      /\ UNCHANGED <<events, log, reports, ckpt, unsaved, clock>> /\ UNCHANGED ckptVars
  BY DEF IngestContract, At, Running, ckptVars
<1>2. PICK t \in Threads : T(c) = t
  BY <1>1, SerialFacts
<1>3. V(c) \in Values /\ Sound(V(c)) /\ runs \in [Threads -> Row]
  BY <1>1, SerialFacts DEF DecidedOK
<1>4. CASE IngestFound(c)
  <2> DEFINE w == [V(c) EXCEPT !.parse_status = "pending",
                               !.review_status = "not_required"]
  <2>1. RegisterRun(t, Null, Null) /\ Emit(c, "ingested", Null, w) /\ inv[c].document # "missing"
    BY <1>2, <1>4 DEF IngestFound
  <2>2. Sound(w) /\ w.final_status = V(c).final_status
    BY <1>3 DEF Sound, Values
  <2> HIDE DEF w
  <2>3. NextNode("ingest_contract", w) = "audit_and_report" => Decided(w)
    BY <2>2 DEF NextNode, AfterIngest, Decided, Null
  <2>4. runs'[t].exists /\ \A u \in Threads : u # t => SameThread(u)
    BY <1>1, <1>3, <2>1, RegisterFields DEF SameThread
  <2> QED BY <1>1, <1>2, <2>1, <2>2, <2>3, <2>4, SerialEmits
<1>5. CASE IngestMissing(c)
  <2> DEFINE w == [V(c) EXCEPT !.final_status = "failed", !.route = "audit_only",
                               !.review_status = "not_required"]
  <2>1. RegisterRun(t, "failed", "audit_only") /\ Emit(c, "ingest_failed", Null, w)
    BY <1>2, <1>5 DEF IngestMissing
  <2>2. Decided(w) /\ Sound(w) /\ w.final_status = "failed" /\ w.route = "audit_only"
    BY <1>3 DEF Decided, Sound, Values, Null
  <2> HIDE DEF w
  <2>3. runs'[t].exists /\ \A u \in Threads : u # t => SameThread(u)
    BY <1>1, <1>3, <2>1, RegisterFields DEF SameThread
  <2>4. runs'[t].route = "audit_only"
    BY <1>3, <2>1, RegisterFields DEF Coalesce, Null
  <2> QED BY <1>1, <1>2, <2>1, <2>2, <2>3, <2>4, SerialEmits
<1> QED BY <1>4, <1>5 DEF IngestContract

\* The nodes from parsing to the automatic approval: each ends in an event or in an error.
LEMMA SerialNodes ==
  ASSUME GraphInv, SerialInv, ShapeInv', NEW c \in Calls,
         \/ ParseAndChunkClauses(c) \/ ExtractDetailsAndFlagRisk(c)
         \/ CheckPolicyRules(c) \/ AutoAdvanceStandardCases(c)
  PROVE  SerialInv'
<1> DEFINE n == inv[c].node
<1>1. /\ inv[c].stage = "body" /\ inv[c].stage \in Running
      /\ n \in {"parse_and_chunk_clauses", "extract_details_and_flag_risk",
                "check_policy_rules", "auto_advance_standard_cases"}
      /\ UNCHANGED ckptVars /\ UNCHANGED <<runs, events, log, reports, ckpt, unsaved>>
  BY DEF ParseAndChunkClauses, ExtractDetailsAndFlagRisk, CheckPolicyRules,
     AutoAdvanceStandardCases, At, Running, ckptVars, storeVars
<1>2. PICK t \in Threads : T(c) = t
  BY <1>1, SerialFacts
<1>3. /\ V(c) \in Values /\ Sound(V(c)) /\ runs[t].exists /\ inv[c].document # "missing"
      /\ n = "auto_advance_standard_cases" => V(c).route # Null
      /\ inv \in [Calls -> Invocation]
  BY <1>1, <1>2, SerialFacts DEF DecidedOK, WritesOK, MissingOK, At
<1>4. \A u \in Threads : u # t => SameThread(u)
  BY <1>1 DEF SameThread
<1>5. ASSUME NEW type, NEW w, Emit(c, type, Null, w), Sound(w),
             NextNode(n, w) = "audit_and_report" => Decided(w)
      PROVE  SerialInv'
  BY <1>1, <1>2, <1>3, <1>4, <1>5, SerialEmits
<1>6. CASE ParseAndChunkClauses(c)
  <2>1. ASSUME Emit(c, "parsed", Null, [V(c) EXCEPT !.parse_status = "parsed"])
        PROVE  SerialInv'
    <3> DEFINE w == [V(c) EXCEPT !.parse_status = "parsed"]
    <3>1. Sound(w) /\ w.parse_status = "parsed" /\ Emit(c, "parsed", Null, w)
      BY <1>3, <2>1 DEF Sound, Values
    <3>2. n = "parse_and_chunk_clauses"
      BY <1>6 DEF ParseAndChunkClauses, At
    <3> HIDE DEF w
    <3>3. NextNode(n, w) # "audit_and_report"
      BY <3>1, <3>2 DEF NextNode, AfterParse
    <3> QED BY <1>5, <3>1, <3>3
  <2>2. ASSUME Emit(c, "parse_unsupported", Null,
                    [V(c) EXCEPT !.parse_status = "needs_manual_parse",
                                 !.route = "audit_only",
                                 !.final_status = "needs_manual_parse"])
        PROVE  SerialInv'
    <3> DEFINE w == [V(c) EXCEPT !.parse_status = "needs_manual_parse",
                                 !.route = "audit_only",
                                 !.final_status = "needs_manual_parse"]
    <3>1. Decided(w) /\ Emit(c, "parse_unsupported", Null, w)
      BY <1>3, <2>2 DEF Decided, Sound, Values, Null
    <3> HIDE DEF w
    <3> QED BY <1>5, <3>1 DEF Decided
  <2>3. ASSUME Go(c, "raised") PROVE SerialInv'
    BY <1>1, <1>2, <1>3, <1>4, <2>3, GoBecomes, SerialRaises
  <2> QED BY <1>6, <2>1, <2>2, <2>3 DEF ParseAndChunkClauses
<1>7. Decided(FailedValues(c))
  BY <1>3 DEF FailedValues, Decided, Sound, Values, Null
<1>8. CASE ExtractDetailsAndFlagRisk(c)
  <2>1. ASSUME NEW x \in Extractions,
               Emit(c, "extracted", Null, [V(c) EXCEPT !.extractions = x, !.printable = TRUE])
        PROVE  SerialInv'
    <3> DEFINE w == [V(c) EXCEPT !.extractions = x, !.printable = TRUE]
    <3>1. Sound(w) /\ Emit(c, "extracted", Null, w)
      BY <1>3, <2>1 DEF Sound, Values
    <3>2. n = "extract_details_and_flag_risk"
      BY <1>8 DEF ExtractDetailsAndFlagRisk, At
    <3> HIDE DEF w
    <3>3. NextNode(n, w) # "audit_and_report"
      BY <3>2 DEF NextNode
    <3> QED BY <1>5, <3>1, <3>3
  <2> QED BY <1>5, <1>7, <1>8, <2>1 DEF ExtractDetailsAndFlagRisk, Decided
<1>9. CASE CheckPolicyRules(c)
  <2>1. ASSUME Emit(c, "policy_evaluated", Null,
                    [V(c) EXCEPT !.route = EvaluatePolicy(V(c).extractions)])
        PROVE  SerialInv'
    <3> DEFINE r == EvaluatePolicy(V(c).extractions)
               w == [V(c) EXCEPT !.route = r]
    <3>1. r \in {"auto_advance", "human_review"} /\ r # Null
      BY DEF EvaluatePolicy, Null
    <3> HIDE DEF r
    <3>2. Sound(w) /\ w.route = r
      BY <1>3, <3>1 DEF Sound, Values
    <3>3. Emit(c, "policy_evaluated", Null, w) /\ n = "check_policy_rules"
      BY <1>9, <2>1 DEF CheckPolicyRules, At, r
    <3> HIDE DEF w
    <3>4. NextNode(n, w) # "audit_and_report"
      BY <3>1, <3>2, <3>3 DEF NextNode, AfterPolicy
    <3> QED BY <1>5, <3>2, <3>3, <3>4
  <2> QED BY <1>5, <1>7, <1>9, <2>1 DEF CheckPolicyRules, Decided
<1>10. CASE AutoAdvanceStandardCases(c)
  <2> DEFINE w == [V(c) EXCEPT !.final_status = "approved_automatically",
                               !.review_status = "not_required",
                               !.decision = "auto_approve"]
  <2>1. n = "auto_advance_standard_cases" /\ Emit(c, "auto_approved", Null, w)
    BY <1>10 DEF AutoAdvanceStandardCases, At
  <2>2. Decided(w)
    BY <1>3, <2>1 DEF Decided, Sound, Values, Null
  <2> HIDE DEF w
  <2> QED BY <1>5, <2>1, <2>2 DEF Decided
<1> QED BY <1>6, <1>8, <1>9, <1>10

--------------------------------------------------------------------------------
(* human_review, audit_and_report, and append_event. *)

\* The SELECT of a review transition: what it has read is what the row says, for nobody
\* else writes it.
LEMMA SerialSelect ==
  ASSUME GraphInv, SerialInv, ShapeInv', NEW c \in Calls,
         SelectPending(c) \/ SelectCompleted(c)
  PROVE  SerialInv'
<1>1. /\ inv[c].stage \in {"body", "interrupt"} /\ inv[c].node = "human_review"
      /\ inv[c].stage \in Running
      /\ UNCHANGED <<runs, events, log, reports>>
  <2>1. ShapeOK(c)
    BY DEF SerialInv, ShapeInv
  <2> QED BY <2>1 DEF SelectPending, SelectCompleted, At, Running, storeVars
<1>2. PICK t \in Threads : T(c) = t
  BY <1>1, SerialFacts
<1>3. /\ inv \in [Calls -> Invocation] /\ CkptTypeOK /\ DecidedOK(c) /\ runs[t].exists
      /\ inv[c].document # "missing"
  BY <1>1, <1>2, SerialFacts DEF WritesOK, MissingOK, At
<1>4. UNCHANGED ckptVars \/ KeepAnswer(t, inv[c].answer)
  BY <1>2 DEF SelectPending, SelectCompleted
<1>5. /\ unsaved' = unsaved /\ ckpt'[t].id = ckpt[t].id /\ ckpt'[t].next = ckpt[t].next
      /\ ckpt'[t].values = ckpt[t].values
      /\ \A u \in Threads : u # t => ckpt'[u] = ckpt[u]
  BY <1>2, <1>3, <1>4, KeepAnswerFields DEF ckptVars
<1>6. \A u \in Threads : u # t => SameThread(u)
  BY <1>1, <1>5 DEF SameThread
<1>7. ASSUME NEW status, NEW update \in {"set_pending", "set_completed"},
             NEW otherwise \in {"interrupt", "decide"},
             SelectStatus(c, status, update, otherwise)
      PROVE  SerialInv'
  <2> DEFINE s == IF WillTransition(T(c), status) THEN update ELSE otherwise
  <2>1. /\ Becomes(c, s, inv[c].node, V(c), inv[c].result, inv[c].event, inv'[c].read)
        /\ inv'[c].read.interrupted_at = runs[t].interrupted_at
        /\ inv'[c].read.resumed_at = runs[t].resumed_at
    BY <1>2, <1>3, <1>7, SelectBecomes
  <2>2. s \in {"set_pending", "set_completed", "interrupt", "decide"} /\ s \in Running
    BY DEF Running
  <2> HIDE DEF s
  <2>3. DecidedOK(c)'
    BY <1>1, <1>3, <2>1, <2>2 DEF Becomes, DecidedOK, Concluding, V
  <2>4. WritesOK(c)'
    BY <1>1, <1>2, <1>3, <2>1, <2>2 DEF Becomes, WritesOK, At, T
  <2>5. MissingOK(c)'
    BY <1>3, <2>1 DEF Becomes, MissingOK
  <2> QED BY <1>1, <1>2, <1>5, <1>6, <2>1, <2>2, <2>3, <2>4, <2>5, SerialGoes
<1>8. CASE SelectPending(c)
  BY <1>7, <1>8 DEF SelectPending
<1>9. CASE SelectCompleted(c)
  BY <1>7, <1>9 DEF SelectCompleted
<1> QED BY <1>8, <1>9

\* The UPDATE of a review transition, and the reviewer's decision.
LEMMA SerialReview ==
  ASSUME GraphInv, SerialInv, ShapeInv', NEW c \in Calls,
         SetPending(c) \/ SetCompleted(c) \/ Decide(c)
  PROVE  SerialInv'
<1>1. /\ inv[c].stage \in {"set_pending", "set_completed", "decide"}
      /\ inv[c].node = "human_review" /\ inv[c].stage \in Running
      /\ UNCHANGED <<events, log, reports, ckpt, unsaved, clock>> /\ UNCHANGED ckptVars
  BY DEF SetPending, SetCompleted, Decide, At, Running, storeVars, ckptVars
<1>2. PICK t \in Threads : T(c) = t
  BY <1>1, SerialFacts
<1>3. /\ V(c) \in Values /\ Sound(V(c)) /\ V(c).route # Null /\ runs \in [Threads -> Row]
      /\ runs[t].exists /\ inv[c].document # "missing"
  BY <1>1, <1>2, SerialFacts DEF DecidedOK, WritesOK, MissingOK, At
<1>4. ASSUME NEW status, NEW type \in {"human_review_pending", "human_review_resumed"},
             UpdateReviewStatus(t, status, inv[c].read), Emit(c, type, Null, V(c))
      PROVE  SerialInv'
  <2>1. runs'[t].exists /\ \A u \in Threads : u # t => SameThread(u)
    BY <1>1, <1>3, <1>4, TransitionFields DEF SameThread
  <2> QED BY <1>1, <1>2, <1>3, <1>4, <2>1, SerialEmits
<1>5. CASE SetPending(c) \/ SetCompleted(c)
  BY <1>2, <1>4, <1>5 DEF SetPending, SetCompleted
<1>6. CASE Decide(c)
  <2>1. PICK v \in Edited(c) :
          LET d == inv[c].answer.decision
          IN  Emit(c, "human_review_completed", d,
                   [v EXCEPT !.decision = d, !.review_status = "completed",
                             !.final_status = Verdict(d)])
    BY <1>6 DEF Decide
  <2> DEFINE d == inv[c].answer.decision
             f == Verdict(d)
             w == [v EXCEPT !.decision = d, !.review_status = "completed",
                            !.final_status = f]
  <2>2. Emit(c, "human_review_completed", d, w)
    BY <2>1
  <2>3. v \in Values /\ v.route = V(c).route
    <3>1. \A x \in Extractions : [V(c) EXCEPT !.extractions = x].route = V(c).route
      BY <1>3 DEF Values
    <3>2. [V(c) EXCEPT !.printable = FALSE].route = V(c).route
      BY <1>3 DEF Values
    <3>3. v.route = V(c).route
      BY <2>1, <3>1, <3>2 DEF Edited
    <3> QED BY <1>3, <2>1, <3>3, EditedType
  <2>4. f # Null
    BY DEF Verdict, Null
  <2> HIDE DEF d, f
  <2>5. Decided(w)
    BY <1>3, <2>3, <2>4 DEF Decided, Sound, Values
  <2> HIDE DEF w
  <2>6. runs'[t].exists /\ \A u \in Threads : u # t => SameThread(u)
    BY <1>1, <1>3, <1>6 DEF Decide, storeVars, SameThread
  <2> QED BY <1>1, <1>2, <1>3, <2>2, <2>5, <2>6, SerialEmits DEF Decided
<1> QED BY <1>5, <1>6

\* An answer that cannot be taken, and a report that cannot be printed.
LEMMA SerialRefuse ==
  ASSUME GraphInv, SerialInv, ShapeInv', NEW c \in Calls, RefuseAnswer(c) \/ ReportFails(c)
  PROVE  SerialInv'
<1>1. /\ inv[c].stage \in Running /\ Go(c, "raised")
      /\ UNCHANGED <<runs, events, log, reports, ckpt, unsaved>>
  BY DEF RefuseAnswer, ReportFails, At, Running, storeVars, ckptVars
<1>2. PICK t \in Threads : T(c) = t
  BY <1>1, SerialFacts
<1>3. Becomes(c, "raised", inv[c].node, V(c), inv[c].result, inv[c].event, inv[c].read)
  BY <1>1, SerialFacts, GoBecomes
<1> QED BY <1>1, <1>2, <1>3, SerialRaises DEF SameThread

\* audit_and_report: the report tells what the row is to tell.
LEMMA SerialReport ==
  ASSUME GraphInv, SerialInv, ShapeInv', NEW c \in Calls, AuditAndReport(c) \/ Finalize(c)
  PROVE  SerialInv'
<1>1. /\ inv[c].stage \in {"body", "finalize"} /\ inv[c].stage \in Running
      /\ inv[c].node = "audit_and_report"
      /\ UNCHANGED <<events, log, ckpt, unsaved>>
  BY DEF AuditAndReport, Finalize, At, Running, ckptVars
<1>2. PICK t \in Threads : T(c) = t
  BY <1>1, SerialFacts
<1>3. /\ inv \in [Calls -> Invocation] /\ DecidedOK(c) /\ WritesOK(c) /\ MissingOK(c)
      /\ Decided(V(c)) /\ runs[t].exists
      /\ runs \in [Threads -> Row] /\ reports \in [Threads -> Report]
  BY <1>1, <1>2, SerialFacts DEF DecidedOK, WritesOK, At, StoreTypeOK
<1>4. NextNode("audit_and_report", V(c)) = "END"
  BY NextNodeCases
<1>5. CASE AuditAndReport(c)
  <2>1. /\ inv[c].stage = "body" /\ runs' = runs /\ WriteReport(t, V(c))
        /\ Emit(c, "report_written", V(c).final_status, V(c))
    BY <1>2, <1>5 DEF AuditAndReport, At
  <2>2. ReportTells(t, V(c))' /\ \A u \in Threads : u # t => SameThread(u)
    <3>1. /\ reports'[t].written /\ reports'[t].final_status = V(c).final_status
          /\ \A u \in Threads : u # t => reports'[u] = reports[u]
      BY <1>3, <2>1 DEF WriteReport
    <3>2. V(c)' = V(c)
      BY <1>3, <2>1, EmitBecomes DEF Becomes, V
    <3> QED BY <1>1, <2>1, <3>1, <3>2 DEF ReportTells, SameThread
  <2>3. /\ Becomes(c, "insert", inv[c].node, V(c), V(c),
                   [type |-> "report_written", info |-> V(c).final_status], inv[c].read)
        /\ inv'[c].event.type = "report_written"
    BY <1>3, <2>1, EmitBecomes
  <2>4. DecidedOK(c)'
    BY <1>1, <1>3, <1>4, <2>3 DEF Becomes, DecidedOK, Concluding, V, Decided
  <2>5. WritesOK(c)'
    BY <1>1, <1>2, <1>3, <2>1, <2>2, <2>3 DEF Becomes, WritesOK, At, T, V
  <2>6. MissingOK(c)'
    BY <1>1, <1>2, <2>1, <1>3, <2>3 DEF Becomes, MissingOK, At, T, V, Running
  <2> QED BY <1>1, <1>2, <2>1, <2>2, <2>3, <2>4, <2>5, <2>6, SerialGoes
<1>6. CASE Finalize(c)
  <2>1. /\ inv[c].stage = "finalize" /\ reports' = reports /\ FinalizeRun(t, V(c))
        /\ Becomes(c, "return", inv[c].node, V(c), inv[c].result, inv[c].event, inv[c].read)
    BY <1>2, <1>3, <1>6, GoBecomes DEF Finalize, At
  <2>2. /\ \A u \in Threads : u # t => runs'[u] = runs[u]
        /\ runs'[t].exists /\ runs'[t].completed_at
        /\ runs'[t].review_status = DefaultReviewStatus(V(c))
        /\ runs'[t].final_status = V(c).final_status /\ runs'[t].route = V(c).route
    BY <1>3, <2>1, FinalizeFields
  <2>3. runs'[t].review_status # "pending"
    BY <1>3, <2>2 DEF Decided, Sound, DefaultReviewStatus, Coalesce
  <2>4. inv[c].result = V(c) /\ ReportTells(t, V(c))
    BY <1>1, <1>2, <1>3, <2>1 DEF DecidedOK, WritesOK
  <2>5. DecidedOK(c)'
    BY <1>1, <1>3, <1>4, <2>1, <2>4 DEF Becomes, DecidedOK, Concluding, V, Decided
  <2>6. WritesOK(c)'
    BY <1>1, <1>2, <2>1, <2>2, <2>3, <2>4
    DEF Becomes, WritesOK, At, T, V, ReportTells, RowTells
  <2>7. MissingOK(c)'
    BY <1>1, <1>2, <1>3, <2>1, <2>2 DEF Becomes, MissingOK, At, T, V, Running
  <2>8. \A u \in Threads : u # t => SameThread(u)
    BY <1>1, <2>1, <2>2 DEF SameThread
  <2> QED BY <1>1, <1>2, <2>1, <2>2, <2>5, <2>6, <2>7, <2>8, SerialGoes
<1> QED BY <1>5, <1>6

\* The two writes of append_event.
LEMMA SerialWrites ==
  ASSUME GraphInv, SerialInv, ShapeInv', NEW c \in Calls, Insert(c) \/ Line(c)
  PROVE  SerialInv'
<1>1. /\ inv[c].stage \in {"insert", "line"} /\ inv[c].stage \in Running
      /\ UNCHANGED <<runs, reports, ckpt, unsaved>>
  BY DEF Insert, Line, Running, ckptVars
<1>2. PICK t \in Threads : T(c) = t
  BY <1>1, SerialFacts
<1>3. /\ inv \in [Calls -> Invocation] /\ DecidedOK(c) /\ WritesOK(c) /\ MissingOK(c)
      /\ inv[c].event.type \in EventsOf(inv[c].node) /\ inv[c].node \in Nodes
      /\ StoreTypeOK
  BY <1>1, <1>2, SerialFacts DEF ShapeOK
<1>4. \A u \in Threads : u # t => SameThread(u)
  BY <1>1, <1>2, <1>3 DEF Insert, Line, InsertEvent, AppendLine, StoreTypeOK, SameThread
<1>5. PICK s : /\ Go(c, s)
               /\ \/ s = "line" /\ inv[c].stage = "insert"
                  \/ s = AfterEvent(inv[c].event.type) /\ inv[c].stage = "line"
  BY DEF Insert, Line
<1>6. Becomes(c, s, inv[c].node, V(c), inv[c].result, inv[c].event, inv[c].read)
  BY <1>3, <1>5, GoBecomes
<1>7. /\ s \in {"line", "interrupt", "decide", "finalize", "return"} /\ s \in Running
      /\ s = "return" =>
           inv[c].event.type \notin {"human_review_pending", "human_review_resumed",
                                     "report_written"}
  BY <1>5 DEF AfterEvent, Running
<1>8. s = "return" => inv[c].node # "audit_and_report"
  BY <1>3, <1>7 DEF EventsOf
<1>9. DecidedOK(c)'
  BY <1>1, <1>3, <1>6, <1>7 DEF Becomes, DecidedOK, Concluding, Writing, V
<1>10. WritesOK(c)'
  <2>1. ReportTells(t, V(c)) => ReportTells(t, V(c))'
    BY <1>1, <1>6 DEF Becomes, ReportTells, V
  <2> QED BY <1>1, <1>2, <1>3, <1>6, <1>7, <1>8, <2>1 DEF Becomes, WritesOK, At, T, V, Nodes
<1>11. MissingOK(c)'
  BY <1>1, <1>2, <1>3, <1>6, <1>7 DEF Becomes, MissingOK, At, T, V
<1> QED BY <1>1, <1>2, <1>4, <1>6, <1>7, <1>9, <1>10, <1>11, SerialGoes

--------------------------------------------------------------------------------
(* Checkpoints. *)

\* The checkpoints of a call that is not at the end are those of a run under way.
LEMMA UnderWay ==
  ASSUME GraphInv, SerialInv, NEW c \in Calls, inv[c].stage \in Running,
         NEW t \in Threads, T(c) = t
  PROVE  /\ clock \in Nat /\ ckpt[t].id \in Nat /\ ckpt[t].id <= clock
         /\ \A k \in unsaved[c] : /\ k.id \in Nat /\ k.id <= clock /\ k.id > ckpt[t].id
                                  /\ CheckpointOK(t, k) /\ k.next # "END"
<1>1. /\ LastOK(c) /\ UnsavedOK(c) /\ Active(c) /\ CkptTypeOK /\ inv[c].node # "END"
      /\ SavedOK(t)
  BY SerialFacts DEF ShapeInv, ShapeOK, Nodes
<1>2. clock \in Nat /\ ckpt[t].id \in Nat /\ \A k \in unsaved[c] : k.id \in Nat
  BY <1>1 DEF CkptTypeOK, Checkpoint
<1> QED BY <1>1, <1>2 DEF LastOK, UnsavedOK, SavedOK

\* A pause: the reviewer's thread has a row and a route.
LEMMA SerialPause ==
  ASSUME GraphInv, SerialInv, ShapeInv', NEW c \in Calls, Pause(c)
  PROVE  SerialInv'
<1>1. /\ inv[c].stage = "interrupt" /\ inv[c].stage \in Running /\ inv[c].node = "human_review"
      /\ UNCHANGED <<runs, events, log, reports>> /\ Go(c, "returned")
  BY DEF Pause, At, Running, storeVars
<1>2. PICK t \in Threads : T(c) = t
  BY <1>1, SerialFacts
<1>3. /\ inv \in [Calls -> Invocation] /\ CkptTypeOK /\ Active(c)
      /\ Sound(V(c)) /\ V(c).route # Null /\ runs[t].exists /\ inv[c].document # "missing"
      /\ CheckpointOK(t, ckpt[t])
  BY <1>1, <1>2, SerialFacts DEF DecidedOK, WritesOK, MissingOK, At
<1>4. Becomes(c, "returned", "human_review", V(c), inv[c].result, inv[c].event, inv[c].read)
  BY <1>1, <1>3, GoBecomes
<1> DEFINE paused == TRUE
<1>5. MakeCheckpoint(c, "human_review", V(c), paused)
  BY DEF Pause
<1> HIDE DEF paused
<1>6. PICK k : /\ k.id = clock + 1 /\ k.next = "human_review" /\ k.values = V(c)
               /\ unsaved'[c] = unsaved[c] \cup {k}
               /\ \A d \in Calls : d # c => unsaved'[d] = unsaved[d]
               /\ ckpt' = ckpt
  BY <1>3, <1>5, MakeJoins
<1>7. CheckpointOK(t, k) /\ k.next # "END"
  BY <1>3, <1>6 DEF CheckpointOK
<1>8. k.id > ckpt[t].id
  BY <1>1, <1>2, <1>6, UnderWay
<1>9. \A x \in unsaved'[c] : x.id > ckpt[t].id /\ CheckpointOK(t, x) /\ x.next # "END"
  BY <1>1, <1>2, <1>6, <1>7, <1>8, UnderWay
<1>10. \A x : CheckpointOK(t, x) => CheckpointOK(t, x)'
  BY <1>1 DEF CheckpointOK
<1>11. LastOK(c)'
  BY <1>2, <1>4, <1>6, <1>9, <1>10 DEF LastOK, Becomes, T, V
<1>12. CheckpointOK(t, ckpt[t])'
  BY <1>1, <1>3, <1>6 DEF CheckpointOK
<1>13. SoleCallOK(c)'
  BY <1>3, <1>4, <1>11
  DEF SoleCallOK, DecidedOK, WritesOK, MissingOK, Becomes, Running, At
<1>14. \A u \in Threads : SameThread(u)
  BY <1>1, <1>6 DEF SameThread
<1> QED BY <1>2, <1>3, <1>4, <1>6, <1>12, <1>13, <1>14, SoleAtThread, SerialStep DEF Becomes

\* A node's return: the channels of its update, checkpointed with the node after it.  The
\* end has a report and a row that tell it.
LEMMA SerialReturn ==
  ASSUME GraphInv, SerialInv, ShapeInv', NEW c \in Calls, Return(c)
  PROVE  SerialInv'
<1> DEFINE v == inv[c].result
           next == NextNode(inv[c].node, v)
           s == IF next = "END" THEN "returned" ELSE "body"
<1>1. inv[c].stage = "return" /\ inv[c].stage \in Running
  BY DEF Return, Running
<1>2. PICK t \in Threads : T(c) = t
  BY <1>1, SerialFacts
<1>3. /\ inv \in [Calls -> Invocation] /\ CkptTypeOK /\ Active(c)
      /\ DecidedOK(c) /\ WritesOK(c) /\ MissingOK(c) /\ CheckpointOK(t, ckpt[t])
      /\ runs[t].exists
  BY <1>1, <1>2, SerialFacts DEF WritesOK, At
<1>4. /\ Becomes(c, s, next, v, v, inv[c].event, inv[c].read)
      /\ MakeCheckpoint(c, next, v, FALSE)
      /\ UNCHANGED <<runs, events, log, reports>>
  BY <1>3, ReturnBecomes DEF storeVars
<1>5. /\ next \in Nodes \cup {"END"} /\ (next = "END" <=> inv[c].node = "audit_and_report")
      /\ next \in {"human_review", "auto_advance_standard_cases"} =>
           v.route \in {"human_review", "auto_advance"}
      /\ next # "ingest_contract"
  BY NextNodeCases
<1>6. Sound(v) /\ (next = "audit_and_report" => Decided(v))
  BY <1>1, <1>3 DEF DecidedOK, Concluding, Writing
<1>7. next = "END" => Told(t, v)
  BY <1>1, <1>2, <1>3, <1>5 DEF DecidedOK, WritesOK, At, Told
<1>8. inv[c].document = "missing" =>
        next \in {"audit_and_report", "END"} /\ v.final_status = "failed" /\ v.route = "audit_only"
        /\ runs[t].route = "audit_only"
  BY <1>1, <1>2, <1>3 DEF MissingOK, At, NextNode, AfterIngest
<1> DEFINE paused == FALSE
<1>9. MakeCheckpoint(c, next, v, paused)
  BY <1>4
<1> HIDE DEF paused, next, v
<1>10. PICK k : /\ k.id = clock + 1 /\ k.next = next /\ k.values = v
                /\ unsaved'[c] = unsaved[c] \cup {k}
                /\ \A d \in Calls : d # c => unsaved'[d] = unsaved[d]
                /\ ckpt' = ckpt
  BY <1>3, <1>9, MakeJoins
<1>11. CheckpointOK(t, k)
  BY <1>3, <1>5, <1>6, <1>10 DEF CheckpointOK, Null
<1>12. /\ k.id > ckpt[t].id
       /\ \A x \in unsaved[c] : x.id <= k.id
  BY <1>1, <1>2, <1>10, UnderWay
<1>13. /\ \A x \in unsaved'[c] : x.id > ckpt[t].id /\ CheckpointOK(t, x)
       /\ \A x \in unsaved'[c] : x.next = "END" => x = k
       /\ \A x \in unsaved'[c] : x.id <= k.id
  <2>1. \A x \in unsaved[c] : x.id > ckpt[t].id /\ CheckpointOK(t, x) /\ x.next # "END"
    BY <1>1, <1>2, UnderWay
  <2>2. k.id \in Nat
    BY <1>1, <1>2, <1>10, UnderWay
  <2> QED BY <1>10, <1>11, <1>12, <2>1, <2>2
<1>14. \A x : CheckpointOK(t, x) => CheckpointOK(t, x)'
  BY <1>4 DEF CheckpointOK
<1>15. LastOK(c)'
  BY <1>2, <1>4, <1>10, <1>13, <1>14 DEF LastOK, Becomes, T, V, s
<1>16. CheckpointOK(t, ckpt[t])'
  BY <1>3, <1>4, <1>10 DEF CheckpointOK
<1>17. DecidedOK(c)'
  BY <1>4, <1>5, <1>6 DEF DecidedOK, Becomes, Concluding, Running, V, s, Null, Writing
<1>18. WritesOK(c)'
  <2>1. V(c)' = v
    BY <1>4 DEF Becomes, V
  <2>2. next = "END" => Told(t, V(c))'
    BY <1>4, <1>7, <2>1 DEF Told, ReportTells, RowTells, Decided, Sound
  <2> QED BY <1>2, <1>3, <1>4, <1>5, <2>2 DEF WritesOK, Becomes, Running, At, T, s
<1>19. MissingOK(c)'
  BY <1>2, <1>4, <1>5, <1>8 DEF MissingOK, Becomes, At, T, V
<1>20. SoleCallOK(c)'
  BY <1>15, <1>17, <1>18, <1>19 DEF SoleCallOK
<1>21. \A u \in Threads : SameThread(u)
  BY <1>4, <1>10 DEF SameThread
<1> QED BY <1>2, <1>3, <1>4, <1>10, <1>16, <1>20, <1>21, SoleAtThread, SerialStep DEF Becomes

\* The writer: checkpoints are saved in the order of their making, the end last.
LEMMA SerialSave ==
  ASSUME GraphInv, SerialInv, ShapeInv', NEW c \in Calls, Save(c)
  PROVE  SerialInv'
<1>1. PICK k \in unsaved[c] :
        /\ unsaved'[c] = unsaved[c] \ {k}
        /\ \A other \in unsaved'[c] : other.id > k.id
        /\ ckpt'[T(c)] = IF k.id > ckpt[T(c)].id THEN k ELSE ckpt[T(c)]
  BY SaveParts DEF SerialInv
<1>2. /\ UNCHANGED <<runs, events, log, reports, inv>>
      /\ T(c) \in Threads /\ Active(c)
      /\ \A d \in Calls : d # c => unsaved'[d] = unsaved[d]
      /\ \A t \in Threads : t # T(c) => ckpt'[t] = ckpt[t]
  BY SaveParts DEF SerialInv
<1>3. PICK t \in Threads : T(c) = t
  BY <1>2
<1>4. /\ SoleCallOK(c) /\ LastOK(c) /\ CkptTypeOK /\ CheckpointOK(t, k)
      /\ k.id > ckpt[t].id /\ ckpt'[t] = k
  BY <1>1, <1>2, <1>3 DEF SerialInv, SoleCallOK, LastOK, GraphInv
<1>5. \A x \in unsaved[c] : x.id \in Nat
  BY <1>4 DEF CkptTypeOK, Checkpoint
<1>6. \A x : CheckpointOK(t, x) => CheckpointOK(t, x)'
  BY <1>2 DEF CheckpointOK
<1>7. CheckpointOK(t, ckpt[t])'
  BY <1>2, <1>4 DEF CheckpointOK
<1>8. k.next = "END" => unsaved'[c] = {}
  BY <1>1, <1>2, <1>3, <1>4, <1>5 DEF LastOK
<1>9. inv[c].stage # "checked"
  BY <1>1 DEF GraphInv, CallOK
<1>10. LastOK(c)'
  <2>1. \A x \in unsaved'[c] : x.id > ckpt'[t].id /\ CheckpointOK(t, x)'
    BY <1>1, <1>2, <1>3, <1>4, <1>6 DEF LastOK
  <2>2. \A x \in unsaved'[c] : x.next = "END" =>
          /\ inv[c].node = "END" /\ x.values = V(c)
          /\ \A other \in unsaved'[c] : other.id <= x.id
    BY <1>1, <1>2, <1>3, <1>4 DEF LastOK
  <2>3. inv[c].node = "END" =>
          \/ \E x \in unsaved'[c] : x.next = "END"
          \/ unsaved'[c] = {} /\ ckpt'[t].next = "END" /\ ckpt'[t].values = V(c)
    BY <1>1, <1>2, <1>3, <1>4, <1>8 DEF LastOK
  <2>4. inv[c].node # "END" => ckpt'[t].next # "END"
    BY <1>1, <1>2, <1>3, <1>4 DEF LastOK
  <2> QED BY <1>2, <1>3, <1>9, <2>1, <2>2, <2>3, <2>4 DEF LastOK, T, V, Active
<1>11. SoleCallOK(c)'
  BY <1>2, <1>4, <1>10
  DEF SoleCallOK, DecidedOK, WritesOK, MissingOK, Concluding, Writing, At, T, V, Told,
      ReportTells, RowTells, Active
<1>12. \A u \in Threads : u # t => SameThread(u)
  BY <1>2, <1>3 DEF SameThread
<1> QED BY <1>2, <1>3, <1>7, <1>11, <1>12, SoleAtThread, SerialStep DEF T

--------------------------------------------------------------------------------
(* Faults. *)

\* A failed statement: the node raises, or gives up with an outcome of its own.
LEMMA SerialFault ==
  ASSUME GraphInv, SerialInv, ShapeInv', NEW c \in Calls, StatementFails(c)
  PROVE  SerialInv'
<1>1. /\ inv[c].stage \in Running
      /\ UNCHANGED <<runs, events, log, reports, unsaved, clock>>
      /\ \A u \in Threads : /\ ckpt'[u].id = ckpt[u].id /\ ckpt'[u].next = ckpt[u].next
                            /\ ckpt'[u].values = ckpt[u].values
      /\ \A u \in Threads : u # T(c) => ckpt'[u] = ckpt[u]
  BY FaultParts
<1>2. PICK t \in Threads : T(c) = t
  BY <1>1, SerialFacts
<1>3. \A u \in Threads : u # t => SameThread(u)
  BY <1>1, <1>2 DEF SameThread
<1>4. /\ V(c) \in Values /\ Sound(V(c)) /\ ShapeOK(c)
      /\ ~At(c, "ingest_contract", "body") => runs[t].exists
      /\ inv[c].document = "missing" =>
           inv[c].node \in {"ingest_contract", "audit_and_report", "END"}
  BY <1>1, <1>2, SerialFacts DEF DecidedOK, WritesOK, MissingOK
<1>5. CASE Becomes(c, "raised", inv[c].node, V(c), inv[c].result, inv[c].event, inv[c].read)
  BY <1>1, <1>2, <1>3, <1>5, SerialRaises
<1>6. ASSUME NEW type \in {"extraction_failed", "policy_failed"},
             inv[c].stage \in {"insert", "line"},
             inv[c].event.type \in {"extracted", "policy_evaluated"},
             Emit(c, type, Null, FailedValues(c)), UNCHANGED ckptVars
      PROVE  SerialInv'
  <2>1. inv[c].node \in {"extract_details_and_flag_risk", "check_policy_rules"}
    BY <1>4, <1>6 DEF ShapeOK, EventsOf
  <2>2. runs'[t].exists /\ inv[c].document # "missing"
    BY <1>1, <1>4, <2>1 DEF At
  <2>3. Decided(FailedValues(c))
    BY <1>4 DEF FailedValues, Decided, Sound, Values, Null
  <2>4. Sound(FailedValues(c))
    BY <2>3 DEF Decided
  <2> QED BY <1>1, <1>2, <1>3, <1>6, <2>1, <2>2, <2>3, <2>4, SerialEmits
<1>7. Caught(c) => UNCHANGED ckptVars
  BY DEF StatementFails
<1> QED BY <1>1, <1>5, <1>6, <1>7, FaultParts DEF Caught

\* The process stops: nobody is active, and a checkpoint is what it was, or gone.
LEMMA SerialCrash ==
  ASSUME GraphInv, SerialInv, ShapeInv', Crash
  PROVE  SerialInv'
<1>1. /\ inv' = [c \in Calls |-> IF Active(c) THEN Over(c, "dead") ELSE inv[c]]
      /\ ckpt' = ckpt \/ ckpt' = [t \in Threads |-> NoCheckpoint]
      /\ UNCHANGED <<runs, reports>>
  BY DEF Crash, LoseUnsaved, storeVars
<1>2. ASSUME NEW c \in Calls
      PROVE  ~Active(c)' /\ MissingOK(c)'
  <2>1. CASE Active(c)
    BY <1>1, <2>1 DEF Over, NoInvocation, Active, Running, MissingOK, Null
  <2>2. CASE ~Active(c)
    <3>1. inv'[c] = inv[c] /\ MissingOK(c)
      BY <1>1, <2>2 DEF SerialInv, SoleCallOK
    <3> QED BY <2>2, <3>1 DEF Active, MissingOK
  <2> QED BY <2>1, <2>2
<1>3. ASSUME NEW c \in Calls PROVE SoleCallOK(c)'
  BY <1>2 DEF SoleCallOK, DecidedOK, WritesOK, LastOK, Active, At, Running
<1>4. ASSUME NEW t \in Threads PROVE CheckpointOK(t, ckpt[t])'
  BY <1>1 DEF SerialInv, CheckpointOK, NoCheckpoint, NoValues, Sound, Null
<1> QED BY <1>2, <1>3, <1>4 DEF SerialInv, Sole

--------------------------------------------------------------------------------
(* Beginnings and ends of calls. *)

\* A call with an input begins on a thread that nobody is at, used or not.
LEMMA SerialStart ==
  ASSUME GraphInv, SerialInv, ShapeInv', NEW c \in Calls, inv[c].stage = "idle",
         NEW t \in Threads, ~Busy(t), NEW doc \in Documents, Start(c, t, doc)
  PROVE  SerialInv'
<1> DEFINE v == ckpt[t].values
           new == [NoInvocation EXCEPT !.stage = "body", !.node = "ingest_contract",
                                       !.thread = t, !.document = doc, !.values = v]
<1>1. /\ inv \in [Calls -> Invocation] /\ CkptTypeOK /\ unsaved[c] = {}
      /\ CheckpointOK(t, ckpt[t]) /\ SavedOK(t) /\ ckpt[t].id \in Nat /\ clock \in Nat
  BY DEF GraphInv, GraphTypeOK, CallOK, SerialInv, ShapeInv, CkptTypeOK, Checkpoint
<1>2. /\ inv' = [inv EXCEPT ![c] = new]
      /\ MakeCheckpoint(c, "ingest_contract", v, FALSE)
      /\ UNCHANGED <<runs, events, log, reports>>
  BY DEF Start, storeVars
<1> HIDE DEF v
<1>3. /\ new.stage = "body" /\ new.node = "ingest_contract" /\ new.thread = t
      /\ new.values = v /\ new.document = doc
  BY DEF NoInvocation
<1> HIDE DEF new
<1>4. /\ inv'[c] = new /\ \A d \in Calls : d # c => inv'[d] = inv[d]
  BY <1>1, <1>2
<1> DEFINE paused == FALSE
<1>5. MakeCheckpoint(c, "ingest_contract", v, paused)
  BY <1>2
<1> HIDE DEF paused
<1>6. PICK k : /\ k.id = clock + 1 /\ k.next = "ingest_contract" /\ k.values = v
               /\ unsaved'[c] = unsaved[c] \cup {k}
               /\ \A d \in Calls : d # c => unsaved'[d] = unsaved[d]
               /\ ckpt' = ckpt
  BY <1>1, <1>5, MakeJoins
<1>7. Sound(v) /\ CheckpointOK(t, ckpt[t])' /\ CheckpointOK(t, k)'
  BY <1>1, <1>2, <1>6 DEF CheckpointOK, v
<1>8. unsaved'[c] = {k} /\ k.id > ckpt[t].id
  BY <1>1, <1>6 DEF SavedOK
<1>9. LastOK(c)'
  BY <1>3, <1>4, <1>6, <1>7, <1>8 DEF LastOK, T
<1>10. SoleCallOK(c)'
  BY <1>3, <1>4, <1>7, <1>9
  DEF SoleCallOK, DecidedOK, WritesOK, MissingOK, Concluding, Running, At, V
<1>11. \A u \in Threads : SameThread(u)
  BY <1>2, <1>6 DEF SameThread
<1>12. \A d \in Calls : d # c /\ Active(d) => T(d) # t
  BY DEF Busy
<1> QED BY <1>3, <1>4, <1>6, <1>7, <1>10, <1>11, <1>12, SerialStep

\* A call resumes a thread that is paused and that nobody else is at.
LEMMA SerialResume ==
  ASSUME GraphInv, SerialInv, ShapeInv', NEW c \in Calls,
         inv[c].stage \in {"idle", "checked"}, NEW t \in Threads,
         \A d \in Calls : d # c /\ Active(d) => T(d) # t,
         Interrupted(t), NEW answer, Resume(c, t, answer)
  PROVE  SerialInv'
<1> DEFINE a == IF ckpt[t].answer = NoAnswer THEN answer ELSE ckpt[t].answer
           s == IF ckpt[t].next = "END" THEN "returned" ELSE "body"
           new == [NoInvocation EXCEPT !.stage = s, !.node = ckpt[t].next, !.thread = t,
                                       !.values = ckpt[t].values, !.answer = a]
<1>1. /\ inv \in [Calls -> Invocation] /\ unsaved[c] = {} /\ CheckpointOK(t, ckpt[t])
      /\ ckpt[t].next = "human_review"
  BY DEF GraphInv, GraphTypeOK, CallOK, SerialInv, ShapeInv, SavedOK, Interrupted
<1>2. /\ inv' = [inv EXCEPT ![c] = new]
      /\ UNCHANGED <<runs, events, log, reports, ckpt, unsaved>>
  BY DEF Resume, storeVars, ckptVars
<1>3. s = "body"
  BY <1>1
<1> HIDE DEF a, s
<1>4. /\ new.stage = "body" /\ new.node = "human_review" /\ new.thread = t
      /\ new.values = ckpt[t].values /\ new.document = Null
  BY <1>1, <1>3 DEF NoInvocation
<1> HIDE DEF new
<1>5. /\ inv'[c] = new /\ \A d \in Calls : d # c => inv'[d] = inv[d]
  BY <1>1, <1>2
<1>6. Sound(ckpt[t].values) /\ ckpt[t].values.route # Null /\ runs[t].exists
  BY <1>1 DEF CheckpointOK
<1>7. LastOK(c)'
  BY <1>1, <1>2, <1>4, <1>5 DEF LastOK, T
<1>8. SoleCallOK(c)'
  BY <1>2, <1>4, <1>5, <1>6, <1>7
  DEF SoleCallOK, DecidedOK, WritesOK, MissingOK, Concluding, Running, At, V, T, Null
<1>9. CheckpointOK(t, ckpt[t])' /\ \A u \in Threads : SameThread(u)
  BY <1>1, <1>2 DEF CheckpointOK, SameThread
<1> QED BY <1>2, <1>4, <1>5, <1>8, <1>9, SerialStep

\* A call ends, and is no longer at its thread.
LEMMA SerialOver ==
  ASSUME GraphInv, SerialInv, ShapeInv', NEW c \in Calls,
         inv[c].stage \in {"returned", "raised"}, inv' = [inv EXCEPT ![c] = Over(c, "done")],
         UNCHANGED <<storeVars, ckptVars>>
  PROVE  SerialInv'
<1>1. Active(c) /\ CallOK(c) /\ inv \in [Calls -> Invocation]
  BY DEF Active, GraphInv, GraphTypeOK
<1>2. PICK t \in Threads : T(c) = t
  BY <1>1 DEF CallOK, T
<1>3. /\ Over(c, "done").stage = "done" /\ Over(c, "done").thread = t
      /\ Over(c, "done").document = Null
  BY <1>2 DEF Over, NoInvocation
<1>4. /\ inv'[c] = Over(c, "done") /\ \A d \in Calls : d # c => inv'[d] = inv[d]
      /\ UNCHANGED <<runs, events, log, reports, ckpt, unsaved>>
  BY <1>1 DEF storeVars, ckptVars
<1>5. SoleCallOK(c)'
  BY <1>3, <1>4
  DEF SoleCallOK, DecidedOK, WritesOK, LastOK, MissingOK, Running, At, Active, Null
<1>6. CheckpointOK(t, ckpt[t])' /\ \A u \in Threads : SameThread(u)
  BY <1>4 DEF SerialInv, CheckpointOK, SameThread
<1> QED BY <1>1, <1>2, <1>3, <1>4, <1>5, <1>6, SoleAtThread, SerialStep

\* Every step of a node, of the writer, and every failed statement.
LEMMA SerialGraphStep ==
  ASSUME GraphInv, SerialInv, NEW c \in Calls, NodeStep(c) \/ Save(c) \/ StatementFails(c)
  PROVE  SerialInv'
<1>1. ShapeInv'
  BY ShapeNodeStep, ShapeSave, ShapeFault DEF SerialInv
<1> QED BY <1>1, SerialIngest, SerialNodes, SerialSelect, SerialReview, SerialRefuse,
        SerialReport, SerialWrites, SerialPause, SerialReturn, SerialSave, SerialFault
        DEF NodeStep

\* The beginning: no checkpoint has been made.
LEMMA SerialInit ==
  ASSUME StoreInit, CkptInit, GraphInit
  PROVE  SerialInv
<1>1. ShapeInv
  BY ShapeInit
<1>2. \A c \in Calls : inv[c].stage = "idle" /\ inv[c].document = Null
  BY DEF GraphInit, NoInvocation
<1>3. \A c \in Calls : ~Active(c) /\ SoleCallOK(c)
  BY <1>2 DEF Active, SoleCallOK, DecidedOK, WritesOK, LastOK, MissingOK, Running, At, Null
<1>4. \A t \in Threads : CheckpointOK(t, ckpt[t])
  BY DEF CkptInit, CheckpointOK, NoCheckpoint, NoValues, Sound, Null
<1> QED BY <1>1, <1>3, <1>4 DEF SerialInv, Sole

\* Nothing of the graph changes.
LEMMA SerialStutter ==
  ASSUME SerialInv, UNCHANGED <<storeVars, ckptVars, inv>>
  PROVE  SerialInv'
<1>1. UNCHANGED <<runs, events, log, reports, ckpt, unsaved, clock, inv>>
  BY DEF storeVars, ckptVars
<1> QED BY <1>1
  DEF SerialInv, ShapeInv, ShapeOK, UnsavedOK, SavedOK, PastAnswer, Sole, SoleCallOK,
      DecidedOK, WritesOK, LastOK, MissingOK, Concluding, Writing, At, V, T, Told,
      ReportTells, RowTells, CheckpointOK, Active, Interrupted
--------------------------------------------------------------------------------
(* Where a thread stands when everybody has left it. *)

\* A step that ends with call c at thread t settles nothing and touches no other thread.
LEMMA SettledAtThread ==
  ASSUME SettledInv, faults' = 0 => faults = 0, NEW c \in Calls, NEW t \in Threads,
         Active(c) => T(c) = t, Active(c)', inv'[c].thread = t,
         \A d \in Calls : d # c => inv'[d] = inv[d],
         \A u \in Threads : u # t => SameThread(u)
  PROVE  SettledInv'
<1> SUFFICES ASSUME faults' = 0, NEW u \in Threads PROVE SettledOK(u)'
  BY DEF SettledInv
<1>1. CASE u = t
  BY <1>1 DEF SettledOK, Busy, T
<1>2. CASE u # t
  <2>1. SettledOK(u) /\ SameThread(u)
    BY <1>2 DEF SettledInv
  <2>2. Busy(u) => Busy(u)'
    BY <1>2 DEF Busy, T, Active
  <2> QED BY <2>1, <2>2 DEF SettledOK, SameThread, Ended, Told, ReportTells, RowTells
<1> QED BY <1>1, <1>2

\* Every step of a node, of the writer, and every failed statement.
LEMMA SettledGraphStep ==
  ASSUME GraphInv, SerialInv, SettledInv, NEW c \in Calls,
         NodeStep(c) \/ Save(c) \/ StatementFails(c)
  PROVE  SettledInv'
<1>1. ShapeInv /\ inv \in [Calls -> Invocation]
  BY DEF SerialInv, GraphInv, GraphTypeOK
<1>2. CASE NodeStep(c)
  <2>1. /\ inv[c].stage \in Running /\ inv'[c].thread = T(c)
        /\ \A d \in Calls : d # c => inv'[d] = inv[d]
        /\ inv'[c].stage \in Running \cup {"raised", "returned"}
    BY <1>1, <1>2, NodeStepGoes
  <2>2. /\ T(c) \in Threads /\ faults' = faults
        /\ \A u \in Threads : u # T(c) => SameThread(u)
    BY <1>1, <1>2, NodeStepFrame
  <2>3. Active(c)'
    BY <2>1 DEF Active
  <2> QED BY <2>1, <2>2, <2>3, SettledAtThread
<1>3. CASE Save(c)
  <2>1. /\ UNCHANGED <<runs, events, log, reports, inv>>
        /\ T(c) \in Threads /\ Active(c)
        /\ \A u \in Threads : u # T(c) => ckpt'[u] = ckpt[u]
    BY <1>1, <1>3, SaveParts
  <2>2. faults' = faults
    BY <1>3 DEF Save
  <2>3. Active(c)' /\ inv'[c].thread = T(c)
    BY <2>1 DEF Active, T
  <2>4. \A u \in Threads : u # T(c) => SameThread(u)
    BY <2>1 DEF SameThread
  <2> QED BY <2>1, <2>2, <2>3, <2>4, SettledAtThread
<1>4. CASE StatementFails(c)
  <2>1. faults' # 0
    BY <1>4, FaultParts
  <2> QED BY <2>1 DEF SettledInv
<1> QED BY <1>2, <1>3, <1>4

\* The process stops: a memory checkpointer has nothing to tell, and an end that was saved
\* before its thread was used again may be told no longer.
LEMMA SettledCrash ==
  ASSUME GraphInv, Crash
  PROVE  SettledInv'
BY GraphAssumption DEF GraphInv, GraphTypeOK, Crash, SettledInv

\* A call begins on a thread.
LEMMA SettledBegins ==
  ASSUME GraphInv, SerialInv, SettledInv, NEW c \in Calls,
         inv[c].stage \in {"idle", "checked"}, NEW t \in Threads, Active(c) => T(c) = t,
         \/ \E doc \in Documents : Start(c, t, doc)
         \/ \E answer : Resume(c, t, answer)
  PROVE  SettledInv'
<1>1. inv \in [Calls -> Invocation] /\ CkptTypeOK
  BY DEF GraphInv, GraphTypeOK
<1>2. /\ inv'[c].thread = t /\ inv'[c].stage \in {"body", "returned"}
      /\ \A d \in Calls : d # c => inv'[d] = inv[d]
  <2>1. ASSUME NEW doc \in Documents, Start(c, t, doc)
        PROVE  /\ inv'[c].thread = t /\ inv'[c].stage = "body"
               /\ \A d \in Calls : d # c => inv'[d] = inv[d]
    BY <1>1, <2>1 DEF Start, NoInvocation
  <2>2. ASSUME NEW answer, Resume(c, t, answer)
        PROVE  /\ inv'[c].thread = t /\ inv'[c].stage \in {"body", "returned"}
               /\ \A d \in Calls : d # c => inv'[d] = inv[d]
    <3> DEFINE s == IF ckpt[t].next = "END" THEN "returned" ELSE "body"
               a == IF ckpt[t].answer = NoAnswer THEN answer ELSE ckpt[t].answer
               new == [NoInvocation EXCEPT !.stage = s, !.node = ckpt[t].next,
                                           !.thread = t, !.values = ckpt[t].values,
                                           !.answer = a]
    <3>1. inv' = [inv EXCEPT ![c] = new] /\ s \in {"body", "returned"}
      BY <2>2 DEF Resume
    <3> HIDE DEF s, a
    <3>2. new.stage = s /\ new.thread = t
      BY DEF NoInvocation
    <3> HIDE DEF new
    <3> QED BY <1>1, <3>1, <3>2
  <2> QED BY <2>1, <2>2
<1>3. UNCHANGED <<runs, events, log, reports, ckpt, faults>>
  BY DEF Start, Resume, MakeCheckpoint, storeVars, ckptVars
<1>4. Active(c)' /\ \A u \in Threads : SameThread(u)
  BY <1>2, <1>3 DEF Active, Running, SameThread
<1> QED BY <1>2, <1>3, <1>4, SettledAtThread

\* A call ends with its checkpoints saved: if that is the end of the thread, it is told.
LEMMA SettledOver ==
  ASSUME GraphInv, SerialInv, SettledInv, NEW c \in Calls,
         inv[c].stage \in {"returned", "raised"}, unsaved[c] = {},
         inv' = [inv EXCEPT ![c] = Over(c, "done")],
         UNCHANGED <<storeVars, ckptVars, faults>>
  PROVE  SettledInv'
<1>1. Active(c) /\ CallOK(c) /\ SoleCallOK(c) /\ inv \in [Calls -> Invocation]
  BY DEF Active, GraphInv, GraphTypeOK, SerialInv
<1>2. PICK t \in Threads : T(c) = t
  BY <1>1 DEF CallOK, T
<1>3. /\ UNCHANGED <<runs, events, log, reports, ckpt, faults>>
      /\ \A d \in Calls : d # c => inv'[d] = inv[d]
  BY <1>1 DEF storeVars, ckptVars
<1> SUFFICES ASSUME faults' = 0, NEW u \in Threads PROVE SettledOK(u)'
  BY DEF SettledInv
<1>4. CASE u = t
  <2>1. Ended(t) => Told(t, ckpt[t].values)
    BY <1>1, <1>2 DEF SoleCallOK, LastOK, WritesOK, Ended
  <2> QED BY <1>3, <1>4, <2>1 DEF SettledOK, Ended, Told, ReportTells, RowTells
<1>5. CASE u # t
  <2>1. Busy(u) => Busy(u)'
    BY <1>2, <1>3, <1>5 DEF Busy, T, Active
  <2>2. SettledOK(u)
    BY <1>3 DEF SettledInv
  <2> QED BY <1>3, <2>1, <2>2 DEF SettledOK, Ended, Told, ReportTells, RowTells
<1> QED BY <1>4, <1>5

\* No thread has ended yet.
LEMMA SettledInit ==
  ASSUME CkptInit
  PROVE  SettledInv
BY DEF CkptInit, NoCheckpoint, SettledInv, SettledOK, Ended

\* Nothing of the graph changes.
LEMMA SettledStutter ==
  ASSUME SettledInv, UNCHANGED <<storeVars, ckptVars, inv, faults>>
  PROVE  SettledInv'
BY DEF SettledInv, SettledOK, Busy, T, Active, Ended, Told, ReportTells, RowTells,
   storeVars, ckptVars
================================================================================
