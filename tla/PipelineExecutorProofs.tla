----------------------- MODULE PipelineExecutorProofs -----------------------
(***************************************************************************)
(* Both executors, on any pipeline and with any number of failing hooks,   *)
(* isolate what the policies see of a stage and implement PipelineRun: the *)
(* result they answer says what the run did, every span they have opened   *)
(* is closed, and the sequential one names the stage that failed.          *)
(*                                                                         *)
(* The argument: only stages of the current unit are busy, so two busy     *)
(* stages never share a context -- in the sequential executor a unit is a  *)
(* single stage, in the parallel one every stage has a context -- and all  *)
(* the units before the current one are over and did not cancel.           *)
(***************************************************************************)
EXTENDS PipelineExecutor, WellFoundedInduction, TLAPS

Busy == {"announced", "executing", "erred", "rejected", "accepted"}

(* What the ContextVars of a busy stage hold, and what its answer means. *)
StageInv(s) ==
  LET c == ContextOf(s) IN
  /\ step[s] \in Busy \ {"announced"} =>
       limit[c] = MaxAttempts[s] /\ tries[s] >= 1
  /\ step[s] = "announced" =>
       limit[c] = MaxAttempts[s] /\ attempt[c] = 1 /\ exception[c] = None
  /\ step[s] = "executing" => attempt[c] = tries[s] /\ exception[c] = None
  /\ step[s] = "erred" => exception[c] = s /\ attempt[c] = tries[s]
  /\ step[s] = "rejected" => /\ exception[c] = None
                             /\ result[c] = s
                             /\ answer[s] = "failed"
  /\ step[s] = "accepted" => answer[s] = "completed"
  /\ step[s] = "escaped" => ~Parallel
  /\ step[s] = "returned" => /\ answer[s] # "none"
                             /\ "failfast" \in policies /\ answer[s] = "failed"
                                  => cancel[s]

(* Where the executor is in the pipeline. *)
UnitInv ==
  /\ phase = "opening" =>
       unit = 1 /\ \A s \in Stages : step[s] = "waiting"
  /\ \A s \in Stages : step[s] \in Busy => phase = "running"
  /\ \A s \in Stages : step[s] \in Busy \cup {"escaped"} => UnitOf(s) = unit
  /\ \A s \in Stages : UnitOf(s) < unit =>
       /\ step[s] = "returned"
       /\ ~cancel[s]
       /\ answer[s] = "failed" => tolerated
  /\ phase = "closing" => \A s \in Stages :
       step[s] = "returned" /\ (answer[s] = "failed" => tolerated)
  /\ verdict = "none" <=> phase # "done"

ExecutorInv == /\ ControlType
               /\ StageRunType
               /\ ContextType
               /\ UnitInv
               /\ \A s \in Stages : StageInv(s)

-----------------------------------------------------------------------------
(* Units and contexts. *)

LEMMA AppendedIsLast ==
  ASSUME NEW S, NEW q \in Seq(S), NEW x \in S
  PROVE  Append(q, x) # << >> /\ Append(q, x)[Len(Append(q, x))] = x
<1>1. /\ Len(Append(q, x)) = Len(q) + 1 /\ Len(q) \in Nat
      /\ Append(q, x)[Len(q) + 1] = x
  OBVIOUS
<1>2. Append(q, x) # << >>
  BY <1>1
<1>3. QED
  BY <1>1, <1>2

LEMMA UnitRange == \A s \in Stages : UnitOf(s) \in 1 .. LastUnit
BY StagesAssumption, GroupsAssumption DEF UnitOf, LastUnit, Stages

LEMMA UnitsFollowGroups ==
  ASSUME NEW s \in Stages, NEW t \in Stages, GroupOf[t] < GroupOf[s]
  PROVE  UnitOf(t) < UnitOf(s)
BY StagesAssumption, GroupsAssumption DEF UnitOf, Stages

LEMMA OwnContext ==
  ASSUME NEW s \in Stages, NEW t \in Stages, UnitOf(s) = UnitOf(t),
         ContextOf(s) = ContextOf(t)
  PROVE  s = t
BY StagesAssumption DEF UnitOf, ContextOf, Stages

LEMMA ContextRange == \A s \in Stages : ContextOf(s) \in Contexts
BY DEF ContextOf, Contexts

LEMMA ConfigFrame ==
  ASSUME UNCHANGED config
  PROVE  /\ \A s \in Stages : UnitOf(s)' = UnitOf(s)
         /\ \A s \in Stages : ContextOf(s)' = ContextOf(s)
         /\ LastUnit' = LastUnit
         /\ executor' = executor /\ policies' = policies
BY DEF config, UnitOf, ContextOf, LastUnit, Parallel

LEMMA StageFrame ==
  ASSUME UNCHANGED config, NEW s \in Stages, StageInv(s),
         step'[s] = step[s], tries'[s] = tries[s], answer'[s] = answer[s],
         cancel'[s] = cancel[s],
         step[s] \in Busy =>
           /\ attempt'[ContextOf(s)] = attempt[ContextOf(s)]
           /\ limit'[ContextOf(s)] = limit[ContextOf(s)]
           /\ result'[ContextOf(s)] = result[ContextOf(s)]
           /\ exception'[ContextOf(s)] = exception[ContextOf(s)]
  PROVE  StageInv(s)'
BY ConfigFrame DEF StageInv, Busy, Parallel

-----------------------------------------------------------------------------
(* ExecutorInv is inductive. *)

LEMMA InitInv == Init => ExecutorInv
<1> SUFFICES ASSUME Init PROVE ExecutorInv
  OBVIOUS
<1>1. 1 \in 1 .. LastUnit
  BY StagesAssumption, GroupsAssumption DEF LastUnit, UnitOf, Stages
<1>2. ControlType
  BY <1>1 DEF Init, ControlType
<1>3. StageRunType
  BY StagesAssumption DEF Init, StageRunType
<1>4. ContextType
  BY DEF Init, ContextType, Contexts, None
<1>5. UnitInv
  BY UnitRange DEF Init, UnitInv, Busy
<1>6. \A s \in Stages : StageInv(s)
  BY DEF Init, StageInv, Busy
<1>7. QED
  BY <1>2, <1>3, <1>4, <1>5, <1>6 DEF ExecutorInv

(* No step of a stage but StageFailed touches what a returned stage left,  *)
(* and a busy stage stays in the current unit.                             *)
LEMMA UnitFrame ==
  ASSUME ControlType, StageRunType, UnitInv,
         UNCHANGED <<config, phase, unit, tolerated, verdict>>,
         NEW s \in Stages, phase = "running", UnitOf(s) = unit,
         \A t \in Stages \ {s} : /\ step'[t] = step[t]
                                 /\ answer'[t] = answer[t]
                                 /\ cancel'[t] = cancel[t]
  PROVE  UnitInv'
<1>1. \A t \in Stages : UnitOf(t)' = UnitOf(t)
  BY ConfigFrame
<1>2. unit \in Nat /\ \A t \in Stages : UnitOf(t) \in Nat
  BY UnitRange DEF ControlType
<1>3. \A t \in Stages :
        /\ step'[t] \in Busy => phase' = "running"
        /\ step'[t] \in Busy \cup {"escaped"} => UnitOf(t)' = unit'
  BY <1>1 DEF UnitInv
<1>4. \A t \in Stages : UnitOf(t)' < unit' => t # s
  BY <1>1, <1>2
<1>5. QED
  BY <1>1, <1>3, <1>4 DEF UnitInv

(* What the other stages see of a step of stage s. *)
LEMMA OtherStage ==
  ASSUME ExecutorInv, UNCHANGED config,
         NEW s \in Stages, UnitOf(s) = unit, NEW t \in Stages \ {s},
         step'[t] = step[t], tries'[t] = tries[t], answer'[t] = answer[t],
         cancel'[t] = cancel[t],
         \A c \in Contexts \ {ContextOf(s)} :
           /\ attempt'[c] = attempt[c]
           /\ limit'[c] = limit[c]
           /\ result'[c] = result[c]
           /\ exception'[c] = exception[c]
  PROVE  StageInv(t)'
<1>1. StageInv(t)
  BY DEF ExecutorInv
<1>2. step[t] \in Busy => ContextOf(t) # ContextOf(s)
  BY OwnContext DEF ExecutorInv, UnitInv
<1>3. step[t] \in Busy => ContextOf(t) \in Contexts \ {ContextOf(s)}
  BY <1>2, ContextRange
<1>4. QED
  BY <1>1, <1>3, StageFrame

(* What a step of stage s may change. *)
StageChange(s) ==
  /\ UNCHANGED <<config, expired, phase, unit, tolerated, verdict, error>>
  /\ phase = "running" /\ UnitOf(s) = unit
  /\ StageRunType' /\ ContextType'
  /\ \A t \in Stages \ {s} : /\ step'[t] = step[t]
                              /\ tries'[t] = tries[t]
                              /\ answer'[t] = answer[t]
                              /\ cancel'[t] = cancel[t]
  /\ \A c \in Contexts \ {ContextOf(s)} : /\ attempt'[c] = attempt[c]
                                           /\ limit'[c] = limit[c]
                                           /\ result'[c] = result[c]
                                           /\ exception'[c] = exception[c]

LEMMA ChangeKeepsInv ==
  ASSUME ExecutorInv, NEW s \in Stages, StageChange(s), StageInv(s)'
  PROVE  ExecutorInv'
<1> USE DEF StageChange
<1>1. ControlType'
  <2>1. ControlType /\ UNCHANGED config
    BY DEF ExecutorInv
  <2>2. LastUnit' = LastUnit /\ executor' = executor /\ policies' = policies
    BY <2>1, ConfigFrame
  <2>3. QED
    BY <2>1, <2>2 DEF ControlType
<1>2. UnitInv'
  BY UnitFrame DEF ExecutorInv
<1>3. \A t \in Stages : StageInv(t)'
  BY OtherStage
<1>4. QED
  BY <1>1, <1>2, <1>3 DEF ExecutorInv

(* A stage that runs belongs to the current unit. *)
LEMMA BusyRuns ==
  ASSUME ExecutorInv, NEW s \in Stages, step[s] \in Busy
  PROVE  phase = "running" /\ UnitOf(s) = unit
BY DEF ExecutorInv, UnitInv

LEMMA StageStepChanges ==
  ASSUME ExecutorInv, NEW s \in Stages, StageStep(s)
  PROVE  StageChange(s) /\ StageInv(s)'
<1> USE ContextRange, ConfigFrame, StagesAssumption
    DEF ExecutorInv, StageRunType, ContextType, StageInv, StageChange, Goto,
        control, stageRun, contextVars, outcomes, Busy, RunIsOver, None,
        Parallel
<1>0. ContextOf(s) \in Contexts /\ s \in Contexts /\ 0 \in Contexts
  BY DEF Contexts
<1>1. CASE StageStarts(s)
  BY <1>0, <1>1 DEF StageStarts
<1>2. CASE StageExecutes(s)
  BY <1>0, <1>2, BusyRuns DEF StageExecutes
<1>3. CASE StageRaises(s)
  BY <1>0, <1>3, BusyRuns DEF StageRaises
<1>4. CASE StageSucceeds(s)
  BY <1>0, <1>4, BusyRuns DEF StageSucceeds, StageAnswers, StageFinished
<1>5. CASE StageFails(s)
  BY <1>0, <1>5, BusyRuns DEF StageFails, StageAnswers
<1>6. CASE StageSucceeded(s)
  BY <1>0, <1>6, BusyRuns DEF StageSucceeded
<1>7. CASE StageRetries(s)
  BY <1>0, <1>7, BusyRuns DEF StageRetries, Retries, RetryStarted, OrOne
<1>8. CASE StageGivesUp(s)
  BY <1>0, <1>8, BusyRuns DEF StageGivesUp, StageFinished
<1>9. CASE StageFailed(s)
  <2> DEFINE b == Cancels(ContextOf(s))
  <2>1. b \in BOOLEAN
    BY DEF Cancels, BusinessFailure
  <2>2. "failfast" \in policies => b
    BY <1>9, StagesAssumption DEF StageFailed, Cancels, BusinessFailure, Stages
  <2>3. cancel' = [cancel EXCEPT ![s] = b]
    BY <1>9 DEF StageFailed
  <2> HIDE DEF b
  <2>4. QED
    BY <1>0, <1>9, <2>1, <2>2, <2>3, BusyRuns DEF StageFailed, StageFinished
<1>10. CASE HookRaises(s)
  BY <1>0, <1>10, BusyRuns DEF HookRaises
<1>11. QED
  BY <1>1, <1>2, <1>3, <1>4, <1>5, <1>6, <1>7, <1>8, <1>9, <1>10
  DEF StageStep

(* The steps of the executor's coroutine leave the stages as they are. *)
LEMMA StagesFrame ==
  ASSUME ExecutorInv, UNCHANGED <<config, stageRun, attempt, limit, result>>,
         exception' \in [Contexts -> Contexts \cup {Cancellation}],
         \A s \in Stages : step[s] \in Busy =>
           exception'[ContextOf(s)] = exception[ContextOf(s)]
  PROVE  /\ StageRunType' /\ ContextType'
         /\ \A s \in Stages : StageInv(s)'
         /\ \A s \in Stages : UnitOf(s)' = UnitOf(s)
         /\ executor' = executor /\ policies' = policies /\ LastUnit' = LastUnit
<1> USE DEF stageRun
<1>1. StageRunType' /\ ContextType'
  BY DEF ExecutorInv, StageRunType, ContextType
<1>2. \A s \in Stages : StageInv(s)'
  BY StageFrame DEF ExecutorInv
<1>3. QED
  BY <1>1, <1>2, ConfigFrame

(* execution_failed() and execution_completed() write the exception of the *)
(* executor's context, but no stage is busy then.                          *)
LEMMA PipelineStepContexts ==
  ASSUME ExecutorInv,
         \/ Expire \/ Opened \/ UnitStopsPipeline \/ UnitPasses \/ Failed
         \/ Closed \/ PipelineHookRaises \/ StageHookEscapes
  PROVE  /\ UNCHANGED <<config, stageRun, attempt, limit, result>>
         /\ exception' \in [Contexts -> Contexts \cup {Cancellation}]
         /\ \A s \in Stages : step[s] \in Busy =>
              exception'[ContextOf(s)] = exception[ContextOf(s)]
<1>1. UNCHANGED <<config, stageRun, attempt, limit, result>>
  BY DEF Expire, Opened, UnitStopsPipeline, UnitPasses, Failed, Closed,
         PipelineHookRaises, StageHookEscapes, contextVars
<1>2. exception \in [Contexts -> Contexts \cup {Cancellation}]
  BY DEF ExecutorInv, ContextType
<1>3. CASE UNCHANGED exception
  BY <1>1, <1>2, <1>3
<1>4. CASE UnitStopsPipeline \/ UnitPasses
  <2>1. UnitIsOver
    BY <1>4 DEF UnitStopsPipeline, UnitPasses
  <2>2. \A s \in Stages : step[s] \notin Busy
    BY <2>1 DEF UnitIsOver, Members, RunIsOver, Busy, ExecutorInv, UnitInv
  <2>3. \/ UNCHANGED exception
        \/ \E e \in Contexts \cup {Cancellation} :
             exception' = [exception EXCEPT ![0] = e]
    <3>1. CASE UnitPasses
      BY <3>1 DEF UnitPasses, Contexts, None
    <3>2. CASE UnitStopsPipeline
      BY <3>2 DEF UnitStopsPipeline, ExecutionFailed, FailsWith, Members,
                  Contexts
    <3>3. QED
      BY <1>4, <3>1, <3>2
  <2>4. QED
    BY <1>1, <1>2, <2>2, <2>3 DEF Contexts
<1>5. QED
  BY <1>3, <1>4 DEF Expire, Opened, Failed, Closed, PipelineHookRaises,
                    StageHookEscapes, contextVars

LEMMA PipelineStepKeepsInv ==
  ASSUME ExecutorInv,
         \/ Expire \/ Opened \/ UnitStopsPipeline \/ UnitPasses \/ Failed
         \/ Closed \/ PipelineHookRaises \/ StageHookEscapes
  PROVE  ExecutorInv'
<1>0. /\ UNCHANGED <<config, stageRun, attempt, limit, result>>
      /\ exception' \in [Contexts -> Contexts \cup {Cancellation}]
      /\ \A s \in Stages : step[s] \in Busy =>
           exception'[ContextOf(s)] = exception[ContextOf(s)]
  BY PipelineStepContexts
<1>1. /\ StageRunType' /\ ContextType'
      /\ \A s \in Stages : StageInv(s)'
      /\ \A s \in Stages : UnitOf(s)' = UnitOf(s)
      /\ executor' = executor /\ policies' = policies /\ LastUnit' = LastUnit
  BY <1>0, StagesFrame
<1>2. step' = step /\ answer' = answer /\ cancel' = cancel
  BY <1>0 DEF stageRun
<1>3. /\ unit \in Nat /\ LastUnit \in Nat /\ unit <= LastUnit
      /\ \A s \in Stages : UnitOf(s) \in Nat /\ UnitOf(s) <= LastUnit
  BY UnitRange, StagesAssumption, GroupsAssumption
  DEF ExecutorInv, ControlType, LastUnit, UnitOf, Stages
<1> USE <1>1, <1>2, <1>3 DEF ExecutorInv, ControlType, UnitInv, control,
                             outcomes, Conclude
<1>4. ASSUME Expire PROVE ExecutorInv'
  BY <1>4 DEF Expire
<1>5. ASSUME Opened PROVE ExecutorInv'
  BY <1>5 DEF Opened, Busy
<1>6. ASSUME UnitStopsPipeline PROVE ExecutorInv'
  BY <1>6 DEF UnitStopsPipeline, UnitIsOver, Members, Busy, RunIsOver
<1>7. ASSUME UnitPasses PROVE ExecutorInv'
  <2> DEFINE b == tolerated \/ AnyFailed
  <2>0. tolerated' = b /\ b \in BOOLEAN
    BY <1>7, Zenon DEF UnitPasses, RememberFailures
  <2>1. \A s \in Stages : UnitOf(s) <= unit =>
          /\ step[s] = "returned"
          /\ ~cancel[s]
          /\ answer[s] = "failed" => tolerated'
    <3>1. SUFFICES ASSUME NEW s \in Stages, UnitOf(s) <= unit
                   PROVE  /\ step[s] = "returned"
                          /\ ~cancel[s]
                          /\ answer[s] = "failed" => b
      BY <2>0
    <3>2. CASE UnitOf(s) < unit
      BY <3>2
    <3>3. CASE UnitOf(s) = unit
      <4>1. s \in Members(unit)
        BY <3>3 DEF Members
      <4>2. step[s] \in RunIsOver /\ step[s] # "raised"
        BY <1>7, <4>1 DEF UnitPasses, UnitIsOver, Raised
      <4>3. ~cancel[s]
        BY <1>7, <4>1 DEF UnitPasses, Cancelled
      <4>4. answer[s] = "failed" => b
        BY <4>1 DEF AnyFailed
      <4>5. QED
        BY <4>2, <4>3, <4>4 DEF RunIsOver
    <3>4. QED
      BY <3>1, <3>2, <3>3
  <2>2. tolerated' \in BOOLEAN
    BY <2>0
  <2> HIDE DEF b
  <2>3. phase = "running" /\ UNCHANGED <<expired, verdict, error>>
    BY <1>7 DEF UnitPasses
  <2>4. CASE unit < LastUnit
    <3>1. unit' = unit + 1 /\ phase' = phase
      BY <1>7, <2>4 DEF UnitPasses
    <3>2. QED
      BY <2>1, <2>2, <2>3, <2>4, <3>1 DEF Busy
  <2>5. CASE ~(unit < LastUnit)
    <3>1. unit' = unit /\ phase' = "closing" /\ unit = LastUnit
      BY <1>7, <2>5 DEF UnitPasses
    <3>2. QED
      BY <2>1, <2>2, <2>3, <3>1 DEF Busy
  <2>6. QED
    BY <2>4, <2>5
<1>8. ASSUME Failed PROVE ExecutorInv'
  BY <1>8 DEF Failed, ErrorOfLast, Busy
<1>9. ASSUME Closed PROVE ExecutorInv'
  BY <1>9 DEF Closed, ErrorOfLast, Busy
<1>10. ASSUME PipelineHookRaises PROVE ExecutorInv'
  BY <1>10 DEF PipelineHookRaises, Busy
<1>11. ASSUME StageHookEscapes PROVE ExecutorInv'
  <2>1. PICK s \in Stages : step[s] = "escaped"
    BY <1>11 DEF StageHookEscapes
  <2>2. ~Parallel /\ UnitOf(s) = unit
    BY <2>1 DEF StageInv
  <2>3. \A t \in Stages : UnitOf(t) = unit => t = s
    BY <2>2 DEF UnitOf
  <2>4. \A t \in Stages : step[t] \notin Busy
    BY <2>1, <2>3 DEF Busy
  <2>5. QED
    BY <1>11, <2>4 DEF StageHookEscapes
<1>12. QED
  BY <1>4, <1>5, <1>6, <1>7, <1>8, <1>9, <1>10, <1>11

LEMMA StutterKeepsInv ==
  ASSUME ExecutorInv, UNCHANGED vars
  PROVE  ExecutorInv'
<1>1. UNCHANGED <<config, stageRun, contextVars, expired, control, outcomes>>
  BY DEF vars
<1>2. exception \in [Contexts -> Contexts \cup {Cancellation}]
  BY DEF ExecutorInv, ContextType
<1>3. QED
  BY <1>1, <1>2, StagesFrame
  DEF ExecutorInv, ControlType, UnitInv, control, outcomes, stageRun,
      contextVars

LEMMA NextKeepsInv == ExecutorInv /\ [Next]_vars => ExecutorInv'
<1> SUFFICES ASSUME ExecutorInv, [Next]_vars PROVE ExecutorInv'
  OBVIOUS
<1>1. CASE \E s \in Stages : StageStep(s)
  BY <1>1, StageStepChanges, ChangeKeepsInv
<1>2. CASE UNCHANGED vars
  BY <1>2, StutterKeepsInv
<1>3. QED
  BY <1>1, <1>2, PipelineStepKeepsInv DEF Next

LEMMA ExecutorInvariant == Spec => []ExecutorInv
BY InitInv, NextKeepsInv, PTL DEF Spec

(* The ContextVars isolate the stages: whatever the interleaving, a policy *)
(* sees the exception, result and attempt of the stage it is asked about.  *)
THEOREM PoliciesAreIsolated == Spec => []PoliciesSeeOwnStage
<1>1. ExecutorInv => PoliciesSeeOwnStage
  BY DEF ExecutorInv, StageInv, PoliciesSeeOwnStage, Busy
<1>2. QED
  BY <1>1, ExecutorInvariant, PTL

-----------------------------------------------------------------------------
(* Both executors implement PipelineRun. *)

LEMMA OutcomeValue ==
  ASSUME StageRunType, NEW s \in Stages
  PROVE  /\ Outcome[s] = "waiting" <=> step[s] = "waiting"
         /\ step[s] \in Busy => Outcome[s] = "running"
         /\ step[s] = "returned" => Outcome[s] = answer[s]
         /\ step[s] \in {"raised", "escaped"} => Outcome[s] = "raised"
         /\ Outcome[s] = "running" => step[s] \in Busy
BY DEF Outcome, StageRunType, Busy, RunIsOver

(* A step of stage s changes no other outcome. *)
LEMMA OutcomeChange ==
  ASSUME ExecutorInv, NEW s \in Stages, StageChange(s)
  PROVE  Outcome' = [Outcome EXCEPT ![s] = Outcome'[s]]
<1> DEFINE Of(st, an) ==
      CASE st = "waiting" -> "waiting"
        [] st = "returned" -> an
        [] st \in {"raised", "escaped"} -> "raised"
        [] OTHER -> "running"
<1>1. Outcome = [t \in Stages |-> Of(step[t], answer[t])]
  BY DEF Outcome
<1>2. Outcome' = [t \in Stages |-> Of(step'[t], answer'[t])]
  BY DEF Outcome
<1>3. \A t \in Stages \ {s} : step'[t] = step[t] /\ answer'[t] = answer[t]
  BY DEF StageChange
<1> HIDE DEF Of
<1>4. QED
  BY <1>1, <1>2, <1>3

LEMMA StageStepRefines ==
  ASSUME ExecutorInv, NEW s \in Stages, StageStep(s)
  PROVE  Run!Begin(s) \/ Run!End(s) \/ UNCHANGED Run!vars
<1>1. StageChange(s) /\ StageInv(s)'
  BY StageStepChanges
<1>2. UNCHANGED <<verdict, policies>> /\ verdict = "none"
  BY <1>1 DEF StageChange, config, ExecutorInv, UnitInv
<1>3. Outcome' = [Outcome EXCEPT ![s] = Outcome'[s]]
  BY <1>1, OutcomeChange
<1>4. StageRunType /\ StageRunType'
  BY <1>1 DEF ExecutorInv, StageChange
<1>5. CASE step[s] = "waiting"
  <2>1. step'[s] = "announced" /\ UnitOf(s) = unit
    BY <1>4, <1>5 DEF StageStep, StageStarts, StageExecutes, StageRaises,
       StageSucceeds, StageFails, StageAnswers, StageSucceeded, StageRetries,
       StageGivesUp, StageFailed, HookRaises, Goto, StageRunType
  <2>2. Outcome[s] = "waiting" /\ Outcome'[s] = "running"
    BY <1>4, <1>5, <2>1 DEF Outcome
  <2>3. ASSUME NEW t \in Stages, GroupOf[t] < GroupOf[s]
        PROVE  Run!Over(t)
    <3>1. UnitOf(t) < unit
      BY <2>1, <2>3, UnitsFollowGroups
    <3>2. step[t] = "returned" /\ ~cancel[t]
      BY <3>1 DEF ExecutorInv, UnitInv
    <3>3. answer[t] \in {"completed", "failed"}
      BY <1>4, <3>2 DEF ExecutorInv, StageInv, StageRunType
    <3>4. "failfast" \in policies => answer[t] # "failed"
      BY <3>2 DEF ExecutorInv, StageInv
    <3>5. Outcome[t] = answer[t]
      BY <1>4, <3>2, OutcomeValue
    <3>6. QED
      BY <3>3, <3>4, <3>5 DEF Run!Over
  <2>4. QED
    BY <1>2, <1>3, <2>2, <2>3 DEF Run!Begin
<1>6. CASE step[s] # "waiting"
  <2>1. step[s] \in Busy
    BY <1>6 DEF StageStep, StageStarts, StageExecutes, StageRaises,
       StageSucceeds, StageFails, StageAnswers, StageSucceeded, StageRetries,
       StageGivesUp, StageFailed, HookRaises, Busy
  <2>2. Outcome[s] = "running"
    BY <1>4, <2>1, OutcomeValue
  <2>3. step'[s] \in Busy \cup {"returned", "raised", "escaped"}
    BY <1>4, <2>1 DEF StageStep, StageStarts, StageExecutes, StageRaises,
       StageSucceeds, StageFails, StageAnswers, StageSucceeded, StageRetries,
       StageGivesUp, StageFailed, HookRaises, Busy, Goto, StageRunType
  <2>4. CASE step'[s] \in Busy
    <3>1. Outcome'[s] = "running"
      BY <2>4 DEF Outcome, Busy
    <3>2. Outcome = [t \in Stages |-> Outcome[t]]
      BY DEF Outcome
    <3>3. Outcome' = Outcome
      BY <1>3, <2>2, <3>1, <3>2
    <3>4. QED
      BY <1>2, <3>3 DEF Run!vars
  <2>5. CASE step'[s] \in {"returned", "raised", "escaped"}
    <3>1. Outcome'[s] \in {"completed", "failed", "raised"}
      BY <1>1, <1>4, <2>5 DEF Outcome, StageInv, StageRunType
    <3>2. QED
      BY <1>2, <1>3, <2>2, <3>1 DEF Run!End
  <2>6. QED
    BY <2>3, <2>4, <2>5
<1>7. QED
  BY <1>5, <1>6

LEMMA PipelineStepRefines ==
  ASSUME ExecutorInv,
         \/ Expire \/ Opened \/ UnitStopsPipeline \/ UnitPasses \/ Failed
         \/ Closed \/ PipelineHookRaises \/ StageHookEscapes
  PROVE  Run!Conclude \/ UNCHANGED Run!vars
<1>1. UNCHANGED <<policies, step, answer>>
  BY DEF Expire, Opened, UnitStopsPipeline, UnitPasses, Failed, Closed,
         PipelineHookRaises, StageHookEscapes, config, stageRun
<1>2. Outcome' = Outcome
  BY <1>1 DEF Outcome
<1>3. ExecutorInv'
  BY PipelineStepKeepsInv
<1>4. CASE UNCHANGED verdict
  BY <1>1, <1>2, <1>4 DEF Run!vars
<1>5. CASE verdict' # verdict
  <2>1. verdict = "none" /\ phase' = "done"
    BY <1>5 DEF Expire, Opened, UnitStopsPipeline, UnitPasses, Failed, Closed,
       PipelineHookRaises, StageHookEscapes, Conclude, outcomes, ExecutorInv,
       UnitInv
  <2>2. \A s \in Stages : step[s] \notin Busy
    BY <1>1, <1>3, <2>1 DEF ExecutorInv, UnitInv
  <2>3. \A s \in Stages : Outcome[s] # "running"
    BY <2>2, OutcomeValue DEF ExecutorInv
  <2>4. \/ verdict' = "FAILED"
        \/ verdict' = "COMPLETED" /\ phase = "closing" /\ ~tolerated
    BY <1>5 DEF Expire, Opened, UnitStopsPipeline, UnitPasses, Failed, Closed,
       PipelineHookRaises, StageHookEscapes, Conclude, outcomes
  <2>5. phase = "closing" /\ ~tolerated =>
          \A s \in Stages : Outcome[s] = "completed"
    <3>1. SUFFICES ASSUME phase = "closing", ~tolerated, NEW s \in Stages
                   PROVE  Outcome[s] = "completed"
      OBVIOUS
    <3>2. step[s] = "returned" /\ answer[s] # "failed"
      BY <3>1 DEF ExecutorInv, UnitInv
    <3>3. answer[s] = "completed"
      BY <3>2 DEF ExecutorInv, StageInv, StageRunType
    <3>4. QED
      BY <3>2, <3>3, OutcomeValue DEF ExecutorInv
  <2>6. QED
    BY <1>1, <1>2, <2>1, <2>3, <2>4, <2>5 DEF Run!Conclude
<1>6. QED
  BY <1>4, <1>5

(* Whichever executor runs the pipeline, with whatever policies and hooks: *)
(* no stage starts behind a group that is not over or (fail_fast) failed,  *)
(* nothing runs on once the result is given, and COMPLETED is the truth.   *)
THEOREM ExecutorsImplementRun == Spec => RunsAsPromised
<1>1. Init => Run!Init
  <2>1. ("failfast" \in policies) \in BOOLEAN
    OBVIOUS
  <2>2. Init => Outcome = [s \in Stages |-> "waiting"] /\ verdict = "none"
    BY DEF Init, Outcome
  <2>3. QED
    BY <2>1, <2>2 DEF Run!Init
<1>2. ExecutorInv /\ [Next]_vars => [Run!Next]_(Run!vars)
  <2> SUFFICES ASSUME ExecutorInv, [Next]_vars
               PROVE  Run!Next \/ UNCHANGED Run!vars
    OBVIOUS
  <2>1. CASE \E s \in Stages : StageStep(s)
    BY <2>1, StageStepRefines DEF Run!Next
  <2>2. CASE UNCHANGED vars
    BY <2>2 DEF vars, config, stageRun, outcomes, Run!vars, Outcome
  <2>3. QED
    BY <2>1, <2>2, PipelineStepRefines DEF Next, Run!Next
<1>3. QED
  BY <1>1, <1>2, ExecutorInvariant, PTL DEF Spec, Run!Spec, RunsAsPromised

-----------------------------------------------------------------------------
(* What an execution tells of itself, as long as no hook has raised: the   *)
(* spans that are open are of stages that run, a stage has no answer until *)
(* its execution gave one, and the context's status and the tolerated      *)
(* failures say what the answers are.                                      *)

NoAnswerYet == {"waiting", "announced", "executing", "erred", "raised"}

StageTells(s) ==
  /\ step[s] # "escaped"
  /\ span[s] = "open" => step[s] \in Busy \ {"announced"}
  /\ step[s] \in NoAnswerYet => answer[s] = "none"
  /\ cancel[s] => answer[s] = "failed"

PipelineTells ==
  /\ tolerated => \E s \in Stages : answer[s] = "failed"
  /\ phase = "failing" => /\ status = "FAILED"
                          /\ \E s \in Stages : answer[s] # "completed"
  /\ phase = "closing" => status = IF tolerated THEN "FAILED" ELSE "COMPLETED"

CleanInv ==
  /\ hookErrors \in Nat
  /\ span \in [Stages -> {"none", "open", "completed", "failed"}]
  /\ hookErrors = 0 => /\ \A s \in Stages : StageTells(s)
                       /\ PipelineTells
                       /\ VerdictIsTrue

LEMMA InitClean == Init => CleanInv
<1> SUFFICES ASSUME Init PROVE CleanInv
  OBVIOUS
<1>1. \A s \in Stages : StageTells(s)
  BY DEF Init, StageTells, NoAnswerYet
<1>2. PipelineTells /\ VerdictIsTrue
  BY DEF Init, PipelineTells, VerdictIsTrue
<1>3. QED
  BY <1>1, <1>2 DEF Init, CleanInv

(* A step of a stage leaves what the others tell, the status and, since    *)
(* only an executing stage answers, the failures there were.               *)
LEMMA StageStepClean ==
  ASSUME ExecutorInv, CleanInv, NEW s \in Stages, StageStep(s)
  PROVE  CleanInv'
<1>1. StageChange(s)
  BY StageStepChanges
<1>2. /\ hookErrors' \in Nat
      /\ hookErrors' = 0 => hookErrors = 0 /\ ~HookRaises(s)
      /\ status' = status
  BY DEF CleanInv, StageStep, StageStarts, StageExecutes, StageRaises,
     StageSucceeds, StageFails, StageAnswers, StageSucceeded, StageRetries,
     StageGivesUp, StageFailed, HookRaises, HookFails, HooksReturn, hooks
<1>3. /\ span' \in [Stages -> {"none", "open", "completed", "failed"}]
      /\ \A t \in Stages \ {s} : span'[t] = span[t]
  BY DEF CleanInv, StageStep, StageStarts, StageExecutes, StageRaises,
     StageSucceeds, StageFails, StageAnswers, StageSucceeded, StageRetries,
     StageGivesUp, StageFailed, HookRaises, HooksReturn, hooks, StageEvent,
     Observe, Close
<1>4. ASSUME hookErrors' = 0
      PROVE  /\ StageTells(s)'
             /\ answer[s] = "failed" => answer'[s] = "failed"
  <2>1. hookErrors = 0 /\ ~HookRaises(s) /\ StageTells(s)
    BY <1>2, <1>4 DEF CleanInv
  <2> USE DEF StageTells, NoAnswerYet, Busy, CleanInv, ExecutorInv,
              StageRunType, HooksReturn, StageEvent, Observe, Close, Goto
  <2>2. CASE StageStarts(s)
    BY <2>1, <2>2 DEF StageStarts, hooks
  <2>3. CASE StageExecutes(s)
    BY <2>1, <2>3 DEF StageExecutes
  <2>4. CASE StageRaises(s)
    BY <2>1, <2>4 DEF StageRaises, hooks
  <2>5. CASE StageSucceeds(s)
    BY <2>1, <2>5 DEF StageSucceeds, StageAnswers, hooks
  <2>6. CASE StageFails(s)
    BY <2>1, <2>6 DEF StageFails, StageAnswers, hooks
  <2>7. CASE StageSucceeded(s)
    BY <2>1, <2>7 DEF StageSucceeded
  <2>8. CASE StageRetries(s)
    BY <2>1, <2>8 DEF StageRetries
  <2>9. CASE StageGivesUp(s)
    BY <2>1, <2>9 DEF StageGivesUp
  <2>10. CASE StageFailed(s)
    <3>1. answer[s] = "failed"
      BY <2>10 DEF StageFailed, StageInv
    <3>2. QED
      BY <2>1, <2>10, <3>1 DEF StageFailed
  <2>11. QED
    BY <2>1, <2>2, <2>3, <2>4, <2>5, <2>6, <2>7, <2>8, <2>9, <2>10
    DEF StageStep
<1>5. ASSUME hookErrors' = 0
      PROVE  (\A t \in Stages : StageTells(t)') /\ PipelineTells' /\ VerdictIsTrue'
  <2>1. hookErrors = 0
    BY <1>2, <1>5
  <2>2. \A t \in Stages : StageTells(t)'
    BY <1>1, <1>3, <1>4, <1>5, <2>1 DEF CleanInv, StageTells, StageChange
  <2>3. \A t \in Stages : answer[t] = "failed" => answer'[t] = "failed"
    BY <1>1, <1>4, <1>5 DEF StageChange
  <2>4. PipelineTells'
    BY <1>1, <2>1, <2>3 DEF CleanInv, PipelineTells, StageChange
  <2>5. VerdictIsTrue'
    BY <1>1 DEF StageChange, VerdictIsTrue, ExecutorInv, UnitInv
  <2>6. QED
    BY <2>2, <2>4, <2>5
<1>6. QED
  BY <1>2, <1>3, <1>5 DEF CleanInv

(* The executor's own steps leave the stages and their spans alone.        *)
LEMMA PipelineStepClean ==
  ASSUME ExecutorInv, CleanInv,
         \/ Expire \/ Opened \/ UnitStopsPipeline \/ UnitPasses \/ Failed
         \/ Closed \/ PipelineHookRaises \/ StageHookEscapes
  PROVE  CleanInv'
<1>1. UNCHANGED <<step, answer, cancel, span>>
  BY DEF Expire, Opened, UnitStopsPipeline, UnitPasses, Failed, Closed,
         PipelineHookRaises, StageHookEscapes, stageRun, hooks
<1>2. /\ hookErrors' \in Nat
      /\ hookErrors' = 0 => hookErrors = 0 /\ ~PipelineHookRaises
  BY DEF CleanInv, Expire, Opened, UnitStopsPipeline, UnitPasses, Failed,
         Closed, PipelineHookRaises, StageHookEscapes, HookFails, hooks
<1>3. ASSUME hookErrors' = 0
      PROVE  PipelineTells' /\ VerdictIsTrue'
  <2>1. /\ hookErrors = 0 /\ ~PipelineHookRaises
        /\ \A s \in Stages : StageTells(s)
        /\ PipelineTells /\ VerdictIsTrue
    BY <1>2, <1>3 DEF CleanInv
  <2>2. verdict = "none" <=> phase # "done"
    BY DEF ExecutorInv, UnitInv
  <2> USE <1>1, <2>1, <2>2 DEF PipelineTells, VerdictIsTrue
  <2>3. CASE Expire
    BY <2>3 DEF Expire, control, outcomes
  <2>4. CASE Opened
    BY <2>4 DEF Opened, outcomes
  <2>5. CASE UnitStopsPipeline
    <3>1. status' = "FAILED" /\ \E s \in Stages : step[s] = "raised" \/ cancel[s]
      BY <2>5 DEF UnitStopsPipeline, ExecutionFailed, FailsWith, Cancelled, Members
    <3>2. \E s \in Stages : answer[s] # "completed"
      BY <3>1 DEF StageTells, NoAnswerYet
    <3>3. QED
      BY <2>5, <3>1, <3>2 DEF UnitStopsPipeline, outcomes
  <2>6. CASE UnitPasses
    <3>1. tolerated' => \E s \in Stages : answer[s] = "failed"
      BY <2>6 DEF UnitPasses, RememberFailures, AnyFailed, Members
    <3>2. phase' = phase \/ phase' = "closing"
      BY <2>6 DEF UnitPasses
    <3>3. phase' = "closing" => status' = IF tolerated' THEN "FAILED" ELSE "COMPLETED"
      BY <2>6 DEF UnitPasses
    <3>4. QED
      BY <2>6, <3>1, <3>2, <3>3 DEF UnitPasses, outcomes
  <2>7. CASE Failed
    BY <2>7 DEF Failed, Conclude
  <2>8. CASE Closed
    <3>1. ~tolerated => \A s \in Stages : answer[s] = "completed"
      BY <2>8 DEF Closed, ExecutorInv, UnitInv, StageInv, StageRunType
    <3>2. QED
      BY <2>8, <3>1 DEF Closed, Conclude
  <2>9. CASE StageHookEscapes
    BY <2>9 DEF StageHookEscapes, StageTells
  <2>10. QED
    BY <2>3, <2>4, <2>5, <2>6, <2>7, <2>8, <2>9
<1>4. QED
  BY <1>1, <1>2, <1>3 DEF CleanInv, StageTells

LEMMA CleanInvariant == Spec => [](ExecutorInv /\ CleanInv)
<1>1. ExecutorInv /\ CleanInv /\ [Next]_vars => CleanInv'
  <2> SUFFICES ASSUME ExecutorInv, CleanInv, [Next]_vars PROVE CleanInv'
    OBVIOUS
  <2>1. CASE \E s \in Stages : StageStep(s)
    BY <2>1, StageStepClean
  <2>2. CASE UNCHANGED vars
    BY <2>2 DEF vars, control, stageRun, hooks, outcomes, CleanInv, StageTells,
       PipelineTells, VerdictIsTrue
  <2>3. QED
    BY <2>1, <2>2, PipelineStepClean DEF Next
<1>2. QED
  BY <1>1, InitInv, InitClean, NextKeepsInv, PTL DEF Spec

(* Whatever fails, is retried or tolerated, in whatever order: while no    *)
(* hook raises, the PipelineResult is COMPLETED exactly if every stage     *)
(* completed, and the ProcessingContext says the same.                     *)
THEOREM ResultTellsTheTruth == Spec => []VerdictIsTrue
<1>1. CleanInv => VerdictIsTrue
  BY DEF CleanInv, VerdictIsTrue
<1>2. QED
  BY <1>1, CleanInvariant, PTL

(* No stage's span is open when the end of the pipeline is reported, which *)
(* would drop it.                                                          *)
THEOREM SpansAreClosed == Spec => []NoSpanLost
<1>1. ExecutorInv /\ CleanInv => NoSpanLost
  BY DEF ExecutorInv, UnitInv, CleanInv, StageTells, NoSpanLost
<1>2. QED
  BY <1>1, CleanInvariant, PTL
-----------------------------------------------------------------------------
(* The error of a FAILED result, one stage after the other.  The last      *)
(* stage result is then the current stage's, which is the one that         *)
(* cancelled the pipeline; under fail_fast nothing else ends it FAILED but *)
(* an exception.                                                           *)

StageNames(s) ==
  /\ UnitOf(s) > unit => step[s] = "waiting"
  /\ step[s] # "returned" => ~cancel[s]
  /\ cancel[s] => answer[s] = "failed"
  /\ ~Parallel /\ step[s] \in {"accepted", "returned"} /\ UnitOf(s) = unit =>
       recorded # << >> /\ recorded[Len(recorded)] = s

NameInv ==
  /\ \A s \in Stages : StageNames(s)
  /\ ~Parallel => recorded \in Seq(Stages)
  /\ "failfast" \in policies => ~tolerated
  /\ phase = "failing" => Raised \/ \E s \in Members(unit) : step[s] = "returned" /\ cancel[s]
  /\ FailureIsNamed

LEMMA InitNames == Init => NameInv
<1> SUFFICES ASSUME Init PROVE NameInv
  OBVIOUS
<1>1. \A s \in Stages : StageNames(s)
  BY DEF Init, StageNames
<1>2. QED
  BY <1>1 DEF Init, NameInv, FailureIsNamed

LEMMA StageStepNames ==
  ASSUME ExecutorInv, NameInv, NEW s \in Stages, StageStep(s)
  PROVE  NameInv'
<1>1. StageChange(s)
  BY StageStepChanges
<1>2. /\ \A t \in Stages : UnitOf(t)' = UnitOf(t) /\ UnitOf(t) \in Nat
      /\ Parallel' = Parallel /\ policies' = policies
      /\ unit' = unit /\ unit \in Nat /\ UnitOf(s) = unit
  BY <1>1, ConfigFrame, UnitRange
  DEF StageChange, config, Parallel, ExecutorInv, ControlType
<1>3. ~Parallel => \A t \in Stages \ {s} : UnitOf(t) # unit
  BY <1>2 DEF UnitOf
<1>4. ~Parallel => \/ recorded' = recorded
                   \/ recorded' = Append(recorded, s)
  BY DEF StageStep, StageStarts, StageExecutes, StageRaises, StageSucceeds,
     StageFails, StageAnswers, StageSucceeded, StageRetries, StageGivesUp,
     StageFailed, HookRaises, AppendResult
<1>5. ~Parallel => recorded' \in Seq(Stages)
  BY <1>4 DEF NameInv
<1>6. StageNames(s)'
  <2>1. StageNames(s) /\ step[s] # "returned"
    BY DEF NameInv, StageStep, StageStarts, StageExecutes, StageRaises,
       StageSucceeds, StageFails, StageAnswers, StageSucceeded, StageRetries,
       StageGivesUp, StageFailed, HookRaises
  <2>2. ~Parallel => recorded \in Seq(Stages)
    BY DEF NameInv
  <2> USE <1>2, <2>1, <2>2 DEF StageNames, ExecutorInv, StageRunType, Goto
  <2>3. CASE StageStarts(s)
    BY <2>3 DEF StageStarts
  <2>4. CASE StageExecutes(s)
    BY <2>4 DEF StageExecutes
  <2>5. CASE StageRaises(s)
    BY <2>5 DEF StageRaises
  <2>6. CASE StageSucceeds(s)
    <3>1. ~Parallel => recorded' # << >> /\ recorded'[Len(recorded')] = s
      <4>1. ASSUME recorded \in Seq(Stages)
            PROVE  /\ Append(recorded, s) # << >>
                   /\ Append(recorded, s)[Len(Append(recorded, s))] = s
        BY <4>1, AppendedIsLast
      <4>2. ~Parallel => recorded' = Append(recorded, s)
        BY <2>6 DEF StageSucceeds, AppendResult
      <4>3. QED
        BY <4>1, <4>2
    <3>2. step' = [step EXCEPT ![s] = "accepted"] /\ cancel' = cancel /\ ~cancel[s]
      BY <2>6 DEF StageSucceeds, StageAnswers
    <3>3. QED
      BY <3>1, <3>2
  <2>7. CASE StageFails(s)
    BY <2>7 DEF StageFails, StageAnswers
  <2>8. CASE StageSucceeded(s)
    BY <2>8 DEF StageSucceeded
  <2>9. CASE StageRetries(s)
    BY <2>9 DEF StageRetries
  <2>10. CASE StageGivesUp(s)
    BY <2>10 DEF StageGivesUp
  <2>11. CASE StageFailed(s)
    <3>1. answer[s] = "failed"
      BY <2>11 DEF StageFailed, StageInv
    <3>2. QED
      BY <2>11, <3>1 DEF StageFailed, AppendResult
  <2>12. CASE HookRaises(s)
    BY <2>12 DEF HookRaises
  <2>13. QED
    BY <2>3, <2>4, <2>5, <2>6, <2>7, <2>8, <2>9, <2>10, <2>11, <2>12
    DEF StageStep
<1>7. \A t \in Stages \ {s} : StageNames(t)'
  BY <1>1, <1>2, <1>3 DEF NameInv, StageNames, StageChange
<1>8. QED
  BY <1>1, <1>2, <1>5, <1>6, <1>7
  DEF NameInv, StageChange, FailureIsNamed, ExecutorInv, UnitInv

(* What ends the pipeline FAILED, and that fail_fast tolerates nothing.    *)
LEMMA PipelineStepNames ==
  ASSUME ExecutorInv, NameInv,
         \/ Expire \/ Opened \/ UnitStopsPipeline \/ UnitPasses \/ Failed
         \/ Closed \/ PipelineHookRaises \/ StageHookEscapes
  PROVE  NameInv'
<1>1. UNCHANGED <<executor, policies, step, answer, cancel>>
  BY DEF Expire, Opened, UnitStopsPipeline, UnitPasses, Failed, Closed,
         PipelineHookRaises, StageHookEscapes, stageRun, config
<1>2. /\ \A t \in Stages : UnitOf(t)' = UnitOf(t) /\ UnitOf(t) \in Nat
      /\ Parallel' = Parallel
      /\ unit \in Nat
  BY <1>1, UnitRange DEF UnitOf, Parallel, ExecutorInv, ControlType
<1>3. ~Parallel => recorded' = recorded
  BY DEF Expire, Opened, UnitStopsPipeline, UnitPasses, Failed, Closed,
         PipelineHookRaises, StageHookEscapes, Collect
<1>4. \A s \in Stages : StageNames(s)'
  <2>1. unit' = unit \/ unit' = unit + 1
    BY DEF Expire, Opened, UnitStopsPipeline, UnitPasses, Failed, Closed,
           PipelineHookRaises, StageHookEscapes, control
  <2>2. QED
    BY <1>1, <1>2, <1>3, <2>1 DEF NameInv, StageNames
<1>5. "failfast" \in policies => ~tolerated'
  <2>1. CASE UnitPasses
    <3>1. ASSUME "failfast" \in policies, NEW s \in Members(unit)
          PROVE  answer[s] # "failed"
      <4>1. s \in Stages /\ step[s] = "returned" /\ ~cancel[s]
        BY <2>1, <3>1 DEF UnitPasses, UnitIsOver, Raised, Cancelled, Members,
                          RunIsOver
      <4>2. QED
        BY <3>1, <4>1 DEF ExecutorInv, StageInv
    <3>2. "failfast" \in policies => ~AnyFailed
      BY <3>1 DEF AnyFailed
    <3>3. tolerated' <=> (tolerated \/ AnyFailed)
      BY <2>1, Zenon DEF UnitPasses, RememberFailures
    <3>4. QED
      BY <3>2, <3>3 DEF NameInv
  <2>2. CASE tolerated' = tolerated
    BY <2>2 DEF NameInv
  <2>3. QED
    BY <2>1, <2>2 DEF Expire, Opened, UnitStopsPipeline, Failed, Closed,
       PipelineHookRaises, StageHookEscapes, control
<1>6. phase' = "failing" =>
        (Raised \/ \E s \in Members(unit) : step[s] = "returned" /\ cancel[s])'
  <2>1. CASE UnitStopsPipeline
    <3>1. Raised \/ \E s \in Members(unit) : cancel[s]
      BY <2>1 DEF UnitStopsPipeline, ExecutionFailed, Raised, Cancelled
    <3>2. Raised \/ \E s \in Members(unit) : step[s] = "returned" /\ cancel[s]
      BY <3>1 DEF NameInv, StageNames, Members
    <3>3. unit' = unit
      BY <2>1 DEF UnitStopsPipeline
    <3>4. QED
      BY <1>1, <1>2, <3>2, <3>3 DEF Raised, Members
  <2>2. CASE phase' = phase /\ unit' = unit
    BY <1>1, <1>2, <2>2 DEF NameInv, Raised, Members
  <2>3. CASE UnitPasses /\ phase' = phase
    BY <2>3 DEF UnitPasses
  <2>4. QED
    BY <2>1, <2>2, <2>3
    DEF Expire, Opened, UnitPasses, Failed, Closed, PipelineHookRaises,
        StageHookEscapes, Conclude, control
<1>7. FailureIsNamed'
  <2>1. CASE Failed
    <3>1. ASSUME ~Parallel, ~Raised
          PROVE  ErrorOfLast = "stage"
      <4>1. PICK s \in Members(unit) : step[s] = "returned" /\ cancel[s]
        BY <2>1, <3>1 DEF Failed, NameInv
      <4>2. recorded # << >> /\ recorded[Len(recorded)] = s /\ answer[s] = "failed"
        BY <3>1, <4>1 DEF NameInv, StageNames, Members
      <4>3. QED
        BY <4>2 DEF ErrorOfLast
    <3>2. QED
      BY <1>2, <2>1, <3>1 DEF Failed, Conclude, FailureIsNamed
  <2>2. CASE Closed
    BY <1>1, <2>2 DEF Closed, Conclude, FailureIsNamed, NameInv
  <2>3. CASE PipelineHookRaises \/ StageHookEscapes
    BY <2>3 DEF PipelineHookRaises, StageHookEscapes, Conclude, FailureIsNamed
  <2>4. CASE verdict' = verdict /\ error' = error
    BY <1>1, <1>2, <2>4 DEF NameInv, FailureIsNamed
  <2>5. QED
    BY <2>1, <2>2, <2>3, <2>4
    DEF Expire, Opened, UnitStopsPipeline, UnitPasses, outcomes
<1>8. ~Parallel' => recorded' \in Seq(Stages)
  BY <1>2, <1>3 DEF NameInv
<1>9. QED
  BY <1>1, <1>4, <1>5, <1>6, <1>7, <1>8 DEF NameInv

LEMMA NameInvariant == Spec => [](ExecutorInv /\ NameInv)
<1>1. ExecutorInv /\ NameInv /\ [Next]_vars => NameInv'
  <2> SUFFICES ASSUME ExecutorInv, NameInv, [Next]_vars PROVE NameInv'
    OBVIOUS
  <2>1. CASE \E s \in Stages : StageStep(s)
    BY <2>1, StageStepNames
  <2>2. CASE UNCHANGED vars
    BY <2>2 DEF vars, config, control, stageRun, outcomes, NameInv, StageNames,
       FailureIsNamed, Raised, Members, UnitOf, Parallel
  <2>3. QED
    BY <2>1, <2>2, PipelineStepNames DEF Next
<1>2. QED
  BY <1>1, InitInv, InitNames, NextKeepsInv, PTL DEF Spec

(* One stage after the other and under fail_fast, a FAILED result has the  *)
(* error of what failed, though it is read off the last stage result.      *)
THEOREM SequentialFailureIsNamed == Spec => []FailureIsNamed
<1>1. NameInv => FailureIsNamed
  BY DEF NameInv
<1>2. QED
  BY <1>1, NameInvariant, PTL

-----------------------------------------------------------------------------
(* Induction over the natural numbers, as facts about sets: the library's  *)
(* theorem about the order of Nat gives every set of naturals a least      *)
(* element, so the numbers a property fails for are none.                  *)
LEMMA NatOrder ==
  \E R : IsWellFoundedOn(R, Nat) /\ \A x, y \in Nat : x < y => <<x, y>> \in R
<1>1. IsWellFoundedOn(OpToRel(<, Nat), Nat)
  BY NatLessThanWellFounded
<1>2. \A x, y \in Nat : x < y => <<x, y>> \in OpToRel(<, Nat)
  BY DEF OpToRel
<1>3. QED
  BY <1>1, <1>2

LEMMA LeastNat ==
  ASSUME NEW T, T \subseteq Nat, T # {}
  PROVE  \E n \in T : \A m \in T : n <= m
<1>1. PICK R : IsWellFoundedOn(R, Nat) /\ \A x, y \in Nat : x < y => <<x, y>> \in R
  BY NatOrder
<1>2. IsWellFoundedOn(R, Nat)
  BY <1>1
<1>3. \A x, y \in Nat : x < y => <<x, y>> \in R
  BY <1>1
<1>4. PICK n \in T : \A m \in T : ~ (<<m, n>> \in R)
  BY <1>2, WFMin
<1>5. \A m \in T : n <= m
  <2> SUFFICES ASSUME NEW m \in T, m < n PROVE FALSE
    OBVIOUS
  <2>1. <<m, n>> \in R
    BY <1>3
  <2>2. QED
    BY <2>1, <1>4
<1>6. QED
  BY <1>5

LEMMA InductionOverSets ==
  ASSUME NEW P, P \subseteq Nat, 0 \in P, \A n \in P : n + 1 \in P
  PROVE  P = Nat
<1>1. SUFFICES ASSUME Nat \ P # {} PROVE FALSE
  OBVIOUS
<1>2. PICK n \in Nat \ P : \A m \in Nat \ P : n <= m
  BY <1>1, LeastNat
<1>3. n # 0
  OBVIOUS
<1>4. n - 1 \in Nat /\ n - 1 \in P
  BY <1>2, <1>3
<1>5. QED
  BY <1>4

-----------------------------------------------------------------------------
(* The stages a sequence of stage results holds, and that they are in the  *)
(* pipeline's order.                                                       *)
Held(q) == {q[i] : i \in 1 .. Len(q)}
Increasing(q) == \A i, j \in 1 .. Len(q) : i < j => q[i] < q[j]

LEMMA AppendIncreasing ==
  ASSUME NEW q \in Seq(Stages), Increasing(q), NEW s \in Stages,
         \A r \in Held(q) : r < s
  PROVE  /\ Append(q, s) \in Seq(Stages)
         /\ Increasing(Append(q, s))
         /\ Held(Append(q, s)) = Held(q) \cup {s}
<1> DEFINE p == Append(q, s)
<1>1. /\ p \in Seq(Stages) /\ Len(q) \in Nat /\ Len(p) = Len(q) + 1
      /\ \A i \in 1 .. Len(q) : p[i] = q[i]
      /\ p[Len(q) + 1] = s
  OBVIOUS
<1> HIDE DEF p
<1>2. Increasing(p)
  BY <1>1 DEF Increasing, Held
<1>3. Held(p) = Held(q) \cup {s}
  <2>1. \A i : i \in 1 .. Len(p) <=> i \in 1 .. Len(q) \/ i = Len(q) + 1
    BY <1>1
  <2>2. QED
    BY <1>1, <2>1 DEF Held
<1>4. QED
  BY <1>1, <1>2, <1>3 DEF p

LEMMA ConcatIncreasing ==
  ASSUME NEW q \in Seq(Stages), NEW p \in Seq(Stages), Increasing(q), Increasing(p),
         \A r \in Held(q), s \in Held(p) : r < s
  PROVE  /\ q \o p \in Seq(Stages)
         /\ Increasing(q \o p)
         /\ Held(q \o p) = Held(q) \cup Held(p)
<1> DEFINE c == q \o p
<1>1. /\ c \in Seq(Stages) /\ Len(q) \in Nat /\ Len(p) \in Nat
      /\ Len(c) = Len(q) + Len(p)
      /\ \A i \in 1 .. Len(q) : c[i] = q[i]
      /\ \A i \in 1 .. Len(p) : c[Len(q) + i] = p[i]
  OBVIOUS
<1> HIDE DEF c
<1>2. \A i \in 1 .. Len(c) : i \in 1 .. Len(q) \/ i - Len(q) \in 1 .. Len(p)
  BY <1>1
<1>3. \A i \in 1 .. Len(c) : i \notin 1 .. Len(q) => c[i] = p[i - Len(q)]
  <2> SUFFICES ASSUME NEW i \in 1 .. Len(c), i \notin 1 .. Len(q)
               PROVE  c[i] = p[i - Len(q)]
    OBVIOUS
  <2>1. i - Len(q) \in 1 .. Len(p) /\ Len(q) + (i - Len(q)) = i
    BY <1>1, <1>2
  <2>2. QED
    BY <1>1, <2>1
<1>4. Increasing(c)
  <2> SUFFICES ASSUME NEW i \in 1 .. Len(c), NEW j \in 1 .. Len(c), i < j
               PROVE  c[i] < c[j]
    BY DEF Increasing
  <2>1. CASE j \in 1 .. Len(q)
    <3>1. i \in 1 .. Len(q)
      BY <1>1, <2>1
    <3>2. QED
      BY <1>1, <2>1, <3>1 DEF Increasing
  <2>2. CASE j \notin 1 .. Len(q) /\ i \in 1 .. Len(q)
    <3>1. c[i] \in Held(q) /\ c[j] \in Held(p)
      BY <1>1, <1>2, <1>3, <2>2 DEF Held
    <3>2. QED
      BY <3>1
  <2>3. CASE j \notin 1 .. Len(q) /\ i \notin 1 .. Len(q)
    <3>1. i - Len(q) < j - Len(q)
      BY <1>1
    <3>2. QED
      BY <1>2, <1>3, <2>3, <3>1 DEF Increasing
  <2>4. QED
    BY <2>1, <2>2, <2>3
<1>5. Held(c) = Held(q) \cup Held(p)
  <2>1. ASSUME NEW s \in Held(c) PROVE s \in Held(q) \cup Held(p)
    <3>1. PICK i \in 1 .. Len(c) : s = c[i]
      BY <2>1 DEF Held
    <3>2. CASE i \in 1 .. Len(q)
      BY <1>1, <3>1, <3>2 DEF Held
    <3>3. CASE i \notin 1 .. Len(q)
      BY <1>2, <1>3, <3>1, <3>3 DEF Held
    <3>4. QED
      BY <3>2, <3>3
  <2>2. ASSUME NEW s \in Held(q) PROVE s \in Held(c)
    <3>1. PICK i \in 1 .. Len(q) : s = q[i]
      BY <2>2 DEF Held
    <3>2. i \in 1 .. Len(c) /\ c[i] = s
      BY <1>1, <3>1
    <3>3. QED
      BY <3>2 DEF Held
  <2>3. ASSUME NEW s \in Held(p) PROVE s \in Held(c)
    <3>1. PICK i \in 1 .. Len(p) : s = p[i]
      BY <2>3 DEF Held
    <3>2. Len(q) + i \in 1 .. Len(c) /\ c[Len(q) + i] = s
      BY <1>1, <3>1
    <3>3. QED
      BY <3>2 DEF Held
  <2>4. QED
    BY <2>1, <2>2, <2>3
<1>6. QED
  BY <1>1, <1>4, <1>5 DEF c

(* The recursive function of InOrder exists. *)
UpTo(S, f, n) == IF n = 0 THEN << >>
                 ELSE IF n \in S THEN Append(f[n - 1], n) ELSE f[n - 1]

LEMMA UpToExists ==
  ASSUME NEW S, NEW N \in Nat
  PROVE  \E f : f = [n \in 0 .. N |-> UpTo(S, f, n)]
<1> USE DEF UpTo
<1> DEFINE Def(f, n) == UpTo(S, f, n)
           P == {m \in Nat : \E f : f = [n \in 0 .. m |-> Def(f, n)]}
<1>1. 0 \in P
  <2> DEFINE f == [n \in 0 .. 0 |-> << >>]
  <2>1. f = [n \in 0 .. 0 |-> Def(f, n)]
    OBVIOUS
  <2>2. QED
    BY <2>1
<1>2. ASSUME NEW m \in P PROVE m + 1 \in P
  <2>1. PICK f : f = [n \in 0 .. m |-> Def(f, n)]
    BY <1>2
  <2> DEFINE last == IF m + 1 \in S THEN Append(f[m], m + 1) ELSE f[m]
             g == [n \in 0 .. (m + 1) |-> IF n = m + 1 THEN last ELSE f[n]]
  <2>2. m \in Nat /\ m + 1 \in Nat /\ m + 1 # 0 /\ (m + 1) - 1 = m
    BY <1>2
  <2>3. \A n \in 0 .. m : f[n] = Def(f, n)
    BY <2>1
  <2>4. \A n \in 0 .. m : n \in 0 .. (m + 1) /\ n # m + 1
    BY <2>2
  <2> HIDE DEF last
  <2>5. \A n \in 0 .. m : g[n] = f[n]
    BY <2>4
  <2>6. m \in 0 .. m /\ \A n \in 0 .. (m + 1) : n # 0 => n - 1 \in 0 .. m
    BY <2>2
  <2>7. ASSUME NEW n \in 0 .. (m + 1) PROVE g[n] = Def(g, n)
    <3>1. CASE n = m + 1
      <4>1. g[n] = last /\ n - 1 = m /\ n # 0 /\ g[m] = f[m]
        BY <3>1, <2>2, <2>5, <2>6
      <4> HIDE DEF g
      <4>2. QED
        BY <3>1, <4>1 DEF last
    <3>2. CASE n # m + 1
      <4>1. n \in 0 .. m
        BY <3>2, <2>2
      <4>2. g[n] = Def(f, n)
        BY <4>1, <2>3, <2>5
      <4>3. n # 0 => g[n - 1] = f[n - 1]
        BY <2>5, <2>6
      <4> HIDE DEF g
      <4>4. QED
        BY <4>2, <4>3
    <3>3. QED
      BY <3>1, <3>2
  <2>8. g = [n \in 0 .. (m + 1) |-> Def(g, n)]
    <3>1. g = [n \in 0 .. (m + 1) |-> g[n]]
      OBVIOUS
    <3> HIDE DEF g, Def
    <3>2. QED
      BY <2>7, <3>1
  <2> HIDE DEF g, Def
  <2>9. QED
    BY <2>2, <2>8
<1> HIDE DEF P
<1>3. P = Nat
  BY <1>1, <1>2, InductionOverSets DEF P
<1>4. QED
  BY <1>3 DEF P

(* InOrder has the stages of the set, each once and in order.              *)
LEMMA InOrderFacts ==
  ASSUME NEW S \in SUBSET Stages
  PROVE  /\ InOrder(S) \in Seq(Stages)
         /\ Increasing(InOrder(S))
         /\ Held(InOrder(S)) = S
<1> DEFINE Def(f, n) == UpTo(S, f, n)
           u == CHOOSE f : f = [n \in 0 .. NumStages |-> Def(f, n)]
<1>1. NumStages \in Nat
  BY StagesAssumption
<1>2. u = [n \in 0 .. NumStages |-> Def(u, n)]
  <2>1. \E f : f = [n \in 0 .. NumStages |-> Def(f, n)]
    BY <1>1, UpToExists
  <2>2. QED
    BY <2>1
<1>3. InOrder(S) = u[NumStages]
  BY DEF InOrder, UpTo
<1> HIDE DEF u
<1>4. \A n \in 0 .. NumStages : u[n] = Def(u, n)
  BY <1>2
<1>5. /\ 0 \in 0 .. NumStages
       /\ u[0] = << >>
       /\ \A n \in 0 .. NumStages : n # 0 =>
           u[n] = IF n \in S THEN Append(u[n - 1], n) ELSE u[n - 1]
  <2>1. 0 \in 0 .. NumStages
    BY <1>1
  <2>2. u[0] = Def(u, 0)
    BY <1>4, <2>1
  <2>3. QED
    BY <1>4, <2>1, <2>2 DEF UpTo
<1> HIDE DEF Def
<1> DEFINE P == {n \in Nat : n <= NumStages =>
                   /\ u[n] \in Seq(Stages) /\ Increasing(u[n])
                   /\ Held(u[n]) = S \cap (1 .. n)}
<1>6. 0 \in P
  <2>1. << >> \in Seq(Stages) /\ Len(<< >>) = 0 /\ 1 .. 0 = {}
    OBVIOUS
  <2>2. Increasing(<< >>) /\ Held(<< >>) = {}
    BY <2>1 DEF Increasing, Held
  <2>3. QED
    BY <1>5, <2>1, <2>2
<1>7. ASSUME NEW n \in P PROVE n + 1 \in P
  <2> SUFFICES ASSUME n + 1 <= NumStages
               PROVE  /\ u[n + 1] \in Seq(Stages) /\ Increasing(u[n + 1])
                      /\ Held(u[n + 1]) = S \cap (1 .. (n + 1))
    BY <1>7
  <2>1. /\ n \in Nat /\ n <= NumStages /\ n + 1 \in 0 .. NumStages
        /\ n + 1 # 0 /\ (n + 1) - 1 = n /\ n + 1 \in Stages
    BY <1>1, <1>7 DEF Stages
  <2>2. u[n] \in Seq(Stages) /\ Increasing(u[n]) /\ Held(u[n]) = S \cap (1 .. n)
    BY <1>7, <2>1
  <2>3. u[n + 1] = IF n + 1 \in S THEN Append(u[n], n + 1) ELSE u[n]
    BY <1>5, <2>1
  <2>4. 1 .. (n + 1) = (1 .. n) \cup {n + 1}
    BY <2>1
  <2>5. CASE n + 1 \in S
    <3>1. \A r \in Held(u[n]) : r < n + 1
      BY <2>1, <2>2
    <3>2. QED
      BY <2>1, <2>2, <2>3, <2>4, <2>5, <3>1, AppendIncreasing
  <2>6. CASE n + 1 \notin S
    BY <2>2, <2>3, <2>4, <2>6
  <2>7. QED
    BY <2>5, <2>6
<1>8. P = Nat
  <2> HIDE DEF P
  <2>1. P \subseteq Nat
    BY DEF P
  <2>2. QED
    BY <1>6, <1>7, <2>1, InductionOverSets
<1>9. /\ u[NumStages] \in Seq(Stages) /\ Increasing(u[NumStages])
      /\ Held(u[NumStages]) = S \cap (1 .. NumStages)
  BY <1>1, <1>8
<1>10. QED
  BY <1>3, <1>9 DEF Stages

-----------------------------------------------------------------------------
(* What stage_results holds, as long as no hook has raised: in a group the *)
(* results of the units that were collected, one by one those of the       *)
(* stages that answered and whose failure, if it was one, the policies     *)
(* have seen.  A stage that starts later has a greater number, so the      *)
(* sequence stays in order.                                                *)

Due ==
  {s \in Stages :
     /\ answer[s] # "none"
     /\ IF Parallel
        THEN \/ UnitOf(s) < unit
             \/ UnitOf(s) = unit /\ phase \in {"failing", "closing", "done"}
        ELSE step[s] # "rejected"}

RecordInv ==
  /\ SharedType
  /\ hookErrors = 0 => Increasing(recorded) /\ Held(recorded) = Due

LEMMA InitRecords == Init => RecordInv
<1> SUFFICES ASSUME Init PROVE RecordInv
  OBVIOUS
<1>1. << >> \in Seq(Stages) /\ Len(<< >>) = 0 /\ 1 .. 0 = {}
  OBVIOUS
<1>2. SharedType
  BY <1>1, ChoicesAssumption DEF Init, SharedType
<1>3. Increasing(recorded) /\ Held(recorded) = {}
  BY <1>1 DEF Init, Increasing, Held
<1>4. Due = {}
  BY DEF Init, Due
<1>5. QED
  BY <1>2, <1>3, <1>4 DEF RecordInv

(* One stage after the other, the stage that is recorded comes after all   *)
(* the stages that are: those that have not been reached have no answer.   *)
LEMMA RecordedBefore ==
  ASSUME ExecutorInv, CleanInv, NameInv, hookErrors = 0, ~Parallel,
         NEW s \in Stages, UnitOf(s) = unit, s \notin Due, NEW r \in Due
  PROVE  r < s
<1>1. r \in Stages /\ answer[r] # "none" /\ r # s
  BY DEF Due
<1>2. step[r] # "waiting"
  BY <1>1 DEF CleanInv, StageTells, NoAnswerYet
<1>3. ~(UnitOf(r) > unit)
  BY <1>1, <1>2 DEF NameInv, StageNames
<1>4. r \in Nat /\ s \in Nat /\ UnitOf(r) = r /\ UnitOf(s) = s
  BY <1>1, StagesAssumption DEF UnitOf, Stages
<1>5. QED
  BY <1>1, <1>3, <1>4

LEMMA StageStepRecords ==
  ASSUME ExecutorInv, CleanInv, NameInv, RecordInv, NEW s \in Stages, StageStep(s)
  PROVE  RecordInv'
<1>1. StageChange(s)
  BY StageStepChanges
<1>2. CleanInv'
  BY StageStepClean
<1>3. /\ Parallel' = Parallel /\ unit' = unit /\ UnitOf(s) = unit
      /\ phase' = phase /\ phase = "running"
      /\ \A t \in Stages : UnitOf(t)' = UnitOf(t) /\ UnitOf(t) \in Nat
      /\ unit \in Nat
  BY <1>1, ConfigFrame, UnitRange
  DEF StageChange, config, Parallel, ExecutorInv, ControlType
<1>4. /\ status' = status /\ reported' = reported
      /\ hookErrors' \in 0 .. MaxHookErrors
      /\ hookErrors' = 0 => hookErrors = 0 /\ ~HookRaises(s)
  BY ChoicesAssumption
  DEF RecordInv, SharedType, StageStep, StageStarts, StageExecutes, StageRaises,
     StageSucceeds, StageFails, StageAnswers, StageSucceeded, StageRetries,
     StageGivesUp, StageFailed, HookRaises, HookFails, HooksReturn, hooks
<1>5. recorded' = recorded \/ recorded' = Append(recorded, s)
  BY DEF StageStep, StageStarts, StageExecutes, StageRaises, StageSucceeds,
     StageFails, StageAnswers, StageSucceeded, StageRetries, StageGivesUp,
     StageFailed, HookRaises, AppendResult
<1>6. SharedType'
  BY <1>2, <1>4, <1>5 DEF RecordInv, SharedType, CleanInv
<1>7. ASSUME hookErrors' = 0
      PROVE  \/ recorded' = recorded /\ Due' = Due
             \/ /\ ~Parallel /\ recorded' = Append(recorded, s)
                /\ s \notin Due /\ Due' = Due \cup {s}
  <2>1. hookErrors = 0 /\ ~HookRaises(s) /\ StageTells(s)
    BY <1>4, <1>7 DEF CleanInv
  <2>2. \A t \in Stages \ {s} : t \in Due' <=> t \in Due
    BY <1>1, <1>3 DEF Due, StageChange
  <2>3. Due \subseteq Stages /\ Due' \subseteq Stages
    BY DEF Due
  <2>4. CASE Parallel
    <3>1. recorded' = recorded
      BY <2>1, <2>4 DEF StageStep, StageStarts, StageExecutes, StageRaises,
         StageSucceeds, StageFails, StageAnswers, StageSucceeded, StageRetries,
         StageGivesUp, StageFailed, AppendResult
    <3>2. s \notin Due /\ s \notin Due'
      BY <1>3, <2>4 DEF Due
    <3>3. QED
      BY <2>2, <2>3, <3>1, <3>2
  <2>5. CASE ~Parallel /\ (StageSucceeds(s) \/ StageFailed(s))
    <3>1. recorded' = Append(recorded, s)
      BY <2>5 DEF StageSucceeds, StageFailed, AppendResult
    <3>2. s \notin Due
      BY <2>1, <2>5 DEF StageSucceeds, StageAnswers, StageFailed, Due, StageTells,
                        NoAnswerYet
    <3>3. s \in Due'
      <4>1. CASE StageSucceeds(s)
        BY <1>3, <2>5, <4>1
        DEF StageSucceeds, StageAnswers, Goto, Due, ExecutorInv, StageRunType
      <4>2. CASE StageFailed(s)
        <5>1. answer[s] = "failed"
          BY <4>2 DEF StageFailed, ExecutorInv, StageInv
        <5>2. QED
          BY <1>3, <2>5, <4>2, <5>1
          DEF StageFailed, Goto, Due, ExecutorInv, StageRunType
      <4>3. QED
        BY <2>5, <4>1, <4>2
    <3>4. QED
      BY <2>2, <2>3, <2>5, <3>1, <3>2, <3>3
  <2>6. CASE ~Parallel /\ ~StageSucceeds(s) /\ ~StageFailed(s)
    <3>1. recorded' = recorded
      BY <2>1, <2>6 DEF StageStep, StageStarts, StageExecutes, StageRaises,
         StageFails, StageAnswers, StageSucceeded, StageRetries, StageGivesUp
    <3>2. s \in Due' <=> s \in Due
      <4> USE <1>3, <2>1, <2>6
          DEF Due, StageTells, NoAnswerYet, ExecutorInv, StageRunType, Goto
      <4>1. CASE StageStarts(s)
        BY <4>1 DEF StageStarts
      <4>2. CASE StageExecutes(s)
        BY <4>2 DEF StageExecutes
      <4>3. CASE StageRaises(s)
        BY <4>3 DEF StageRaises
      <4>4. CASE StageFails(s)
        BY <4>4 DEF StageFails, StageAnswers
      <4>5. CASE StageSucceeded(s)
        BY <4>5 DEF StageSucceeded
      <4>6. CASE StageRetries(s)
        BY <4>6 DEF StageRetries
      <4>7. CASE StageGivesUp(s)
        BY <4>7 DEF StageGivesUp
      <4>8. QED
        BY <2>1, <4>1, <4>2, <4>3, <4>4, <4>5, <4>6, <4>7 DEF StageStep
    <3>3. \A t \in Stages : t \in Due' <=> t \in Due
      BY <2>2, <3>2
    <3>4. Due' = Due
      BY <2>3, <3>3
    <3>5. QED
      BY <3>1, <3>4
  <2>7. QED
    BY <2>4, <2>5, <2>6
<1>8. ASSUME hookErrors' = 0
      PROVE  Increasing(recorded') /\ Held(recorded') = Due'
  <2>1. /\ hookErrors = 0 /\ recorded \in Seq(Stages)
        /\ Increasing(recorded) /\ Held(recorded) = Due
    BY <1>4, <1>8 DEF RecordInv, SharedType
  <2>2. CASE recorded' = recorded /\ Due' = Due
    BY <2>1, <2>2
  <2>3. CASE /\ ~Parallel /\ recorded' = Append(recorded, s)
             /\ s \notin Due /\ Due' = Due \cup {s}
    <3>1. \A r \in Held(recorded) : r < s
      BY <1>3, <2>1, <2>3, RecordedBefore
    <3>2. QED
      BY <2>1, <2>3, <3>1, AppendIncreasing
  <2>4. QED
    BY <1>7, <1>8, <2>2, <2>3
<1>9. Increasing(recorded)' = Increasing(recorded') /\ Held(recorded)' = Held(recorded')
  BY DEF Increasing, Held
<1>10. QED
  BY <1>6, <1>8, <1>9 DEF RecordInv

(* In a unit that is over, the stages that returned are those that         *)
(* answered.                                                               *)
LEMMA ReturnedAnswered ==
  ASSUME ExecutorInv, CleanInv, hookErrors = 0, UnitIsOver
  PROVE  {s \in Members(unit) : step[s] = "returned"} = {s \in Members(unit) : answer[s] # "none"}
BY DEF ExecutorInv, StageInv, CleanInv, StageTells, NoAnswerYet, UnitIsOver,
       Members, RunIsOver

(* The executor's own steps record the results of the unit that is over,   *)
(* whose stages come after all the stages of the units before it.          *)
LEMMA PipelineStepRecords ==
  ASSUME ExecutorInv, CleanInv, NameInv, RecordInv,
         \/ Expire \/ Opened \/ UnitStopsPipeline \/ UnitPasses \/ Failed
         \/ Closed \/ PipelineHookRaises \/ StageHookEscapes
  PROVE  RecordInv'
<1>1. /\ UNCHANGED <<executor, step, answer, span>>
      /\ Parallel' = Parallel
      /\ \A t \in Stages : UnitOf(t)' = UnitOf(t) /\ UnitOf(t) \in Nat
      /\ unit \in Nat
  <2>1. UNCHANGED <<executor, step, answer, span>>
    BY DEF Expire, Opened, UnitStopsPipeline, UnitPasses, Failed, Closed,
           PipelineHookRaises, StageHookEscapes, stageRun, config, hooks
  <2>2. QED
    BY <2>1, UnitRange DEF UnitOf, Parallel, ExecutorInv, ControlType
<1>2. /\ hookErrors' \in 0 .. MaxHookErrors
      /\ hookErrors' = 0 => hookErrors = 0 /\ ~PipelineHookRaises
  BY ChoicesAssumption
  DEF RecordInv, SharedType, Expire, Opened, UnitStopsPipeline, UnitPasses,
      Failed, Closed, PipelineHookRaises, StageHookEscapes, HookFails, hooks
<1>3. status' \in {"RUNNING", "COMPLETED", "FAILED"}
  BY DEF RecordInv, SharedType, Expire, Opened, UnitStopsPipeline, UnitPasses,
         Failed, Closed, PipelineHookRaises, StageHookEscapes, ExecutionFailed,
         FailsWith
<1>4. reported' \in {"none", "open", "COMPLETED"}
  BY DEF RecordInv, SharedType, Expire, Opened, UnitStopsPipeline, UnitPasses,
         Failed, Closed, PipelineHookRaises, StageHookEscapes, ReportEnd, hooks
<1>5. recorded \in Seq(Stages)
  BY DEF RecordInv, SharedType
<1>6. {s \in Members(unit) : step[s] = "returned"} \in SUBSET Stages
  BY DEF Members
<1>7. /\ Results \in Seq(Stages) /\ Increasing(Results)
      /\ Held(Results) = {s \in Members(unit) : step[s] = "returned"}
  BY <1>6, InOrderFacts DEF Results
<1>8. \/ recorded' = recorded
      \/ /\ UnitStopsPipeline \/ UnitPasses
         /\ Parallel /\ recorded' = recorded \o Results
  BY DEF Expire, Opened, UnitStopsPipeline, UnitPasses, Failed, Closed,
         PipelineHookRaises, StageHookEscapes, Collect
<1>9. SharedType'
  <2>1. \A q, p \in Seq(Stages) : q \o p \in Seq(Stages)
    OBVIOUS
  <2>2. recorded' \in Seq(Stages)
    BY <1>5, <1>7, <1>8, <2>1
  <2>3. QED
    BY <1>1, <1>2, <1>3, <1>4, <2>2 DEF RecordInv, SharedType
<1>10. ASSUME hookErrors' = 0
       PROVE  Increasing(recorded') /\ Held(recorded') = Due'
  <2>1. /\ hookErrors = 0 /\ ~PipelineHookRaises /\ ~StageHookEscapes
        /\ Increasing(recorded) /\ Held(recorded) = Due
    BY <1>2, <1>10 DEF RecordInv, CleanInv, StageTells, StageHookEscapes
  <2>2. CASE ~Parallel
    <3>1. recorded' = recorded /\ Due' = Due
      BY <1>1, <1>8, <2>2 DEF Due
    <3>2. QED
      BY <2>1, <3>1
  <2>3. CASE Parallel /\ (UnitStopsPipeline \/ UnitPasses)
    <3>1. phase = "running" /\ UnitIsOver
      BY <2>3 DEF UnitStopsPipeline, UnitPasses
    <3>2. recorded' = recorded \o Results
      BY <2>3 DEF UnitStopsPipeline, UnitPasses, Collect
    <3>3. Held(Results) = {s \in Members(unit) : answer[s] # "none"}
      BY <1>7, <2>1, <3>1, ReturnedAnswered
    <3>4. Due = {s \in Stages : answer[s] # "none" /\ UnitOf(s) < unit}
      BY <2>3, <3>1 DEF Due
    <3>5. \A r \in Due, s \in Held(Results) : r < s
      <4> SUFFICES ASSUME NEW r \in Due, NEW s \in Held(Results) PROVE r < s
        OBVIOUS
      <4>1. r \in Stages /\ s \in Stages /\ GroupOf[r] < GroupOf[s]
        BY <2>3, <3>3, <3>4 DEF UnitOf, Members
      <4>2. ~(s <= r) /\ r \in Nat /\ s \in Nat
        BY <4>1, StagesAssumption, GroupsAssumption DEF Stages
      <4>3. QED
        BY <4>2
    <3>6. /\ Increasing(recorded \o Results)
          /\ Held(recorded \o Results) = Held(recorded) \cup Held(Results)
      BY <1>5, <1>7, <2>1, <3>5, ConcatIncreasing
    <3>7. Due' = Due \cup {s \in Members(unit) : answer[s] # "none"}
      <4>1. \/ phase' \in {"failing", "closing"} /\ unit' = unit
            \/ phase' = "running" /\ unit' = unit + 1
        BY <2>3, <3>1 DEF UnitStopsPipeline, UnitPasses
      <4>2. Due' = {s \in Stages : answer[s] # "none" /\ UnitOf(s) <= unit}
        BY <1>1, <2>3, <4>1 DEF Due
      <4>3. QED
        BY <1>1, <3>4, <4>2 DEF Members
    <3>8. QED
      BY <2>1, <3>2, <3>3, <3>6, <3>7
  <2>4. CASE Expire \/ Opened \/ Failed \/ Closed
    <3>1. recorded' = recorded /\ unit' = unit
      BY <2>4 DEF Expire, Opened, Failed, Closed, control
    <3>2. phase' \in {"failing", "closing", "done"} <=> phase \in {"failing", "closing", "done"}
      BY <2>4 DEF Expire, Opened, Failed, Closed, Conclude, control
    <3>3. Due' = Due
      BY <1>1, <3>1, <3>2 DEF Due
    <3>4. QED
      BY <2>1, <3>1, <3>3
  <2>5. QED
    BY <2>1, <2>2, <2>3, <2>4
<1>11. Increasing(recorded)' = Increasing(recorded') /\ Held(recorded)' = Held(recorded')
  BY DEF Increasing, Held
<1>12. QED
  BY <1>9, <1>10, <1>11 DEF RecordInv

LEMMA RecordInvariant == Spec => [](ExecutorInv /\ CleanInv /\ NameInv /\ RecordInv)
<1>1. ExecutorInv /\ CleanInv /\ NameInv /\ RecordInv /\ [Next]_vars => RecordInv'
  <2> SUFFICES ASSUME ExecutorInv, CleanInv, NameInv, RecordInv, [Next]_vars
               PROVE  RecordInv'
    OBVIOUS
  <2>1. CASE \E s \in Stages : StageStep(s)
    BY <2>1, StageStepRecords
  <2>2. CASE UNCHANGED vars
    BY <2>2 DEF vars, config, control, stageRun, hooks, RecordInv, SharedType,
       Due, Increasing, Held, UnitOf, Parallel
  <2>3. QED
    BY <2>1, <2>2, PipelineStepRecords DEF Next
<1>2. QED
  BY <1>1, InitRecords, CleanInvariant, NameInvariant, PTL DEF Spec

(* The state an execution keeps has the types it is declared with, the     *)
(* sequence of stage results included, and no stage is executed more often *)
(* than its max_attempts allows.                                           *)
THEOREM ExecutorIsTyped == Spec => []TypeOK
<1>1. ExecutorInv /\ RecordInv => TypeOK
  BY DEF ExecutorInv, RecordInv, TypeOK
<1>2. QED
  BY <1>1, RecordInvariant, PTL

(* Every stage that answered is in the PipelineResult, once and in the     *)
(* pipeline's order, also when a sibling of its group raised.              *)
THEOREM ResultsAreComplete == Spec => []AnswersAreRecorded
<1>1. ExecutorInv /\ CleanInv /\ NameInv /\ RecordInv => AnswersAreRecorded
  <2> SUFFICES ASSUME ExecutorInv, CleanInv, NameInv, RecordInv,
                      verdict # "none", hookErrors = 0
               PROVE  /\ \A s \in Stages : answer[s] # "none" <=> s \in Held(recorded)
                      /\ Increasing(recorded)
    BY DEF AnswersAreRecorded, Held, Increasing
  <2>1. phase = "done" /\ Held(recorded) = Due /\ Increasing(recorded)
    BY DEF ExecutorInv, UnitInv, RecordInv
  <2>2. ASSUME NEW s \in Stages, answer[s] # "none" PROVE s \in Due
    <3>1. step[s] \notin Busy /\ step[s] # "waiting"
      BY <2>1, <2>2 DEF ExecutorInv, UnitInv, CleanInv, StageTells, NoAnswerYet
    <3>2. ~(UnitOf(s) > unit)
      BY <3>1 DEF NameInv, StageNames
    <3>3. UnitOf(s) \in Nat /\ unit \in Nat
      BY UnitRange DEF ExecutorInv, ControlType
    <3>4. UnitOf(s) < unit \/ UnitOf(s) = unit
      BY <3>2, <3>3
    <3>5. QED
      BY <2>1, <2>2, <3>1, <3>4 DEF Due, Busy
  <2>3. \A s \in Due : answer[s] # "none"
    BY DEF Due
  <2>4. QED
    BY <2>1, <2>2, <2>3
<1>2. QED
  BY <1>1, RecordInvariant, PTL
=============================================================================
