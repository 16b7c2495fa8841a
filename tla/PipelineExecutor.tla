-------------------------- MODULE PipelineExecutor --------------------------
(***************************************************************************)
(* One execute() of a Pipeline (processing/executor): BaseExecutor around  *)
(* SequentialExecutor, which runs the stages one by one in its own         *)
(* context, or ParallelExecutor, which runs the members of a group as      *)
(* concurrent asyncio tasks.  What the policies see of a stage is in       *)
(* ContextVars, of which every task has a copy of its own; the hooks       *)
(* (TracingHook, PrometheusHook) and the ProcessingContext are shared.     *)
(*                                                                         *)
(* A step is what a task does between two awaits: a hook dispatch and      *)
(* Stage.execute() may suspend it, policies are evaluated in one go.       *)
(***************************************************************************)
EXTENDS Naturals, Sequences

CONSTANTS
  NumStages,      \* stages, numbered in the order the Pipeline yields them
  GroupOf,        \* GroupOf[s]: the position of s's group in Pipeline.groups
  MaxAttempts,    \* MaxAttempts[s]: Stage.max_attempts
  Executors,      \* which executors: a subset of {"sequential", "parallel"}
  PolicySets,     \* sets of policies that may be registered: "failfast" is
                  \* FailurePolicy(fail_fast=True), "retry" RetryPolicy and
                  \* "timeout" a TimeoutPolicy with a started_at
  MaxHookErrors   \* bound: exceptions hooks raise

Stages == 1 .. NumStages

ASSUME StagesAssumption ==
  /\ NumStages \in Nat \ {0}
  /\ MaxAttempts \in [Stages -> Nat \ {0}]

ASSUME GroupsAssumption ==
  /\ GroupOf \in [Stages -> Nat \ {0}]
  /\ \A s, t \in Stages : s <= t => GroupOf[s] <= GroupOf[t]
  /\ \A g \in 1 .. GroupOf[NumStages] : \E s \in Stages : GroupOf[s] = g

ASSUME ChoicesAssumption ==
  /\ Executors \subseteq {"sequential", "parallel"}
  /\ \A policies \in PolicySets :
       policies \subseteq {"failfast", "retry", "timeout"}
  /\ MaxHookErrors \in Nat

None == 0                     \* Python's None, where a stage is expected
Cancellation == NumStages + 1 \* RuntimeError("Pipeline cancelled by ...")
Contexts == {0} \cup Stages   \* the executor's own context is context 0

VARIABLES
  executor,    \* the executor that runs the pipeline
  policies,    \* its PolicyManager's policies
  expired,     \* the TimeoutPolicy's timeout has passed
  phase,       \* "opening", "running", "failing", "closing" or "done"
  unit,        \* the unit that runs: a group, or a stage
  tolerated,   \* has_tolerated_failures
  \* The run of a stage (_run_stage, or a turn of the sequential loop).
  step,        \* step[s]: where it is
  tries,       \* tries[s]: calls of Stage.execute(), the local "attempt"
  answer,      \* answer[s]: status of the StageResult, or "none"
  cancel,      \* cancel[s]: the policies' cancel_pipeline
  \* The ContextVars of each context.
  attempt,     \* current_attempt(), None as 0
  limit,       \* current_max_attempts()
  result,      \* current_stage_result(): the stage that returned it
  exception,   \* current_stage_exception(): the stage whose run raised it,
               \* or Cancellation
  \* Shared.
  status,      \* ExecutionKeys.STATUS of the ProcessingContext
  recorded,    \* stage_results: the stages whose results it holds
  span,        \* span[s]: the stage's span in the TracingHook
  reported,    \* status of the trace and of the pipeline metrics
  hookErrors,  \* exceptions hooks have raised
  \* The PipelineResult.
  verdict,     \* its status, "none" before
  error        \* its error_type: "none", "stage" or "exception"

config == <<executor, policies>>
control == <<phase, unit, tolerated>>
stageRun == <<step, tries, answer, cancel>>
contextVars == <<attempt, limit, result, exception>>
hooks == <<span, reported, hookErrors>>
outcomes == <<verdict, error>>
vars == <<config, expired, control, stageRun, contextVars, status, recorded,
          hooks, outcomes>>

Parallel == executor = "parallel"

(* Mutant: the single slot ExecutionRuntime had before the ContextVars. *)
SharedContext(s) == 0

(* The context a stage runs in: asyncio.gather() gives every member of a   *)
(* group a task, hence a copy of the ContextVars.                          *)
ContextOf(s) == IF Parallel THEN s ELSE 0

UnitOf(s) == IF Parallel THEN GroupOf[s] ELSE s

LastUnit == UnitOf(NumStages)

Members(u) == {s \in Stages : UnitOf(s) = u}

RunIsOver == {"returned", "raised"}

-----------------------------------------------------------------------------
Init ==
  /\ executor \in Executors
  /\ policies \in PolicySets
  /\ expired = FALSE
  /\ phase = "opening"
  /\ unit = 1
  /\ tolerated = FALSE
  /\ step = [s \in Stages |-> "waiting"]
  /\ tries = [s \in Stages |-> 0]
  /\ answer = [s \in Stages |-> "none"]
  /\ cancel = [s \in Stages |-> FALSE]
  /\ attempt = [c \in Contexts |-> 0]
  /\ limit = [c \in Contexts |-> 0]
  /\ result = [c \in Contexts |-> None]
  /\ exception = [c \in Contexts |-> None]
  /\ status = "RUNNING"
  /\ recorded = << >>
  /\ span = [s \in Stages |-> "none"]
  /\ reported = "none"
  /\ hookErrors = 0
  /\ verdict = "none"
  /\ error = "none"

(* The time limit passes, whatever the executor is doing. *)
Expire ==
  /\ "timeout" \in policies
  /\ ~expired
  /\ phase # "done"
  /\ expired' = TRUE
  /\ UNCHANGED <<config, control, stageRun, contextVars, status, recorded,
                 hooks, outcomes>>

-----------------------------------------------------------------------------
(* Emitting an event to the hooks: they all return, or one of them raises, *)
(* before or after the tracing and metrics hooks saw the event.            *)

HookFails == /\ hookErrors < MaxHookErrors
             /\ hookErrors' = hookErrors + 1

Observe(s, seen) == span' = [span EXCEPT ![s] = seen]

(* Only an open span can be closed: a second event of a stage is ignored. *)
Close(s, seen) ==
  span' = [span EXCEPT ![s] = IF @ = "open" THEN seen ELSE @]

(* What BEFORE_STAGE, STAGE_FAILED or AFTER_STAGE does to the span. *)
StageEvent(s) ==
  CASE step[s] = "announced" -> Observe(s, "open")
    [] step[s] \in {"erred", "rejected"} -> Close(s, "failed")
    [] step[s] = "accepted" -> Close(s, "completed")

(* The hooks all handled the event a stage is emitting. *)
HooksReturn(s) == StageEvent(s) /\ UNCHANGED <<reported, hookErrors>>

Goto(s, state) == step' = [step EXCEPT ![s] = state]

(* A hook raises.  The task of a parallel stage ends with the exception,   *)
(* whatever the stage did; in the sequential executor it leaves the loop.  *)
HookRaises(s) ==
  /\ step[s] \in {"announced", "erred", "rejected", "accepted"}
  /\ HookFails
  /\ StageEvent(s) \/ UNCHANGED span
  /\ Goto(s, IF Parallel THEN "raised" ELSE "escaped")
  /\ UNCHANGED <<config, expired, control, tries, answer, cancel,
                 contextVars, status, recorded, reported, outcomes>>

-----------------------------------------------------------------------------
(* The run of one stage. *)

(* stage_started() and max_attempts(): the context forgets the last stage. *)
StageStarts(s) ==
  /\ phase = "running"
  /\ UnitOf(s) = unit
  /\ step[s] = "waiting"
  /\ Goto(s, "announced")
  /\ attempt' = [attempt EXCEPT ![ContextOf(s)] = 1]
  /\ limit' = [limit EXCEPT ![ContextOf(s)] = MaxAttempts[s]]
  /\ result' = [result EXCEPT ![ContextOf(s)] = None]
  /\ exception' = [exception EXCEPT ![ContextOf(s)] = None]
  /\ UNCHANGED <<config, expired, control, tries, answer, cancel, status,
                 recorded, hooks, outcomes>>

(* BEFORE_STAGE was handled: stage.execute() is awaited. *)
StageExecutes(s) ==
  /\ step[s] = "announced"
  /\ HooksReturn(s)
  /\ Goto(s, "executing")
  /\ tries' = [tries EXCEPT ![s] = 1]
  /\ UNCHANGED <<config, expired, control, answer, cancel, contextVars,
                 status, recorded, outcomes>>

(* stage.execute() raises: stage_failed(). *)
StageRaises(s) ==
  /\ step[s] = "executing"
  /\ Goto(s, "erred")
  /\ exception' = [exception EXCEPT ![ContextOf(s)] = s]
  /\ UNCHANGED <<config, expired, control, tries, answer, cancel, attempt,
                 limit, result, status, recorded, hooks, outcomes>>

(* stage_finished() *)
StageFinished(s) == attempt' = [attempt EXCEPT ![ContextOf(s)] = 0]

(* The sequential loop appends to stage_results itself; a task of the      *)
(* parallel executor leaves it to _execute_pipeline().                     *)
AppendResult(s) ==
  recorded' = IF Parallel THEN recorded ELSE Append(recorded, s)

StageAnswers(s, outcome) ==
  /\ step[s] = "executing"
  /\ answer' = [answer EXCEPT ![s] = outcome]
  /\ result' = [result EXCEPT ![ContextOf(s)] = s]
  /\ UNCHANGED <<config, expired, control, tries, cancel, limit, exception,
                 status, hooks, outcomes>>

StageSucceeds(s) ==
  /\ StageAnswers(s, "completed")
  /\ Goto(s, "accepted")
  /\ AppendResult(s)
  /\ StageFinished(s)

StageFails(s) ==
  /\ StageAnswers(s, "failed")
  /\ Goto(s, "rejected")
  /\ UNCHANGED <<attempt, recorded>>

(* AFTER_STAGE was handled. *)
StageSucceeded(s) ==
  /\ step[s] = "accepted"
  /\ HooksReturn(s)
  /\ Goto(s, "returned")
  /\ UNCHANGED <<config, expired, control, tries, answer, cancel,
                 contextVars, status, recorded, outcomes>>

-----------------------------------------------------------------------------
(* The policies, evaluated in the context of a stage whose STAGE_FAILED    *)
(* event was handled.  current_attempt() and current_max_attempts() read   *)
(* an empty ContextVar as 1.                                               *)

OrOne(n) == IF n = 0 THEN 1 ELSE n

BusinessFailure(c) ==
  /\ exception[c] = None
  /\ result[c] # None
  /\ answer[result[c]] = "failed"

(* FailurePolicy cancels, or TimeoutPolicy does. *)
Cancels(c) == \/ "failfast" \in policies /\ BusinessFailure(c)
              \/ expired

(* Mutant: one attempt too many. *)
RetriesOnceMore(c) ==
  /\ "retry" \in policies
  /\ ~Cancels(c)
  /\ exception[c] # None
  /\ OrOne(attempt[c]) <= OrOne(limit[c])

(* RetryPolicy asks for a retry, and no policy cancels. *)
Retries(c) ==
  /\ "retry" \in policies
  /\ ~Cancels(c)
  /\ exception[c] # None
  /\ OrOne(attempt[c]) < OrOne(limit[c])

(* Mutants: the context keeps the exception of the last attempt; the       *)
(* attempts are not counted.                                               *)
RetryKeepsException(s) ==
  /\ tries' = [tries EXCEPT ![s] = @ + 1]
  /\ attempt' = [attempt EXCEPT ![ContextOf(s)] = tries'[s]]
  /\ result' = [result EXCEPT ![ContextOf(s)] = None]
  /\ UNCHANGED exception
RetryUncounted(s) ==
  /\ result' = [result EXCEPT ![ContextOf(s)] = None]
  /\ exception' = [exception EXCEPT ![ContextOf(s)] = None]
  /\ UNCHANGED <<tries, attempt>>

(* attempt += 1, retry_started() *)
RetryStarted(s) ==
  /\ tries' = [tries EXCEPT ![s] = @ + 1]
  /\ attempt' = [attempt EXCEPT ![ContextOf(s)] = tries'[s]]
  /\ result' = [result EXCEPT ![ContextOf(s)] = None]
  /\ exception' = [exception EXCEPT ![ContextOf(s)] = None]

StageRetries(s) ==
  /\ step[s] = "erred"
  /\ Retries(ContextOf(s))
  /\ HooksReturn(s)
  /\ RetryStarted(s)
  /\ Goto(s, "executing")
  /\ UNCHANGED <<config, expired, control, answer, cancel, limit, status,
                 recorded, outcomes>>

(* The exception leaves the run of the stage. *)
StageGivesUp(s) ==
  /\ step[s] = "erred"
  /\ ~Retries(ContextOf(s))
  /\ HooksReturn(s)
  /\ StageFinished(s)
  /\ Goto(s, "raised")
  /\ UNCHANGED <<config, expired, control, tries, answer, cancel, limit,
                 result, exception, status, recorded, outcomes>>

(* A business failure is never retried. *)
StageFailed(s) ==
  /\ step[s] = "rejected"
  /\ HooksReturn(s)
  /\ cancel' = [cancel EXCEPT ![s] = Cancels(ContextOf(s))]
  /\ AppendResult(s)
  /\ StageFinished(s)
  /\ Goto(s, "returned")
  /\ UNCHANGED <<config, expired, control, tries, answer, limit, result,
                 exception, status, outcomes>>

StageStep(s) == \/ StageStarts(s)  \/ StageExecutes(s) \/ StageRaises(s)
                \/ StageSucceeds(s) \/ StageFails(s)   \/ StageSucceeded(s)
                \/ StageRetries(s) \/ StageGivesUp(s)  \/ StageFailed(s)
                \/ HookRaises(s)

-----------------------------------------------------------------------------
(* The executor's own coroutine. *)

(* execution_started() was done in Init; BEFORE_PIPELINE is handled. *)
Opened ==
  /\ phase = "opening"
  /\ phase' = "running"
  /\ reported' = "open"
  /\ UNCHANGED <<config, expired, unit, tolerated, stageRun, contextVars,
                 status, recorded, span, hookErrors, outcomes>>

(* Mutant: gather() without return_exceptions raises at the first failure. *)
AnyRaisedOrAllOver ==
  \/ \E s \in Members(unit) : step[s] = "raised"
  \/ \A s \in Members(unit) : step[s] \in RunIsOver

(* asyncio.gather() returns, or the sequential loop is done with a stage.  *)
UnitIsOver == \A s \in Members(unit) : step[s] \in RunIsOver

Raised == \E s \in Members(unit) : step[s] = "raised"
Cancelled == \E s \in Members(unit) : cancel[s]
AnyFailed == \E s \in Members(unit) : answer[s] = "failed"

(* The stages of a set in the pipeline's order. *)
InOrder(S) ==
  LET upTo[n \in 0 .. NumStages] ==
        IF n = 0 THEN << >>
        ELSE IF n \in S THEN Append(upTo[n - 1], n) ELSE upTo[n - 1]
  IN  upTo[NumStages]

Results == InOrder({s \in Members(unit) : step[s] = "returned"})

(* Mutant: the results of a group are dropped when a member raised. *)
CollectUnlessRaised ==
  recorded' = IF Parallel /\ ~Raised THEN recorded \o Results ELSE recorded

(* The outcomes of a group that are results, in the order of the group. *)
Collect == recorded' = IF Parallel THEN recorded \o Results ELSE recorded

(* execution_failed() with the first exception of the unit, or with the    *)
(* cancellation; it is called in the executor's own context.               *)
FailsWith(e) ==
  /\ status' = "FAILED"
  /\ exception' = [exception EXCEPT ![0] = e]

ExecutionFailed ==
  \/ \E s \in Members(unit) :
       /\ step[s] = "raised"
       /\ \A t \in Members(unit) : step[t] = "raised" => s <= t
       /\ FailsWith(s)
  \/ ~Raised /\ Cancelled /\ FailsWith(Cancellation)

(* An exception or a cancellation ends the pipeline: execution_failed(),   *)
(* then PIPELINE_FAILED.                                                   *)
UnitStopsPipeline ==
  /\ phase = "running"
  /\ UnitIsOver
  /\ Collect
  /\ ExecutionFailed
  /\ phase' = "failing"
  /\ UNCHANGED <<config, expired, unit, tolerated, stageRun, attempt, limit,
                 result, hooks, outcomes>>

(* Mutant: only the last group's failures are remembered. *)
ToleratedInUnit == tolerated' = AnyFailed

RememberFailures == tolerated' = (tolerated \/ AnyFailed)

(* The next unit starts, or the pipeline ends: execution_completed() or    *)
(* execution_failed(), then AFTER_PIPELINE.                                *)
UnitPasses ==
  /\ phase = "running"
  /\ UnitIsOver
  /\ ~Raised
  /\ ~Cancelled
  /\ Collect
  /\ RememberFailures
  /\ IF unit < LastUnit
     THEN unit' = unit + 1 /\ UNCHANGED <<phase, status, exception>>
     ELSE /\ phase' = "closing"
          /\ IF tolerated'
             THEN status' = "FAILED" /\ UNCHANGED exception
             ELSE /\ status' = "COMPLETED"
                  /\ exception' = [exception EXCEPT ![0] = None]
          /\ UNCHANGED unit
  /\ UNCHANGED <<config, expired, stageRun, attempt, limit, result, hooks,
                 outcomes>>

-----------------------------------------------------------------------------
(* The events that end a pipeline are emitted without a result, which the  *)
(* hooks take for COMPLETED.                                               *)
ReportEnd == reported' = IF reported = "open" THEN "COMPLETED" ELSE reported

(* Mutant: the first StageResult's error. *)
ErrorOfFirst ==
  IF recorded # << >> /\ answer[recorded[1]] = "failed"
  THEN "stage" ELSE "none"

(* The error of a result with status FAILED: its last StageResult's. *)
ErrorOfLast ==
  IF recorded # << >> /\ answer[recorded[Len(recorded)]] = "failed"
  THEN "stage" ELSE "none"

Conclude(v, e) ==
  /\ phase' = "done"
  /\ verdict' = v
  /\ error' = e

(* PIPELINE_FAILED was handled: the exception reaches execute(), or        *)
(* _execute_pipeline() returns FAILED.                                     *)
Failed ==
  /\ phase = "failing"
  /\ ReportEnd
  /\ Conclude("FAILED", IF Raised THEN "exception" ELSE ErrorOfLast)
  /\ UNCHANGED <<config, expired, unit, tolerated, stageRun, contextVars,
                 status, recorded, span, hookErrors>>

(* AFTER_PIPELINE was handled. *)
Closed ==
  /\ phase = "closing"
  /\ ReportEnd
  /\ IF tolerated THEN Conclude("FAILED", ErrorOfLast)
                  ELSE Conclude("COMPLETED", "none")
  /\ UNCHANGED <<config, expired, unit, tolerated, stageRun, contextVars,
                 status, recorded, span, hookErrors>>

(* A hook of the pipeline's own events raises: execute() catches it. *)
PipelineHookRaises ==
  /\ phase \in {"opening", "failing", "closing"}
  /\ HookFails
  /\ \/ UNCHANGED reported
     \/ IF phase = "opening" THEN reported' = "open" ELSE ReportEnd
  /\ Conclude("FAILED", "exception")
  /\ UNCHANGED <<config, expired, unit, tolerated, stageRun, contextVars,
                 status, recorded, span>>

(* The exception of a stage's hook leaves the sequential loop, past every  *)
(* call that ends an execution, for execute() to catch.                    *)
StageHookEscapes ==
  /\ phase = "running"
  /\ \E s \in Stages : step[s] = "escaped"
  /\ Conclude("FAILED", "exception")
  /\ UNCHANGED <<config, expired, unit, tolerated, stageRun, contextVars,
                 status, recorded, hooks>>

Next == \/ Expire
        \/ \E s \in Stages : StageStep(s)
        \/ Opened
        \/ UnitStopsPipeline
        \/ UnitPasses
        \/ Failed
        \/ Closed
        \/ PipelineHookRaises
        \/ StageHookEscapes

Spec == Init /\ [][Next]_vars

(* The event loop runs whatever is ready, and every hook and every call of *)
(* Stage.execute() eventually returns or raises.                           *)
FairSpec == Spec /\ WF_vars(Next)

-----------------------------------------------------------------------------
(* Properties *)

ControlType ==
  /\ executor \in Executors
  /\ policies \in PolicySets
  /\ expired \in BOOLEAN
  /\ phase \in {"opening", "running", "failing", "closing", "done"}
  /\ unit \in 1 .. LastUnit
  /\ tolerated \in BOOLEAN
  /\ verdict \in {"none", "COMPLETED", "FAILED"}
  /\ error \in {"none", "stage", "exception"}

StageRunType ==
  /\ step \in [Stages -> {"waiting", "announced", "executing", "erred",
                          "rejected", "accepted", "escaped"} \cup RunIsOver]
  /\ tries \in [Stages -> Nat]
  /\ \A s \in Stages : tries[s] <= MaxAttempts[s]
  /\ answer \in [Stages -> {"none", "completed", "failed"}]
  /\ cancel \in [Stages -> BOOLEAN]

ContextType ==
  /\ attempt \in [Contexts -> Nat]
  /\ limit \in [Contexts -> Nat]
  /\ result \in [Contexts -> Contexts]
  /\ exception \in [Contexts -> Contexts \cup {Cancellation}]

SharedType ==
  /\ status \in {"RUNNING", "COMPLETED", "FAILED"}
  /\ recorded \in Seq(Stages)
  /\ span \in [Stages -> {"none", "open", "completed", "failed"}]
  /\ reported \in {"none", "open", "COMPLETED"}
  /\ hookErrors \in 0 .. MaxHookErrors

(* The type invariant; no stage is executed more often than max_attempts   *)
(* allows.                                                                 *)
TypeOK == ControlType /\ StageRunType /\ ContextType /\ SharedType

(* A policy evaluated for one stage's failure never observes the data of a *)
(* stage that runs concurrently, nor of an earlier attempt or stage.       *)
PoliciesSeeOwnStage ==
  \A s \in Stages : LET c == ContextOf(s) IN
    /\ step[s] = "erred" => /\ exception[c] = s
                            /\ attempt[c] = tries[s]
                            /\ limit[c] = MaxAttempts[s]
    /\ step[s] = "rejected" => exception[c] = None /\ result[c] = s

(* Without failing hooks, the PipelineResult and the context agree on what *)
(* happened: COMPLETED exactly if every stage completed, failures that     *)
(* were tolerated in an earlier group included.                            *)
VerdictIsTrue ==
  verdict # "none" /\ hookErrors = 0 =>
    /\ status = verdict
    /\ verdict = "COMPLETED" <=> \A s \in Stages : answer[s] = "completed"

(* Without failing hooks, stage_results holds the result of every stage    *)
(* that returned one, once and in the pipeline's order, the siblings of a  *)
(* stage that raised included.                                             *)
AnswersAreRecorded ==
  verdict # "none" /\ hookErrors = 0 =>
    /\ \A s \in Stages : answer[s] # "none" <=>
         \E i \in 1 .. Len(recorded) : recorded[i] = s
    /\ \A i, j \in 1 .. Len(recorded) : i < j => recorded[i] < recorded[j]

(* The end of a pipeline, which drops the spans still open, is not         *)
(* reported while the span of a stage is open.                             *)
NoSpanLost ==
  phase \in {"failing", "closing"} /\ hookErrors = 0 =>
    \A s \in Stages : span[s] # "open"

(* The FAILED result of stages run one by one under the default fail_fast  *)
(* carries an error.  In a group, or when failures are tolerated, it need  *)
(* not: the last stage result may be one that completed.                   *)
FailureIsNamed ==
  verdict = "FAILED" /\ ~Parallel /\ "failfast" \in policies
    => error # "none"

(* execute() ends, however often stages raise. *)
EventuallyConcludes == <>(verdict # "none")

(* The abstract promise. *)
Outcome ==
  [s \in Stages |->
     CASE step[s] = "waiting" -> "waiting"
       [] step[s] = "returned" -> answer[s]
       [] step[s] \in {"raised", "escaped"} -> "raised"
       [] OTHER -> "running"]

Run == INSTANCE PipelineRun WITH failFast <- "failfast" \in policies,
                                 outcome <- Outcome

RunsAsPromised == Run!Spec

(* "Failures inside Hooks must never affect business execution unless      *)
(* explicitly configured" (ADR-009, Hook Manager).                         *)
HooksAreIsolated ==
  verdict # "none" /\ (\A s \in Stages : answer[s] = "completed")
    => verdict = "COMPLETED"

(* The pipeline metrics tell the failed executions (ADR-009, Metrics):     *)
(* what the hooks report of a pipeline is what its result says.            *)
ReportIsTrue ==
  verdict # "none" /\ hookErrors = 0 => reported = verdict
=============================================================================
