----------------------------- MODULE LagWatcher -----------------------------
(***************************************************************************)
(* The order_status_history_lag_watcher DAG.  It watches the counter of    *)
(* rows the Bronze consumer has written, triggers the batch pipeline when  *)
(* the counter's value is not the one it consumed last (the watermark, an  *)
(* Airflow Variable), and keeps itself alive by triggering its own next    *)
(* cycle; a daily schedule restarts a chain that broke.                    *)
(*                                                                         *)
(* The counter lives in the memory of the consumer: a restart loses it,    *)
(* and the series is absent until the next write.  Prometheus answers with *)
(* what it scraped last.  A poke that finds nothing changes no state, so   *)
(* it is a stuttering step.                                                *)
(***************************************************************************)
EXTENDS Integers

CONSTANTS
  MaxRows,        \* the largest flush, in rows
  MaxFlushes,     \* bound: flushes of the consumer
  MaxRestarts,    \* bound: restarts of the consumer
  MaxWatchFaults  \* bound: failed tasks of the watcher

ASSUME WatchAssumption ==
  /\ MaxRows \in Nat /\ MaxFlushes \in Nat
  /\ MaxRestarts \in Nat /\ MaxWatchFaults \in Nat

VARIABLES
  counter,      \* mdp_bronze_records_written_total of the running consumer
  scraped,      \* the sample an instant query of Prometheus returns
  watermark,    \* the Variable ..._last_consumed_count
  sensor,       \* task sense_new_records_written of the running cycle
  trigger,      \* task trigger_marketplace_batch_pipeline
  restart,      \* task restart_watch_cycle
  queued,       \* DagRuns of the watcher that wait for max_active_runs
  fires,        \* runs of the batch pipeline the watcher has created
  streamed,     \* history: source changes whose rows the consumer has written
  scrapedAt,    \* history: streamed, when Prometheus scraped its sample
  seen,         \* history: scrapedAt, when a poke last fired
  flushes,      \* history: flushes of the consumer
  restarts,     \* history: restarts of the consumer
  lost,         \* history: a consumed signal created no run
  watchFaults   \* history: tasks of the watcher that failed

signal == <<counter, streamed, flushes, restarts>>
sample == <<scraped, scrapedAt>>
cycle == <<sensor, trigger, restart>>
watchVars == <<signal, sample, cycle, watermark, queued, fires, seen, lost, watchFaults>>

NoData == -1
Readings == Nat \cup {NoData}

SensorStates == {"idle", "sensing", "detected", "success", "skipped", "failed"}
TaskStates == {"pending", "success", "skipped", "failed"}

WatchInit ==
  /\ counter = NoData /\ streamed = 0 /\ flushes = 0 /\ restarts = 0
  /\ scraped = NoData /\ scrapedAt = 0
  /\ watermark = 0 /\ seen = 0
  /\ sensor = "idle" /\ trigger = "pending" /\ restart = "pending"
  /\ queued = 1            \* the one manual trigger the DAG asks for
  /\ fires = 0 /\ lost = FALSE /\ watchFaults = 0

-----------------------------------------------------------------------------
(* The consumer and Prometheus.                                            *)

(* A flush writes n rows and adds them to the counter, whose series        *)
(* appears with its first increment.  Before any restart each row is a new *)
(* change; after one, some are rows the consumer writes again.             *)
Flush(n, new) ==
  /\ flushes < MaxFlushes
  /\ restarts = 0 => new = n
  /\ counter' = n + (IF counter = NoData THEN 0 ELSE counter)
  /\ streamed' = streamed + new
  /\ flushes' = flushes + 1
  /\ UNCHANGED <<restarts, sample, cycle, watermark, queued, fires, seen, lost, watchFaults>>

ConsumerRestarts ==
  /\ restarts < MaxRestarts
  /\ restarts' = restarts + 1
  /\ counter' = NoData
  /\ UNCHANGED <<streamed, flushes, sample, cycle, watermark, queued, fires, seen, lost, watchFaults>>

Scrape ==
  /\ <<scraped, scrapedAt>> # <<counter, streamed>>
  /\ scraped' = counter
  /\ scrapedAt' = streamed
  /\ UNCHANGED <<signal, cycle, watermark, queued, fires, seen, lost, watchFaults>>

-----------------------------------------------------------------------------
(* The sensor.                                                             *)

StartUnqueued ==    \* mutant: a cycle starts without a queued DagRun
  /\ sensor = "idle"
  /\ queued' = queued - 1
  /\ sensor' = "sensing" /\ trigger' = "pending" /\ restart' = "pending"
  /\ UNCHANGED <<signal, sample, watermark, fires, seen, lost, watchFaults>>

StartCycle ==
  /\ sensor = "idle" /\ queued > 0
  /\ queued' = queued - 1
  /\ sensor' = "sensing" /\ trigger' = "pending" /\ restart' = "pending"
  /\ UNCHANGED <<signal, sample, watermark, fires, seen, lost, watchFaults>>

(* _new_records_detected(): an empty result or an unchanged value is no    *)
(* news.                                                                   *)
NewRecordsDetected == scraped # NoData /\ scraped # watermark

PokeForgets ==      \* mutant: the watermark is not moved
  /\ sensor = "sensing" /\ NewRecordsDetected
  /\ seen' = scrapedAt
  /\ sensor' = "detected"
  /\ UNCHANGED <<signal, sample, trigger, restart, watermark, queued, fires, lost, watchFaults>>

PokeReadsAgain ==   \* mutant: the watermark is a fresh reading, not the one compared
  /\ sensor = "sensing" /\ NewRecordsDetected /\ counter # NoData
  /\ watermark' = counter
  /\ seen' = scrapedAt
  /\ sensor' = "detected"
  /\ UNCHANGED <<signal, sample, trigger, restart, queued, fires, lost, watchFaults>>

(* A poke that finds news moves the watermark before the task succeeds.    *)
PokeDetects ==
  /\ sensor = "sensing" /\ NewRecordsDetected
  /\ watermark' = scraped
  /\ seen' = scrapedAt
  /\ sensor' = "detected"
  /\ UNCHANGED <<signal, sample, trigger, restart, queued, fires, lost, watchFaults>>

SensorSucceeds ==
  /\ sensor = "detected"
  /\ sensor' = "success"
  /\ UNCHANGED <<signal, sample, trigger, restart, watermark, queued, fires, seen, lost, watchFaults>>

TimeoutSkipsRestart ==   \* mutant: the restart has trigger_rule all_success
  /\ sensor = "sensing" /\ ~NewRecordsDetected
  /\ sensor' = "skipped" /\ trigger' = "skipped" /\ restart' = "skipped"
  /\ UNCHANGED <<signal, sample, watermark, queued, fires, seen, lost, watchFaults>>

TimeoutResyncs ==        \* mutant: the watermark catches up when a cycle times out
  /\ sensor = "sensing" /\ ~NewRecordsDetected
  /\ sensor' = "skipped" /\ trigger' = "skipped"
  /\ watermark' = IF counter = NoData THEN watermark ELSE counter
  /\ UNCHANGED <<signal, sample, restart, queued, fires, seen, lost, watchFaults>>

(* soft_fail: the timeout, looked at only after a poke that found nothing, *)
(* skips the sensor and, with it, the trigger.                             *)
SensorTimesOut ==
  /\ sensor = "sensing" /\ ~NewRecordsDetected
  /\ sensor' = "skipped" /\ trigger' = "skipped"
  /\ UNCHANGED <<signal, sample, restart, watermark, queued, fires, seen, lost, watchFaults>>

(* Any other exception of a poke, or the loss of its worker, before or     *)
(* after the watermark is set, fails the sensor and both tasks behind it.  *)
SensorFails ==
  /\ sensor \in {"sensing", "detected"}
  /\ watchFaults < MaxWatchFaults
  /\ watchFaults' = watchFaults + 1
  /\ sensor' = "failed" /\ trigger' = "failed" /\ restart' = "failed"
  /\ lost' = (lost \/ sensor = "detected")
  /\ UNCHANGED <<signal, sample, watermark, queued, fires, seen>>

-----------------------------------------------------------------------------
(* The two tasks behind the sensor, in either order.                       *)

(* trigger_rule all_success.                                               *)
MayTrigger == sensor = "success" /\ trigger = "pending"

TriggerPipeline ==
  /\ MayTrigger
  /\ trigger' = "success"
  /\ fires' = fires + 1
  /\ UNCHANGED <<signal, sample, sensor, restart, watermark, queued, seen, lost, watchFaults>>

(* The call fails, before or after the run it asks for was created; there  *)
(* are no retries.                                                         *)
TriggerFails(created) ==
  /\ MayTrigger
  /\ watchFaults < MaxWatchFaults
  /\ watchFaults' = watchFaults + 1
  /\ trigger' = "failed"
  /\ fires' = IF created THEN fires + 1 ELSE fires
  /\ lost' = (lost \/ ~created)
  /\ UNCHANGED <<signal, sample, sensor, restart, watermark, queued, seen>>

(* trigger_rule none_failed.                                               *)
MayRestart == sensor \in {"success", "skipped"} /\ restart = "pending"

RestartCycle ==
  /\ MayRestart
  /\ restart' = "success"
  /\ queued' = queued + 1
  /\ UNCHANGED <<signal, sample, sensor, trigger, watermark, fires, seen, lost, watchFaults>>

RestartFails(created) ==
  /\ MayRestart
  /\ watchFaults < MaxWatchFaults
  /\ watchFaults' = watchFaults + 1
  /\ restart' = "failed"
  /\ queued' = IF created THEN queued + 1 ELSE queued
  /\ UNCHANGED <<signal, sample, sensor, trigger, watermark, fires, seen, lost>>

EndCycle ==
  /\ sensor # "idle" /\ trigger # "pending" /\ restart # "pending"
  /\ sensor' = "idle"
  /\ UNCHANGED <<signal, sample, trigger, restart, watermark, queued, fires, seen, lost, watchFaults>>

(* schedule=timedelta(days=1): Airflow creates the day's run when fewer    *)
(* than max_active_runs runs of the DAG are queued or running.             *)
DailySchedule ==
  /\ sensor = "idle" /\ queued = 0
  /\ queued' = 1
  /\ UNCHANGED <<signal, sample, cycle, watermark, fires, seen, lost, watchFaults>>

-----------------------------------------------------------------------------
WatchStep ==
  \/ StartCycle \/ PokeDetects \/ SensorSucceeds \/ SensorTimesOut
  \/ RestartCycle \/ EndCycle \/ DailySchedule

WatchFault == SensorFails \/ \E created \in BOOLEAN : RestartFails(created)

Flushes == \E n \in 1..MaxRows : \E new \in 0..n : Flush(n, new)

WatchNext ==
  \/ Flushes \/ ConsumerRestarts \/ Scrape
  \/ WatchStep \/ WatchFault
  \/ TriggerPipeline \/ \E created \in BOOLEAN : TriggerFails(created)

WatchSpec == WatchInit /\ [][WatchNext]_watchVars

-----------------------------------------------------------------------------
WatchTypeOK ==
  /\ counter \in Readings /\ scraped \in Readings
  /\ watermark \in Nat
  /\ sensor \in SensorStates /\ trigger \in TaskStates /\ restart \in TaskStates
  /\ queued \in Nat /\ fires \in Nat /\ seen \in Nat
  /\ streamed \in Nat /\ scrapedAt \in Nat
  /\ flushes \in Nat /\ restarts \in Nat /\ watchFaults \in Nat
  /\ lost \in BOOLEAN

(* The signals nobody has acted on yet: a value not scraped, a sample not  *)
(* consumed, a detection not yet handed to the pipeline.                   *)
Unscraped == IF counter \notin {NoData, scraped} THEN 1 ELSE 0
Unread == IF scraped \notin {NoData, watermark} THEN 1 ELSE 0
Unfired == IF sensor = "detected" \/ MayTrigger THEN 1 ELSE 0

(* No storm: every run of the pipeline is paid for by a flush of its own,  *)
(* whatever is scraped late, restarted or failed.  (The rolling window the *)
(* watermark replaced fired 188 times on one signal.)                      *)
NoStorm == fires + Unscraped + Unread + Unfired <= flushes

(* One chain of cycles: the cycle that waits or has not restarted yet is   *)
(* the only one, so cycles never multiply, and as long as no task failed   *)
(* there is one, so the watch needs no second manual trigger.              *)
Heirs == queued + (IF sensor # "idle" /\ restart = "pending" THEN 1 ELSE 0)

OneWatchChain == Heirs <= 1 /\ (watchFaults = 0 => Heirs = 1)

(* As long as the consumer has not restarted, a poke that finds nothing is *)
(* right: Prometheus has no row the watcher has not acted on.              *)
QuietIsRight ==
  restarts = 0 /\ sensor = "sensing" /\ ~NewRecordsDetected => scrapedAt = seen
=============================================================================
