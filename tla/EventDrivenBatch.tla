-------------------------- MODULE EventDrivenBatch --------------------------
(***************************************************************************)
(* The lag watcher and the batch pipeline together.  A change committed to *)
(* the watched table reaches Bronze through the stream, moves the counter  *)
(* the watcher reads, and so starts a run of the batch pipeline, which     *)
(* reads the tables themselves.                                            *)
(***************************************************************************)
EXTENDS LagWatcher, BatchPipeline

CONSTANTS
  Watched,     \* order_status_history
  MaxTrouble   \* bound: restarts and failures, taken together

ASSUME EventDrivenAssumption == Watched \in Entities /\ MaxTrouble \in Nat

vars == <<watchVars, runVars>>

Init == WatchInit /\ RunInit

(* The stream has only rows of changes already committed to the table.     *)
FlushChanges ==
  \E n \in 1..MaxRows : \E new \in 0..n :
    streamed + new <= Len(log[Watched]) /\ Flush(n, new)

Trouble == restarts + watchFaults + runFaults
MoreTrouble == Trouble < MaxTrouble

WatcherRuns == FlushChanges \/ Scrape \/ WatchStep

WatcherFails == ConsumerRestarts \/ WatchFault \/ TriggerFails(FALSE)

(* Creating a DagRun is one request: the watcher's task and the new run    *)
(* change together.                                                        *)
RunIsCreated == \E r \in Runs : CreateRun(r)

Next ==
  \/ WatcherRuns /\ UNCHANGED runVars
  \/ MoreTrouble /\ WatcherFails /\ UNCHANGED runVars
  \/ TriggerPipeline /\ RunIsCreated
  \/ MoreTrouble /\ TriggerFails(TRUE) /\ RunIsCreated
  \/ Changing /\ UNCHANGED watchVars
  \/ \E r \in Runs : RunStep(r) /\ UNCHANGED watchVars
  \/ \E r \in Runs : MoreTrouble /\ RunFault(r) /\ UNCHANGED watchVars

Spec == Init /\ [][Next]_vars

(* Airflow's scheduler runs what is ready, Prometheus scrapes every 15     *)
(* seconds, tasks end, and the stream writes what was committed, which is  *)
(* EventuallyCommitted of BronzeConsumer.  Nothing is assumed of the       *)
(* source, of restarts or of faults.                                       *)
FairSpec ==
  /\ Spec
  /\ WF_vars(FlushChanges /\ UNCHANGED runVars)
  /\ WF_vars(Scrape /\ UNCHANGED runVars)
  /\ WF_vars(WatchStep /\ UNCHANGED runVars)
  /\ WF_vars(TriggerPipeline /\ RunIsCreated)
  /\ \A r \in Runs : WF_vars(RunStep(r) /\ UNCHANGED watchVars)

-----------------------------------------------------------------------------
(* What the watcher is for: a change the stream has written is, at last,   *)
(* in Gold.  A run that fails its row count because the table moved is     *)
(* made good by the run of that change's own flush; a cycle that fails     *)
(* before it detects, or does not restart, by the daily one.  What is not  *)
(* made good: a signal that was consumed and created no run, a failed task *)
(* of a run, a counter that was reset, and runs that overlap, since each   *)
(* may delete the other's files and both then fail.                        *)
FreshGold ==
  \A n \in 1..MaxChanges :
    streamed >= n ~>
      \/ \E c \in gold[Watched] : c >= n
      \/ lost \/ runFaults > 0 \/ restarts > 0
      \/ \E r \in Runs : overlapped[r]
=============================================================================
