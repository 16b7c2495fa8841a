-------------------------- MODULE LakeMaintenance --------------------------
(***************************************************************************)
(* bronze_streaming_maintenance: a daily run compacts the Delta table of   *)
(* every streaming entity, then vacuums them, while the Bronze consumer    *)
(* appends to the same tables and readers hold on to older versions.       *)
(*                                                                         *)
(* Delta, as the code relies on it: a commit that removes files fails when *)
(* one of them is no longer in the table, an append never does; a removed  *)
(* file stays in the bucket as a tombstone until a vacuum finds it older   *)
(* than the retention.                                                     *)
(***************************************************************************)
EXTENDS Integers, FiniteSets

CONSTANTS
  Entities,     \* STREAMING_ENTITIES
  Runs,         \* runs of the DAG; the schedule and a hand may overlap two
  Retention,    \* _RETENTION_HOURS, in ticks of the clock
  MaxRead,      \* how long a reader uses the version it has opened
  MaxFlushes,   \* bound: flushes of the consumer
  MaxFailures   \* bound: entities a task fails for

ASSUME LakeAssumption ==
  /\ Retention \in Nat /\ MaxRead \in Nat /\ MaxRead < Retention
  /\ MaxFlushes \in Nat /\ MaxFailures \in Nat /\ Entities # {} /\ "consumer" \notin Runs

(* A file is named by its writer and the flushes whose rows it has.        *)
Flushes == 1..MaxFlushes
File(writer, flushes) == [by |-> writer, flushes |-> flushes]
Files == [by : Runs \cup {"consumer"}, flushes : SUBSET Flushes]

VARIABLES
  bucket,      \* per entity: the objects under bronze/{entity}/
  live,        \* per entity: the files of the table's newest version
  tombstone,   \* per entity: the age of a removed file, up to Retention
  flushed,     \* history, per entity: the flushes that have been acknowledged
  begun,       \* history: the flushes begun
  writing,     \* the flush whose file is written and not committed: <<e, k>>, or <<>>
  phase,       \* per run: its task and what became of it
  pending,     \* per run: entities its task has still to do
  opened,      \* per run: the table version it compacts: <<e, files>>, or <<>>
  failures,   \* history: entities a task has failed for
  errors,      \* per run: entities its task failed for
  reader       \* an open version: <<e, files, how long>>, or <<>>

tables == <<bucket, live, tombstone>>
consumer == <<flushed, begun, writing>>
runs == <<phase, pending, opened, errors, failures>>
lakeVars == <<tables, consumer, runs, reader>>

NotRemoved == -1
Nothing == <<>>

LakeInit ==
  /\ bucket = [e \in Entities |-> {}] /\ live = [e \in Entities |-> {}]
  /\ tombstone = [e \in Entities |-> [f \in Files |-> NotRemoved]]
  /\ flushed = [e \in Entities |-> {}] /\ begun = 0 /\ writing = Nothing
  /\ phase = [r \in Runs |-> "scheduled"] /\ pending = [r \in Runs |-> {}]
  /\ opened = [r \in Runs |-> Nothing] /\ errors = [r \in Runs |-> {}] /\ failures = 0
  /\ reader = Nothing

-----------------------------------------------------------------------------
(* The consumer: write_deltalake() writes a file, then commits it.         *)

WriteFile(e) ==
  /\ writing = Nothing /\ begun < MaxFlushes
  /\ begun' = begun + 1 /\ writing' = <<e, begun + 1>>
  /\ bucket' = [bucket EXCEPT ![e] = @ \cup {File("consumer", {begun + 1})}]
  /\ UNCHANGED <<live, tombstone, flushed, runs, reader>>

CommitAppend ==
  /\ writing # Nothing /\ writing' = Nothing
  /\ LET e == writing[1] IN
     /\ live' = [live EXCEPT ![e] = @ \cup {File("consumer", {writing[2]})}]
     /\ flushed' = [flushed EXCEPT ![e] = @ \cup {writing[2]}]
  /\ UNCHANGED <<bucket, tombstone, begun, runs, reader>>

(* What was written stays in the bucket: no version knows of it.           *)
AppendDies ==
  /\ writing # Nothing /\ writing' = Nothing
  /\ UNCHANGED <<tables, flushed, begun, runs, reader>>

-----------------------------------------------------------------------------
(* optimize_bronze: compact() of one entity after another.                 *)

StartRun(r) ==
  /\ phase[r] = "scheduled" /\ phase' = [phase EXCEPT ![r] = "optimize"]
  /\ pending' = [pending EXCEPT ![r] = Entities]
  /\ UNCHANGED <<tables, consumer, opened, errors, failures, reader>>

LoadTable(r, e) ==
  /\ phase[r] = "optimize" /\ e \in pending[r] /\ opened[r] = Nothing
  /\ opened' = [opened EXCEPT ![r] = <<e, live[e]>>]
  /\ UNCHANGED <<tables, consumer, phase, pending, errors, failures, reader>>

Rows(fs) == UNION {f.flushes : f \in fs}
Compacted(r, fs) == File(r, Rows(fs))

(* Which files are small enough to be worth compacting is Delta's choice;  *)
(* fewer than two are left as they are.                                    *)
Bins(fs) == {b \in SUBSET fs : Cardinality(b) >= 2}

Misses(r, e) ==
  /\ failures < MaxFailures /\ failures' = failures + 1
  /\ errors' = [errors EXCEPT ![r] = @ \cup {e}]
Tried(r, e) == pending' = [pending EXCEPT ![r] = @ \ {e}]
StillThere(e, fs) == fs \subseteq live[e]

Compact(r) ==
  LET e == opened[r][1] IN
  /\ opened[r] # Nothing /\ opened' = [opened EXCEPT ![r] = Nothing] /\ Tried(r, e)
  /\ \E b \in Bins(opened[r][2]) :
       /\ StillThere(e, b)
       /\ bucket' = [bucket EXCEPT ![e] = @ \cup {Compacted(r, b)}]
       /\ live' = [live EXCEPT ![e] = (@ \ b) \cup {Compacted(r, b)}]
       /\ tombstone' = [tombstone EXCEPT ![e] = [f \in Files |-> IF f \in b THEN 0 ELSE @[f]]]
  /\ UNCHANGED <<consumer, phase, errors, failures, reader>>

NothingToCompact(r) ==
  /\ opened[r] # Nothing /\ opened' = [opened EXCEPT ![r] = Nothing]
  /\ Tried(r, opened[r][1])
  /\ UNCHANGED <<tables, consumer, phase, errors, failures, reader>>

(* Another run's compaction came first, or the storage failed: what was    *)
(* written stays in the bucket, and the loop goes on with the next entity. *)
CompactFails(r) ==
  LET e == opened[r][1] IN
  /\ opened[r] # Nothing /\ opened' = [opened EXCEPT ![r] = Nothing] /\ Tried(r, e)
  /\ Misses(r, e)
  /\ \E b \in Bins(opened[r][2]) \cup {{}} :
       bucket' = [bucket EXCEPT ![e] = IF b = {} THEN @ ELSE @ \cup {Compacted(r, b)}]
  /\ UNCHANGED <<live, tombstone, consumer, phase, reader>>

(* A task that has an error raises at its end; vacuum_bronze follows only  *)
(* a task that has none.                                                   *)
Ends(r, task) == phase[r] = task /\ pending[r] = {} /\ opened[r] = Nothing

EndOptimize(r) ==
  /\ Ends(r, "optimize")
  /\ IF errors[r] = {}
     THEN /\ phase' = [phase EXCEPT ![r] = "vacuum"]
          /\ pending' = [pending EXCEPT ![r] = Entities]
     ELSE phase' = [phase EXCEPT ![r] = "failed"] /\ UNCHANGED pending
  /\ UNCHANGED <<tables, consumer, opened, errors, failures, reader>>

-----------------------------------------------------------------------------
(* vacuum_bronze.                                                          *)

RemovedAtAll(e) == {f \in Files : tombstone[e][f] >= 0}      \* mutant: no retention
Expired(e) == {f \in Files : tombstone[e][f] >= Retention}

Vacuum(r, e) ==
  /\ phase[r] = "vacuum" /\ e \in pending[r] /\ Tried(r, e)
  /\ bucket' = [bucket EXCEPT ![e] = @ \ Expired(e)]
  /\ UNCHANGED <<live, tombstone, consumer, phase, opened, errors, failures, reader>>

(* Part of the files may be gone by then.                                  *)
VacuumFails(r, e) ==
  /\ phase[r] = "vacuum" /\ e \in pending[r] /\ Tried(r, e)
  /\ \E fs \in SUBSET (Expired(e) \cap bucket[e]) : bucket' = [bucket EXCEPT ![e] = @ \ fs]
  /\ Misses(r, e)
  /\ UNCHANGED <<live, tombstone, consumer, phase, opened, reader>>

EndVacuum(r) ==
  /\ Ends(r, "vacuum")
  /\ phase' = [phase EXCEPT ![r] = IF errors[r] = {} THEN "succeeded" ELSE "failed"]
  /\ UNCHANGED <<tables, consumer, pending, opened, errors, failures, reader>>

-----------------------------------------------------------------------------
(* Readers of a table, and the clock.                                      *)

OpenVersion(e) ==
  /\ reader = Nothing /\ reader' = <<e, live[e], 0>>
  /\ UNCHANGED <<tables, consumer, runs>>

CloseVersion ==
  /\ reader # Nothing /\ reader' = Nothing /\ UNCHANGED <<tables, consumer, runs>>

Hour ==
  /\ reader # Nothing => reader[3] < MaxRead
  /\ \E e \in Entities, f \in Files : tombstone[e][f] \in 0..(Retention - 1)
  /\ tombstone' = [e \in Entities |-> [f \in Files |->
        tombstone[e][f] + (IF tombstone[e][f] \in 0..(Retention - 1) THEN 1 ELSE 0)]]
  /\ reader' = IF reader = Nothing THEN Nothing ELSE <<reader[1], reader[2], reader[3] + 1>>
  /\ UNCHANGED <<bucket, live, consumer, runs>>

RunStep(r) ==
  \/ StartRun(r) \/ Compact(r) \/ NothingToCompact(r) \/ CompactFails(r)
  \/ EndOptimize(r) \/ EndVacuum(r)
  \/ \E e \in Entities : LoadTable(r, e) \/ Vacuum(r, e) \/ VacuumFails(r, e)

LakeNext ==
  \/ CommitAppend \/ AppendDies \/ CloseVersion \/ Hour
  \/ \E e \in Entities : WriteFile(e) \/ OpenVersion(e)
  \/ \E r \in Runs : RunStep(r)

LakeSpec == LakeInit /\ [][LakeNext]_lakeVars

-----------------------------------------------------------------------------
LakePhases == {"scheduled", "optimize", "vacuum", "failed", "succeeded"}

LakeTypeOK ==
  /\ bucket \in [Entities -> SUBSET Files] /\ live \in [Entities -> SUBSET Files]
  /\ tombstone \in [Entities -> [Files -> -1..Retention]]
  /\ flushed \in [Entities -> SUBSET Flushes] /\ begun \in 0..MaxFlushes /\ failures \in 0..MaxFailures
  /\ writing = Nothing \/ writing \in Entities \X Flushes
  /\ phase \in [Runs -> LakePhases] /\ pending \in [Runs -> SUBSET Entities]
  /\ opened \in [Runs -> {Nothing} \cup (Entities \X (SUBSET Files))]
  /\ errors \in [Runs -> SUBSET Entities]
  /\ reader = Nothing \/ reader \in Entities \X (SUBSET Files) \X (0..MaxRead)

(* Whatever runs, appends and failures interleave, the rows of every       *)
(* acknowledged flush are in one live file and in one only, and no row of  *)
(* another flush is.                                                       *)
EachRowOnce ==
  \A e \in Entities :
    /\ Rows(live[e]) = flushed[e]
    /\ \A f, g \in live[e] : f # g => f.flushes \cap g.flushes = {}

(* The files of the newest version are in the bucket, and so are those of  *)
(* a version a reader has had open for less than the retention.            *)
FilesAreThere ==
  /\ \A e \in Entities : live[e] \subseteq bucket[e]
  /\ reader # Nothing => reader[2] \subseteq bucket[reader[1]]

LakeKeepsItsRows == EachRowOnce /\ FilesAreThere
=============================================================================
