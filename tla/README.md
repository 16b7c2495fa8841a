# Verification of the modern data platform

TLA+ models of the concurrent parts of the platform, the TLC configurations
that check them on small instances, and TLAPS proofs of the properties that
matter most. Paths are relative to the repository (`src/` is its root here, so
the Python packages are under `src/src/`).

Contents: [1 Inventory](#1-inventory) · [2 Modules and code](#2-modules-and-code) ·
[3 Runs](#3-runs) · [4 Fairness](#4-fairness) · [5 Proofs](#5-proofs) ·
[6 Disagreements](#6-disagreements-between-code-and-documents) ·
[7 Not modelled](#7-not-modelled) · [8 What could come next](#8-what-could-come-next)

## 1 Inventory

The platform simulates a marketplace in PostgreSQL and moves its data to a
lakehouse along two roads: a **stream** (Debezium → Kafka → Bronze Consumer →
Bronze Delta tables) and a **batch** (Airflow → extraction → Databricks → dbt),
with an Airflow sensor that joins the two by starting a batch when the stream
has brought enough. The Processing Framework runs the stages of the batch road.

| Component | State | Operations | Talks to |
|---|---|---|---|
| Marketplace schema | the objects of the database, Alembic's version row | init scripts on an empty volume; stamp, upgrade, downgrade | PostgreSQL |
| Simulator: seeds | none | look up and insert the categories, commit | PostgreSQL |
| Simulator: cycles, orders, stock | one connection and transaction per batch, the `BatchWriter`'s buffers, the reference pool | create an order (reserve stock, buffer children), restock, flush at a threshold, commit, roll back | PostgreSQL |
| Simulator: order status | none of its own (orders and their history are rows) | select candidates, advance or cancel each, write history | PostgreSQL |
| Bronze Consumer | per entity a buffer, its age, idleness counters and the future of its flush | poll in turn, buffer, submit a flush, write, commit, report | Kafka provider, Delta Lake, a pool of threads |
| Kafka provider | a consumer per (topic, group) with its assignment and offsets | `consume_batch`, `commit` (with a time limit), `recover_from_lost_assignment`, `consumer_lag` | the broker |
| Bronze maintenance DAG | none | compact, vacuum, checkpoint each table | Delta Lake |
| Lag watcher DAG | a watermark (an Airflow Variable) | read the counter, compare, set the watermark, trigger the pipeline and itself | Prometheus, Airflow |
| Databricks job, notebooks | the tables `bronze_batch` and `silver` | ingest, validate, optimize, transform, entity by entity | S3, Delta Lake |
| Batch pipeline DAG | objects under `raw/`, XComs | count, clear, extract (a group of stages), verify, run the Databricks job, ship its logs, dbt run and test | PostgreSQL, S3, Databricks, dbt |
| Pipeline executors, runtime, policies | `ContextVar`s per task, the `ProcessingContext`, stage results | run a stage, retry it, cancel, end | stages, hooks |
| Hooks (tracing, metrics, logging) | open spans, the open trace | observe every event | Prometheus |
| Airflow bootstrap | connections, variables and pools in Airflow's database | read files, sync row by row, section by section | Airflow |
| Airflow client | a token | request, log in again after a 401 | Airflow REST |
| Glue provider, catalog stage | none | look up, create or update a table | AWS Glue |
| Silver transformations | none (Spark plans) | deduplicate by key | Databricks |

What is hard about them, and what makes each correct:

* **Bronze Consumer and Kafka provider.** A main thread, eight workers, the
  threads of abandoned commits and the broker interleave; a group membership
  can be lost at any time; the process is killed and restarted. Correct when
  no committed event is missing from its table, nothing leaves memory before
  it landed, rows repeat only after a failure, and no entity is stuck behind
  another, behind a full buffer or behind a commit that cannot succeed.
* **Executors.** Stages of a group interleave at every `await`; they raise,
  fail, are retried and cancelled, and so do hooks. Correct when stages do not
  see each other's state, no group starts behind one that stopped the
  pipeline, every sibling's result is kept, and the result says what happened.
* **Lag watcher and batch pipeline.** A chain of runs that restarts itself, a
  watermark set before the work it stands for is done, overlapping runs over
  one `raw/` prefix, a source that changes between count and extraction.
  Correct when no burst of changes is forgotten, the chain never dies for good,
  and what is loaded is a snapshot some run verified.
* **Simulator.** Commits in the middle of a cycle, buffered child rows, and
  conditional updates of stock. Correct when stock never goes negative, no
  child row outlives a missing parent, and every order's history follows the
  status machine without repetition.
* **Marketplace schema, seeds.** Scripts that stop half way, commands that run
  on a database built another way, two seeds at once. Correct when both
  descriptions of the schema agree and seeding again adds nothing.
* **Bronze maintenance.** Compaction and vacuum against a live writer. Correct
  when no row is lost and no file a reader needs is deleted.
* **Glue, Airflow client and bootstrap.** Check-then-act, retries of requests
  that may have taken effect, rows synced one after another from files read at
  different moments. Correct when Glue
  says what the log said, a trigger creates one run, and a bootstrap that
  failed half way may be repeated.
* **Silver transformations.** Ties between versions and the meaning of deletes,
  in a function that only its unit tests call.

`PROJECT.json` lists all components with their status, and under `hazards`
every one of these difficulties at the line where it bites.

## 2 Modules and code

| Module | What it is |
|---|---|
| `BronzeDelivery` | what the stream promises: publish, land, commit forward over landed rows |
| `BronzeConsumer` | the loop, the buffers, the pool, `_flush()`, the provider, the process |
| `MCBronzeConsumer` | constants for TLC |
| `BronzeConsumerProofs` | at-least-once delivery, what a buffer holds, `BronzeConsumer` implements `BronzeDelivery` |
| `PipelineRun` | what an execution of a pipeline promises |
| `PipelineExecutor` | `execute()` of both executors, their runtime, policies and hooks |
| `MCPipelineExecutor` | constants for TLC |
| `PipelineExecutorProofs` | isolation of the stages, truth and completeness of the result; the executors implement `PipelineRun` |
| `LagWatcher` | the counter, Prometheus, the watermark and the self-restarting watch |
| `BatchPipeline` | the runs of the batch DAG, the Databricks job, dbt, over one lake |
| `EventDrivenBatch` | the two composed: a flush is followed by a run that reads the tables |
| `MCEventDrivenBatch` | constants for TLC |
| `EventDrivenBatchProofs` | no storm, one chain, quiet pokes, re-runnability |
| `MarketplaceSchema` | the schema, as the init scripts and as the baseline migration describe it |
| `MarketplaceRows` | the rows of the simulator and what its generators choose |
| `MarketplaceDatabase` | the container's init scripts, Alembic's commands, the seeds |
| `SimulatorBatch` | simulator processes, their cycles, `BatchWriter`, stock and orders |
| `MarketplaceProofs` | a sound bring-up, repeatable seeds, references that resolve, stock that adds up, one torn order at most |
| `OrderStatus`, `OrderStatusProofs` | the walk of the orders, and that it is sound |
| `LakeMaintenance`, `LakeMaintenanceProofs` | compaction and vacuum of the lake, and that no row is lost |
| `GlueCatalog` | the registration of a Silver table and the Glue provider |
| `WorkflowClient` | `trigger()` over the Airflow client |
| `AirflowBootstrap` | `Bootstrap.run()`, repeated and twice at once |
| `ControlPlaneProofs` | proofs about the last three |
| `Platform` | the parts around the streams and pipelines, one at a time |
| `MCPlatform` | constants for TLC |
| `PlatformProofs` | each part's theorems hold of the platform |

### BronzeConsumer

Mirrors `streaming/consumers/bronze_consumer.py` and the consumer half of
`integrations/kafka`.

*State.* `log`, `committed`, `late` are the broker; `landed`, `repeated` the
Delta tables; `status`, `pos`, `stored` the provider's consumer of an entity;
`held`, `size`, `aged` its `_EntityBuffer`; `empties`, `rounds` its idleness
counters; `flush`, `queue` the futures and the pool's queue; `main`, `turn`,
`iterations` the loop.

*Actions.* A turn of the round-robin loop is one action, one per way through
the loop's body: `SkipTurn` (flush still running), `SurfaceFailure`
(`future.result()` raises), `IdleTurn`, `FullTurn`, `DeliveringTurn`,
`EmptyTurn`, `JoiningTurn`, `PollRaises`. All but the first two and the last
end with `EndTurn`, which submits the flush when the buffer is due. A turn may
be one step because everything it reads and writes belongs to an entity no
worker is flushing (`FlushOwnsBuffer` checks the part of that which could be
wrong). `_flush()` on a worker is one action per blocking call: `Write` or
`WriteFails`, `BrokerCommits`, `CommitReturns`, `CommitFails`,
`CommitFindsAssignmentLost`, `CommitTimesOut`, `Report` or `LagRaises`. The
broker's acceptance and the return of `commit()` are two steps: a crash, a time
limit or a lost membership may fall between them. The process has `Interrupt`,
`Return`, `Exit` (the pool's `__exit__` waits for submitted flushes, then
memory is lost), `Crash` and `Restart`. The environment has `Produce`, `Age`,
`LoseAssignment` and `LateCommit`, the request of an abandoned commit thread
or a killed process that still arrives.

*Abstractions.* A topic is one sequence: the code commits all partitions of a
topic together. A buffer is the set of offsets whose rows it holds together
with `len(records)`; a table is the set of offsets that landed, with a flag
that some row landed twice. An event is a row, malformed (does not decode) or
poison (decodes, does not fit the table). A finished future without an
exception is like no future. `empties` saturates at `IdleAfter`, the only
value it is compared with. A rejoin makes the broker refuse a late commit of
the member it replaces (the group's generation). `close()` of a discarded
consumer is assumed to return. After an error the two outcomes of a write
(landed, not landed) are both possible.

### PipelineExecutor

Mirrors `data_platform/processing`: `executor/`, `runtime/`, `policies/`,
`hooks/hook_manager.py`, and the parts of the tracing and metrics hooks that
depend on the order of events. `executor` chooses `SequentialExecutor` or
`ParallelExecutor`: a unit is a stage for the one and a group for the other,
and a stage's `ContextOf` is the executor's single context or the copy every
task of `asyncio.gather()` gets.

*State.* `step`, `tries`, `answer`, `cancel` are the run of each stage
(`_run_stage`, or a turn of the sequential loop); `attempt`, `limit`, `result`,
`exception` the `ContextVar`s of each context; `status` and `recorded` the
`ProcessingContext`'s status and `stage_results`; `span`, `reported` what the
hooks hold; `phase`, `unit`, `tolerated`, `verdict`, `error` the coroutine of
the executor and its `PipelineResult`.

*Actions.* A step is what a task does between two `await`s that may suspend it:
`StageStarts`, `StageExecutes`, `StageRaises`, `StageSucceeds`, `StageFails`,
`StageSucceeded`, `StageRetries`, `StageGivesUp`, `StageFailed`, and, wherever
an event is emitted, `HookRaises`. Policies are evaluated in the same step as
what follows them, since no policy suspends. The executor's own coroutine has
`Opened`, `UnitPasses`, `UnitStopsPipeline`, `Failed`, `Closed`,
`PipelineHookRaises` and `StageHookEscapes`.

*Abstractions.* One call of `execute()`. `Stage.execute()` returns a completed
or a failed result or raises. Any hook may suspend or raise at any event,
before or after the tracing hook saw it. The policies are a set chosen
initially, the `TimeoutPolicy`'s limit passes once, at any time. Cancellation
of the task from outside and `KeyboardInterrupt` are not modelled. Reasons,
durations and messages are left out.

### LagWatcher, BatchPipeline, EventDrivenBatch

`LagWatcher` mirrors `airflow/dags/order_status_history_lag_watcher.py`,
`BatchPipeline` mirrors `airflow/dags/marketplace_batch_pipeline.py` with the
notebooks of the Databricks job, and `EventDrivenBatch` joins their steps.

*State of the watcher.* `counter` is the counter in the consumer's memory
(`NoData` until the first increment of a process), `scraped` what an instant
query answers, `watermark` the Airflow Variable, `sensor`, `trigger`, `restart`
the task instances of the cycle that runs, `queued` the DagRuns waiting for
`max_active_runs=1`. `streamed`, `scrapedAt` and `seen` are history: how many
source changes stood behind the counter, the sample and the last detection.

*Actions of the watcher.* `Flush`, `ConsumerRestarts` and `Scrape` are its
environment. A cycle is `StartCycle`; a poke that detects (`PokeDetects`, which
moves the watermark) and the end of its task (`SensorSucceeds`), two steps
because the worker may be lost between them; or `SensorTimesOut` or
`SensorFails`; then `TriggerPipeline` and `RestartCycle` (or `TriggerFails`,
`RestartFails`: the request may or may not have created the run) in either
order, under their trigger rules, and `EndCycle`. `DailySchedule` creates a
run when none is queued or running. A poke that finds nothing changes nothing.

*State of the pipeline.* A source table is the `log` of its changes, and a
snapshot the number of changes it holds. `phase`, `todo`, `broken` say where
each run is; `counted` and `landing` are the counts of the pre-pass and the
snapshot in the run's file; `raw` and `bronze` say, per entity, whose files are
there, `silver` and `gold` which snapshots they are built from.

*Actions of the pipeline.* One per step another run or the source may fall
between: `Count`, `Clear`, `Extract`, `Upload` (or `StageFails`), `Verify`,
`SubmitJob` (or `SkipJob`), `Ingest`, `Validate`, `Optimize`, `BuildSilver`
(or `EntityFails`), `BuildGold`, `TestGold`; `TaskFails` anywhere. A task works
through its entities and raises at its end if one was broken (`DealtWith`).

*Abstractions.* Entities are taken in any order. Listing and deleting a prefix
is one step, as is building one entity's Gold. Databricks runs the job once at
a time; a second run waits, or is skipped, which counts as a failure. A job
does not outlive the Airflow task that waits for it. Row contents enter as
updates (which change a row, so that two snapshots conflict on its key) and
inserts (which change the count). `ship_databricks_run_logs` and the metrics
push feed no other task and are left out.

### MarketplaceSchema, MarketplaceRows, MarketplaceDatabase

`MarketplaceSchema` holds both descriptions of the schema the repository keeps:
`infrastructure/docker/postgres/init/*.sql` as a sequence of statements, with
what each makes and needs, and the dump in the baseline migration as one set.
An object is a tuple (kind, table, name); columns and their types are left out.
`MarketplaceDatabase` brings a database up from it.

*State.* `boot`, `statement` are the container; `present`, `version` the
database's objects and its row of `alembic_version`; `outcome` what the last
command answered; `names`, `seeder`, `missing`, `mine` the categories, and per
simulator the name it is at, that its look-up found nothing, and its
uncommitted rows.

*Actions.* `RunStatement`, `KillInit` (an init that was interrupted is not run
again, the volume is no longer empty); `StampBaseline`, `UpgradeFromNothing`,
`UpgradeToHead`, `UpgradeFails`, `DowngradeHead`, `DowngradeBaseline`, one
transaction each, which wait for the transactions that use `categories`;
`BeginSeed`, `SeedLooksUp`, `SeedInserts`, `SeedRaises`, `SeedCommits`,
`SeedDies`: a look-up does not see another's open transaction, and under the
constraint an insert waits for it.

`MarketplaceRows` has one constructor per table, by the foreign keys of the
row, and the values of the columns with a CHECK constraint. `SimulatorBatch`'s
type invariant compares both with the schema (`FitsKeys`,
`GeneratorsFitTheSchema`).

### SimulatorBatch

Mirrors `simulator/scheduler.py`, `core/batch_writer.py`, `core/database.py`,
`core/reference_pool.py`, `core/unique_insert.py` and the services and
repositories of `simulator/domain`.

*State.* `rows` and `stock` are the committed database. Per process: `pc`, the
call its cycle is at; `batch`, `cycle`; `own` and `held`, the rows and
quantities its transaction has written; `buffer`, `BatchWriter._rows`;
`orders`, the pool's list; `pick` and `tries`, the order's reservation.

*Actions.* One per call of `run_cycle()` that a commit, a lock or another
process may come before: `CreateCustomer`, `CreateCatalog`, `Reserve`,
`Decrease` or `ReserveAgain`, `InsertOrder`, `InsertDetails`, `CreatePayment`,
`CreateShipment`, `CreateReview`, `ChooseRestock`, `Increase` or `NoRestock`,
`NextCycle`; around them `BeginBatch`, `LastFlush`, `EndBatch`; and `Raises`,
`Killed`, `Deadlocked`, `Restart`. `Writes` is the heart: the transaction
inserts now, the writer buffers, and at the threshold the flush commits all
there is, the unfinished order included.

*Abstractions.* Rows have an identity, what they refer to and the units of
stock they stand for. The reads and inserts of `create_product` to
`create_inventory` commit nothing and are one step. `insert_with_unique_retry()`
is one step with the insert that succeeds or raises at last. Commits of the
seeds are `MarketplaceDatabase`'s. PostgreSQL is READ COMMITTED: an UPDATE waits
for another's, then looks at the row again, and a cycle of waits ends one.
Two processes wait for each other directly; three or more in a ring are not
detected, and the instances have two.

### OrderStatus

Mirrors `domain/orders/order_status_service.py` and `OrderStatusRepository`.

*State.* `status`, `history`, `age` are the orders; per process `rule` (the
status it is at), `lag` (the age of its transaction), `candidates`, `selected`
and `moves`, the updates not committed yet.

*Actions.* `CreateOrder`, `Tick`; `Begin`, `FindEligible` (with its limit and its
minimal age), per candidate `Stays`, `Advance` or `Cancel`, `NextRule`,
`Commit`; `Aborted` when the process is killed or a cycle of locks is broken.

*Abstractions.* `now()` is the time the transaction began, so time is kept as
ages. The dice are choices; one minimal age stands for those of all rules.

### LakeMaintenance

Mirrors `airflow/dags/bronze_streaming_maintenance.py` against the consumer's
appends. `bucket`, `live`, `tombstone` are a Delta table (the objects, the
newest version's files, the age of a removed one); `flushed`, `begun`,
`writing` the consumer; `phase`, `pending`, `opened`, `errors` a run of the
DAG; `reader` an open older version. `LoadTable` and `Compact` are two steps:
another run may commit in between, and then the commit fails, as Delta's
conflict check has it. `CompactFails` and `VacuumFails` leave what they had
written, or only part of the files deleted. Which files are compacted is any
choice of two or more.

### GlueCatalog, WorkflowClient, AirflowBootstrap

`GlueCatalog` mirrors `silver_catalog_registration_stage.py` and
`glue_catalog_provider.py`: `log`, `kept` are the Delta log and its clean-up,
`database`, `table` are Glue, `stage`, `listed`, `schema` a registration:
`ListLog`, `ReadSchema` or `ReadRaises`, `TableExists` (the check),
`CreateGlueTable` or `CreateRaises`, `RunAgain`. The provider's other
operations run beside it. A schema is a model value.

`WorkflowClient` mirrors `AirflowWorkflowProvider.trigger()` and
`airflow_client.py`: `token`, `request`, `doing`, `call` are a client, `made` the
runs on the server. A request is answered, answered 401 (`Unauthorized`, sent
once more; `UnauthorizedAgain`, raised), or lost after the server may have
executed it (`RequestFails`).

`AirflowBootstrap` mirrors `airflow/config/bootstrap/*.py`: `section`, `nth`
say where a bootstrap is, `taken` what it has read, `seen` and `wrote` what its
session has read and not committed, `committed` Airflow's database.
`BeginBootstrap` takes the environment (a process keeps the one it started with),
`Load` reads config.yaml and then terraform_outputs.json before the
connections, and pools.json only when `sync_pools()` begins (`Reads`); each of
the four may change at any moment (`ChangeConfiguration`). Connections and pools
are one transaction each (`LookUp`, `SameValues` or `Write` or `InsertRaises`,
`CommitSection`); a variable is set on its own (`SetVariable`), the keys of the
Terraform outputs and then those of config.yaml, which may overwrite one. A
value is the versions of what the row is made of (`BuiltFrom`).

### Platform

`Platform` puts the seven parts side by side. They share no state in the code
either, other than through rows that are there already, so `part` chooses
the one that a behaviour is about, and TLC adds their state spaces instead of
multiplying them. The theorems about the parts carry over
(`PartsOfThePlatform`).

## 3 Runs

| Run | Instance | What it shows |
|---|---|---|
| `bronze_faults` | 1 entity, 4 events of all kinds, 3 faults, at most 10 rounds | no committed event is missing, the delivery invariant; a full buffer always has something to commit; only landed rows leave memory; a buffer is exactly the uncommitted backlog without a fault; the consumer implements `BronzeDelivery` |
| `bronze_liveness` | 2 entities, 2 rows each, pool of 1, 1 fault, fairness | types and buffer limits, a flush owns its buffer, rows repeat only after a fault, every event is eventually committed |
| `bronze_raises`, `bronze_returns` | 1 entity | two statements of the code's comments that do not hold, see 6 |
| `executor` | stages {1,2}, {3}, {4,5}, 2 attempts for stages 1 and 4, both executors, all 8 sets of policies, 1 raising hook, fairness | types and attempt limits, isolation, truth of the result, no lost results or spans, every failure named, `PipelineRun`, termination |
| `executor_hooks`, `executor_report` | the same, smaller | two statements of ADR-009 that do not hold, see 6 |
| `batch_flow` | 1 entity, 2 changes, 2 flushes of a row, 2 runs, 1 restart or failure anywhere, fairness | types, no storm of runs, one chain of watch cycles, quiet pokes are right, a run alone publishes its own snapshot, streamed changes reach Gold |
| `batch_gate`, `batch_clear` | the same, no failure | two statements of the batch DAG that do not hold, see 6 |
| `platform` | database: 2 seeders, 2 categories, 3 commands; simulator: 2 processes, up to 2 cycles, thresholds 3, 5 and 8, 1 kill; status: 2 processes on 1 order, 1 process on 2 orders; lake: 1 entity, 2 runs, 3 flushes, 1 failure, retention 2; 2 registrations; 1 client, 3 calls, 2 expired tokens; 2 bootstraps, of whose 4 inputs at most 2 change | types, scripts and baseline agree and seeds repeat, stock is accounted for, references resolve, one torn order at most, no row of the lake is lost, the control plane tells the truth, orders move soundly |
| `upgrade_head` | 1 seeder, 1 category, 1 command | a statement of the migrations and the README that does not hold, see 6 |

Bounds, and why they are enough:

* `MaxLog`, `MaxFaults` (in guards) bound the events and what goes wrong.
  `MaxBatch` is 2 and a poll cap 1 or 2, so that three or four events overflow
  a buffer, leave one part-filled, and let a poll be cut by the room left as
  well as by the cap. Two faults are what a rejoin after a hung commit needs
  (the late commit is the third party), three let a second failure hit the
  recovery of the first.
* `PoolSize` 1 with two entities makes flushes wait for a worker; `IdleAfter`
  1 and `PollEvery` 2 let an entity idle, skip a poll and wake.
* `MaxIterations` is 0 (run forever, the deployment) but in `bronze_faults` and
  `bronze_returns`: ten rounds are enough for an entity to fill, flush, fail
  three times and idle, and to be cut off at any point of that. The other bronze
  runs and the proofs have no such bound.
* Two groups of two stages around a lone one let siblings interleave, a
  tolerated failure be followed by a successful group, and a group start after
  both kinds of unit. Two attempts are one retry. `MaxHookErrors` 1: after one
  hook error the execution is FAILED already.
* Two runs of the pipeline are what an overlap needs, and `NoStorm` says two
  flushes cannot create more. Two changes let the table move between count,
  extraction and flush, once by an insert and once by an update. `MaxTrouble`
  bounds restarts and failures together, each kind having a bound of its own;
  one is enough for a lost signal, a dead chain, and an earlier run that left
  its files behind. One entity: runs meet on each prefix separately. The
  theorems hold without these bounds.

* The simulator's settings choose a threshold of 3 (the flush falls between an
  order's history row and its movement), 5 (the buffer crosses into the second
  cycle of a batch, a batch of two) and 8 (no flush before the end, two
  processes holding locks on two inventories: the deadlock). An order of one
  unit against a stock of one is the last unit sold twice, if it could be.
* A limit of 1 with two orders is what lets one order wait behind another;
  two processes on one order are what lets both select it.
* `Retention` 2 and `MaxRead` 1 keep a reader younger than the retention, as
  the 168 hours do; three flushes leave two files to compact and one new one.
* Two categories, two seeders and three commands reach every answer of Alembic
  and a seed on both sides of the constraint. Two commits, one clean-up and two
  uses of the provider let a table be deleted, or its database, between check
  and creation. A second version of an input, and of
  another one, let a bootstrap read files of different moments and a second one
  overtake it. One connection is made of the environment alone, one of the
  environment and the outputs, and one variable is written twice.

Deadlock is checked where the system runs forever; the runs of the executor,
the bounded loop of `bronze_faults`, the parts of `platform`, whose batches,
commands, calls and runs are bounded, and `upgrade_head`, end by design
(`CHECK_DEADLOCK FALSE`).

Every property of a passing run has a *mutant*: a definition with a plausible
bug (the room left in a buffer ignored, a failed write that clears the buffer,
one shared slot instead of `ContextVar`s, a retry that is not counted, ...)
under which TLC finds the property violated. The mutants stand next to the
definitions they replace.

## 4 Fairness

*Bronze Consumer.* Weak fairness of each entity's turn, flush step and age
(the main thread, the workers and the clock go on), of `StartFlush` (an idle
worker takes the next job), `Exit` (the pool's shutdown returns) and `Restart`
(docker's `restart: unless-stopped`). Strong fairness of `DeliveringTurn`: a
consumer that is polled again and again while events wait is handed some again
and again; joining and empty polls in between are possible, for ever only if
the broker never serves the consumer. Nothing is assumed of the producer, and
no failure is excluded. Poison events are left out of the liveness runs: they
block their entity for good, which the code documents as a limitation (there is
no dead letter queue).

*Executor.* Weak fairness of `Next`: the event loop runs whatever is ready,
and every hook and every `Stage.execute()` eventually returns or raises (the
framework puts no time limit on them; `TimeoutPolicy` is only consulted when a
stage failed).

*Watcher and pipeline.* Weak fairness of flushes of changes already committed
to the table (which is `EventuallyCommitted` of the consumer), of scrapes
(every 15 s, and an answer is not withheld for ever), of the watcher's tasks and
its daily schedule, of the trigger, and of every step of a run (the scheduler
runs what is ready, commands return). A run waits for the Databricks job, which
its predecessor leaves under the same fairness. The source need not change, and
restarts and failures may or may not happen. `FreshGold` names what is excused:
a signal consumed without a run (`lost`), a failed task of a run, a counter
that was reset, and overlapping runs.

*Platform.* No fairness and no liveness property. In particular nothing says
that an order is ever settled: `simulator/app.py` calls `run()`, which is one
batch with one walk of the orders at its end; `run_forever()` has no caller; and
README.md:452-453 says that no supervisor starts a simulator again. `Begin` and
`Restart` are an operator's, who may never come.

## 5 Proofs

All proofs hold for every value of the constants that satisfies the named
assumptions of the modules: any number of entities or stages, any batch sizes
and poll caps, pool size, grouping, policies and number of failures; any
simulators, thresholds, stocks and orders; any registrations, clients,
bootstraps and configurations. The assumptions say that bounds are naturals and,
where they say more: a batch has a cycle and a threshold of two rows at least
(`SimulatorAssumption`), a reader is younger than the retention and no run is
called "consumer" (`LakeAssumption`), the four sections of the bootstrap are
tables of their own, but for the two of variables, and a transaction names no
row twice (`BootstrapAssumption`), an absent metaData is not a schema
(`CatalogAssumption`).

* `TypeCorrect`: `Spec => []TypeOK` for the consumer. The one part that is not
  bookkeeping is that a buffer keeps to its threshold: a poll asks for at most
  the room left, and decoding never adds records.
* `DeliveryInvariant`, `AtLeastOnce`: `NoLoss` is not inductive. It needs, per
  entity (`EntityInv`): what was consumed is buffered or landed as long as the
  process goes on (`ConsumedIsKept`: a poll that raises breaks it, but then the
  loop ends and only running flushes, whose buffers are intact, still commit);
  what a flush is about to commit has landed (`WrittenIsLanded`); what a late
  commit may still commit has landed (`LateIsLanded`); and the pool's queue
  matches the flushes (`QueueOK`), so that a worker never starts a flush twice.
* `RefinementInvariant`, `ConsumerDelivers`: the consumer implements
  `BronzeDelivery`. In addition the committed offset never goes back
  (`Forward`): a member of the group is at or past it, and so is a late commit,
  which is refused once another member has joined.
* `ExecutorInvariant`: only stages of the current unit are busy, all the stages
  of earlier units have returned without cancelling, a failure among them is
  remembered in `tolerated`, and the `ContextVar`s of a busy stage are its own.
  The heart is that two busy stages never share a context (`OwnContext`).
* `PoliciesAreIsolated` and `ExecutorsImplementRun` follow from it.
* `WatchInvariant`: `NoStorm` counts, next to the runs created, the signals on
  their way to one (not scraped, not consumed, not fired): each of them was paid
  for by a flush, and each action moves at most one of them on. `OneWatchChain`
  is inductive as stated. `CountersAgree` says that before any restart the
  counter, the sample and the watermark are counts of changes; `QuietIsRight`
  follows.
* `RunInvariant`: `SoloRunIsClean` follows a run's file through the lake. It
  needs that files in the lake hold snapshots (`FilesLanded`) and that runs
  active together are known to overlap (`OverlapIsKnown`), so that a step of one
  run leaves nothing to show for another.
* `PartsKeepTheirSpecs`: the composition implies each part's specification, so
  both invariants carry over to it.
* `OnlyLandedIsDropped`, `FlushesOwnTheirBuffers`: action properties, from
  `DeliveryInv` and, for the second, the pool's queue matching the flushes.
* `FullBuffersCommit` is inductive next to `DeliveryInv`: the loop polls only
  with room left, and whatever fills a buffer leaves an offset to commit.
* `OnceWithoutFault`, `BufferHoldsBacklog`: `QuietInv` says that, without a
  fault so far, position, buffer, table and committed offset of an entity move
  together (`QuietOffsets`, `QuietConsumer`, `QuietRows`); its size is the
  cardinality of its buffer, because no offset is polled twice.
* `ResultTellsTheTruth`, `SpansAreClosed`: `CleanInv` relates each stage's
  answer to its step and span, and the tolerated failures to the answers, as
  long as no hook raised. `SequentialFailureIsNamed`: `NameInv` says that the
  last recorded result is that of the stage that just ended, which is the only
  reason why the error the code takes from it is the right one.
* `ExecutorIsTyped`, `ResultsAreComplete` (`RecordInv`): as long as no hook
  raised, `recorded` is increasing in the pipeline's order and holds exactly the
  stages whose result is due (`Due`): for the sequential executor the stages
  that answered and, if they failed, were seen by the policies; for the parallel
  one those of the groups that were gathered. What a gathered group adds
  (`Results`) is the increasing sequence of its stages, by induction over the
  stages' numbers (`InOrder` is a recursive function over them).
* `BringUpSucceeds` (`Complete`): while the scripts run, the database holds what
  the statements so far make (`Made`). That each of the 34 statements needs
  only what is made before it, and makes what no other does, is proved
  statement by statement (`InPlace`); when the last one ran, all of the
  migration's baseline is there, and a head is the baseline with the one
  constraint. `DatabaseIsTyped` goes with it.
* `SeedsMayBeRepeated` (`Seeding`): a batch that seeds alone, or under the
  constraint, finds what it is about to add missing until it commits.
* `RowsAlwaysResolve` (`Resolving`): besides the property itself, that what a
  process holds in its pool, its reservation and its buffer refers to what its
  transaction sees, and that a stock visible to others belongs to a committed
  inventory. Each flush commits everything the transaction sees at once.
* `OneTornOrderAtMost` (`Ordering`): the cycle of each row a process has is its
  own, and the details of every earlier order of its batch are committed,
  written or buffered. So only the current order can lack them for good.
* `StockIsKept` (`Accounting`, which is `Resolving`, `Balanced` and `Turns`): the
  balance has to be kept per transaction, between what it sees of an inventory
  and the rows it sees, with the quantity that a reservation's UPDATE has taken
  and whose order is not inserted yet. It is kept because one process at a time
  writes an inventory (`OneWriter`), and because the row a process is about to
  add is not there yet: cycle numbers of the rows are never ahead of the cycle
  their process is in (`Turns`). The sum of the balance is a fold over a set; that
  a row adds its units to it (`Total`) is an induction over its size. Inductions
  over naturals are written with sets (`InductionOverSets`, from the library's
  theorem that the order of the naturals is well-founded), because the library's
  induction theorems take an operator.
* `SimulatorIsTyped` (`Typed`): buffers stay below the threshold, and each row has
  the parents that the foreign keys of its table in the baseline name.
* `LakeIsKept` (`LakeInv`): a flush being written is new to every table, a run
  compacts a table once (so its file has a name of its own), live files have no
  tombstone, and a file of an open version is live or was removed since.
* `OrdersAreMovedSoundly` (`StatusInv`): statuses only go forward, so a status
  that is still what was selected has not changed in between; the age of a
  moved order is at least the mover's transaction's.
* `GlueTellsTheTruth`, `RegistrationIsRepeatable` (`CatalogInv`): of the commits
  still listed, the newest with a metaData is the newest of all (read backwards);
  `TriggerIsSentOnce` (`ClientInv`): what a call has created follows from the
  request it is at; `BootstrapMayBeRepeated` (`BootstrapInv`): a bootstrap
  alone has passed every row before the one it is at, which is as what it has
  read says, and reads nothing later that such a row is made of (`ReadSoFar`).
* `PartsOfThePlatform` and the theorems after it: `Platform` implies each part's
  specification, so the parts' theorems hold of it as they are.

Only model-checked: the liveness properties (`EventuallyCommitted`,
`EventuallyConcludes`, `FreshGold`), since the prover reasons
neither about fairness nor about ENABLED. Every invariant and every action
property that a passing run checks is also a theorem.

## 6 Disagreements between code and documents

* `bronze_raises`: `consumer_lag()` is called outside `_flush()`'s `try`, so
  `_flush()` can raise, contrary to the comment at `future.result()`; the
  exception stops the whole consumer, and docker restarts it.
* `bronze_returns`: with `max_iterations`, the function may return with rows in
  a buffer that was not due, contrary to its docstring.
* `executor_hooks`: an exception of a hook makes the execution FAILED, contrary
  to ADR-009's isolation of hooks.
* `executor_report`: the events that end a pipeline carry no result, so the
  trace and the pipeline metrics of a failed execution say COMPLETED. The
  stage metrics (not modelled) have the same weakness for stages that raise.
* `batch_gate`: `bronze_validate` prints the number of duplicate records and
  goes on, contrary to the batch DAG's docstring, which calls it a real data
  quality gate. Two overlapping runs bring it both their files.
* `batch_clear`: the clean-up of `raw/` deletes the files of runs that are still
  active, not only those of previous runs.
* `upgrade_head`: `alembic upgrade head` brings no version to a database that has
  none. Without the schema, the dump in the baseline empties the session's
  `search_path`, Alembic then writes its version with an unqualified name, and
  the upgrade is rolled back, although the baseline's docstring (5-8) says that
  a fresh database can be bootstrapped with it alone (the one of the second
  migration, 12-15, has it run there too). With the schema of the init scripts
  `CREATE SCHEMA` fails, although README.md:426 gives it as the next step. What
  works is `alembic stamp`, which the baseline's docstring names for a database
  that exists.
* Without a run of its own: fact_order_status_transitions.sql:2-8 takes the
  history of every order to begin with its genesis row, `PENDING`. A flush in
  the middle of `create_order()` commits an order without its first history row,
  and if the process is then killed the order stays so. `AtMostOneTornOrder`
  says how far that goes: the order the process was at, never an earlier one.

What overlap does beyond the two: each of two runs may delete the other's file,
so that both fail and a change never reaches Gold although nothing else went
wrong. That is why `FreshGold` excuses overlapping runs.

Observations no document contradicts:

* After a restart of the consumer the counter may come back to exactly the value
  of the watermark, or its last value may be lost before it was scraped; the
  watcher then says nothing of those rows. The docstring speaks of the
  uncertainty after a reset, so `QuietIsRight` is stated up to the first restart.
* A failure between setting the watermark and triggering loses the signal until
  the next flush (`lost`).
* In a parallel group, or with tolerated failures, the last stage result may be
  a completed one, and then the FAILED result carries no error
  (`FailureIsNamed` states where it does).
* A retried stage keeps the span of its first attempt.
* Two simulators that seed at once on a database without
  `categories_name_unique` leave each category twice, and the migration that
  adds the constraint then fails. Under the constraint one of them raises and
  its process ends.
* Two registrations at once: Glue refuses the second creation with an error of
  its own that the stage does not expect, and the second one fails. One at a
  time, registering again is harmless (`OnlyOverlapRefused`).
* A bootstrap reads pools.json after it has committed the connections and the
  variables. When the configuration changes in between, the rows it leaves are of
  two moments, even when it is alone; what it promises is that each row is as
  the files said when it read them (`EndsAsRead`), and that the rows of one
  transaction are of one reading (`IsWhole`). Two at once may leave rows of both.
* The comments of `order_status_service.py` reckon with a batch every few seconds;
  `simulator/app.py` runs one batch and ends.

## 7 Not modelled

Row contents, formatting, logging, durations and metrics values; columns and
their types; the producer half of the Kafka provider, which the stream does not
use; smoke-test DAGs; start-up wiring (provider registry, settings); SQL of dbt
and notebooks beyond what each table is built from; infrastructure. Of the
components listed as *partly*: the conversion of Debezium's columns, the other
requests of the Airflow client (they read or cancel, and follow `trigger()`'s
path), the S3 provider and the HTTP client (one call each, that succeeds or
raises), the Bronze ingestion stage, the stage metrics. Of those *not modelled*:
the context writers write shared keys with no `await` inside, and nothing reads
them back; the rest is wiring, or reads only.

The deduplication by key of the Silver transformations has no caller but its
unit tests; `BatchPipeline` has the deduplication the job runs.

In `BronzeConsumer` the other writers of the Bronze tables appear only as a
write that fails; `LakeMaintenance` has the tables with all their writers, and
the consumer only as its appends. `bronze_batch`, which the batch flow writes,
is a different prefix.

## 8 What could come next

The parts of the plan are built. What would add most now:

1. The Bronze ingestion stage and `SilverDedup`, once a flow calls them.
2. Cancellation of an execution from outside, which the executors do not
   handle today, and the stage metrics, which have the weakness of `executor_report`
   for stages that raise.
3. Shared tables: `OrderStatus` and `SimulatorBatch` on the same orders, to
   follow a torn order through the walk of its status.
