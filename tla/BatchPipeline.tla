--------------------------- MODULE BatchPipeline ----------------------------
(***************************************************************************)
(* The marketplace_batch_pipeline DAG and the Databricks job it runs:      *)
(* extract every table to raw/, ingest raw/ into bronze_batch, validate,   *)
(* optimize, build Silver, build and test Gold.  Several runs may be       *)
(* active at once, on the same paths.                                      *)
(*                                                                         *)
(* A table is the log of its changes; a snapshot of it is the number of    *)
(* changes it holds.  raw/{entity} is the set of the runs whose parquet    *)
(* file is in it (a run uploads one file per entity), bronze_batch the set *)
(* of the runs whose file was read, Silver and Gold sets of snapshots,     *)
(* since Silver drops the rows that are equal in every column.             *)
(* Entities are worked through in any order; the code's order is fixed     *)
(* where it is sequential, and no property depends on it.                  *)
(***************************************************************************)
EXTENDS Integers, Sequences, FiniteSets

CONSTANTS
  Entities,
  Runs,          \* the DagRuns that may be created: 1..n
  MaxChanges,    \* bound: changes of a source table
  MaxRunFaults   \* bound: failures of a run's tasks

ASSUME RunAssumption ==
  /\ Runs \subseteq Nat
  /\ MaxChanges \in Nat /\ MaxRunFaults \in Nat

VARIABLES
  log,        \* source tables: their changes, each an insert or an update
  phase,      \* the task a run is at
  todo,       \* the entities that task has not dealt with yet
  counted,    \* postgres_counts
  landing,    \* the snapshot in a run's parquet file
  broken,     \* an entity of the task failed; the task raises at its end
  raw,        \* raw/{entity}: the runs whose file is there
  bronze,     \* bronze_batch/{entity}: the runs whose file was ingested
  silver,     \* silver/{entity}: the snapshots it is made of
  gold,       \* the Gold models of an entity: the snapshots they are made of
  overlapped, \* history: another run was active during this one
  runFaults   \* history: failures of tasks

lake == <<raw, bronze, silver, gold>>
control == <<phase, todo, broken>>
extracted == <<counted, landing>>
runVars == <<log, control, extracted, lake, overlapped, runFaults>>

None == -1
Snapshots == Nat \cup {None}
Changes == {"insert", "update"}

JobPhases == {"bronze", "validate", "optimize", "silver"}
Phases == {"new", "count", "extract", "verify", "submit", "gold", "test", "done", "failed"}
            \cup JobPhases

Active(r) == phase[r] \notin {"new", "done", "failed"}

(* A table starts with one row, and an update changes that row.            *)
Rows(e, n) == 1 + Cardinality({i \in 1..n : log[e][i] = "insert"})

(* Two snapshots with an update between them hold a key twice.             *)
Conflict(e, S) ==
  \E old, new \in S : \E i \in (old + 1)..new : log[e][i] = "update"

RunInit ==
  /\ log = [e \in Entities |-> <<>>]
  /\ phase = [r \in Runs |-> "new"]
  /\ todo = [r \in Runs |-> {}]
  /\ broken = [r \in Runs |-> FALSE]
  /\ counted = [r \in Runs |-> [e \in Entities |-> None]]
  /\ landing = [r \in Runs |-> [e \in Entities |-> None]]
  /\ raw = [e \in Entities |-> {}]
  /\ bronze = [e \in Entities |-> {}]
  /\ silver = [e \in Entities |-> {}]
  /\ gold = [e \in Entities |-> {}]
  /\ overlapped = [r \in Runs |-> FALSE]
  /\ runFaults = 0

(* The applications that write to Postgres.                                *)
Change(e, kind) ==
  /\ Len(log[e]) < MaxChanges
  /\ log' = [log EXCEPT ![e] = Append(@, kind)]
  /\ UNCHANGED <<control, extracted, lake, overlapped, runFaults>>

-----------------------------------------------------------------------------
(* Tasks.                                                                  *)

Goto(r, p) ==
  /\ phase' = [phase EXCEPT ![r] = p]
  /\ todo' = [todo EXCEPT ![r] = Entities]
  /\ UNCHANGED broken

Fail(r) == Goto(r, "failed")

(* A task is over with its last entity; it raises then if one of them was  *)
(* broken.                                                                 *)
DealtWith(r, e, ok, next) ==
  LET failed == broken[r] \/ ~ok
      left == todo[r] \ {e}
  IN /\ broken' = [broken EXCEPT ![r] = failed]
     /\ IF left # {}
          THEN todo' = [todo EXCEPT ![r] = left] /\ UNCHANGED phase
          ELSE /\ todo' = [todo EXCEPT ![r] = Entities]
               /\ phase' = [phase EXCEPT ![r] = IF failed THEN "failed" ELSE next]

Fault ==
  /\ runFaults < MaxRunFaults
  /\ runFaults' = runFaults + 1

(* A DagRun is created; max_active_runs is far above the runs modelled.    *)
CreateRun(r) ==
  /\ phase[r] = "new"
  /\ \A s \in Runs : s < r => phase[s] # "new"
  /\ Goto(r, "count")
  /\ overlapped' = [s \in Runs |->
       \/ overlapped[s]
       \/ s = r /\ \E t \in Runs : Active(t)
       \/ Active(s)]
  /\ UNCHANGED <<log, extracted, lake, runFaults>>

-----------------------------------------------------------------------------
(* Task extract_postgres.                                                  *)

(* SELECT count( * ) for the next entity of the pre-pass.                  *)
Count(r, e) ==
  /\ phase[r] = "count" /\ e \in todo[r]
  /\ \A f \in todo[r] : counted[r][f] = None
  /\ counted' = [counted EXCEPT ![r][e] = Rows(e, Len(log[e]))]
  /\ UNCHANGED <<log, control, landing, lake, overlapped, runFaults>>

ClearNothing(r, e) ==   \* mutant: files of earlier runs are left in raw/
  /\ phase[r] = "count" /\ e \in todo[r] /\ counted[r][e] # None
  /\ DealtWith(r, e, TRUE, "extract")
  /\ UNCHANGED <<log, extracted, lake, overlapped, runFaults>>

(* Then every object under raw/{entity}/ is deleted.                       *)
Clear(r, e) ==
  /\ phase[r] = "count" /\ e \in todo[r] /\ counted[r][e] # None
  /\ raw' = [raw EXCEPT ![e] = {}]
  /\ DealtWith(r, e, TRUE, "extract")
  /\ UNCHANGED <<log, extracted, bronze, silver, gold, overlapped, runFaults>>

(* The stages of the parallel group read their tables and upload.          *)
Extract(r, e) ==
  /\ phase[r] = "extract" /\ e \in todo[r] /\ landing[r][e] = None
  /\ landing' = [landing EXCEPT ![r][e] = Len(log[e])]
  /\ UNCHANGED <<log, control, counted, lake, overlapped, runFaults>>

UploadsUnread(r, e) ==   \* mutant: the upload does not wait for the extraction
  phase[r] = "extract" /\ e \in todo[r]

Uploads(r, e) ==
  /\ phase[r] = "extract" /\ e \in todo[r] /\ landing[r][e] # None

Upload(r, e) ==
  /\ Uploads(r, e)
  /\ raw' = [raw EXCEPT ![e] = @ \cup {r}]
  /\ DealtWith(r, e, TRUE, "verify")
  /\ UNCHANGED <<log, extracted, bronze, silver, gold, overlapped, runFaults>>

(* A stage fails, after its object landed or before; its siblings go on.   *)
StageFails(r, e, landed) ==
  /\ Uploads(r, e) /\ Fault
  /\ raw' = [raw EXCEPT ![e] = IF landed THEN @ \cup {r} ELSE @]
  /\ DealtWith(r, e, FALSE, "verify")
  /\ UNCHANGED <<log, extracted, bronze, silver, gold, overlapped>>

(* The run's own object is read back and its rows are compared with the    *)
(* count of the pre-pass.                                                  *)
LandedAsCounted(r, e) ==
  r \in raw[e] /\ Rows(e, landing[r][e]) = counted[r][e]

Verify(r, e) ==
  /\ phase[r] = "verify" /\ e \in todo[r]
  /\ IF LandedAsCounted(r, e) THEN DealtWith(r, e, TRUE, "submit") ELSE Fail(r)
  /\ UNCHANGED <<log, extracted, lake, overlapped, runFaults>>

-----------------------------------------------------------------------------
(* Task run_databricks_full_pipeline.                                      *)

(* Databricks runs a job once at a time; a second run waits in its queue   *)
(* or, without one, is skipped.                                            *)
JobIsFree == \A s \in Runs : phase[s] \notin JobPhases

SubmitJob(r) ==
  /\ phase[r] = "submit" /\ JobIsFree
  /\ Goto(r, "bronze")
  /\ UNCHANGED <<log, extracted, lake, overlapped, runFaults>>

SkipJob(r) ==
  /\ phase[r] = "submit" /\ ~JobIsFree /\ Fault
  /\ Fail(r)
  /\ UNCHANGED <<log, extracted, lake, overlapped>>

(* ingest_sources: all of raw/{entity} overwrites bronze_batch.  Reading   *)
(* an empty path raises; the other entities are still ingested.            *)
Ingest(r, e) ==
  /\ phase[r] = "bronze" /\ e \in todo[r]
  /\ bronze' = [bronze EXCEPT ![e] = IF raw[e] = {} THEN @ ELSE raw[e]]
  /\ DealtWith(r, e, raw[e] # {}, "validate")
  /\ UNCHANGED <<log, extracted, raw, silver, gold, overlapped, runFaults>>

(* validate_bronze prints counts, nulls and duplicates; only a table that  *)
(* cannot be read raises.                                                  *)
Validate(r) ==
  /\ phase[r] = "validate"
  /\ IF \A e \in Entities : bronze[e] # {} THEN Goto(r, "optimize") ELSE Fail(r)
  /\ UNCHANGED <<log, extracted, lake, overlapped, runFaults>>

(* optimize_bronze reads a table and overwrites it with the same rows, and *)
(* no other run writes bronze_batch meanwhile.                             *)
Optimize(r) ==
  /\ phase[r] = "optimize"
  /\ Goto(r, "silver")
  /\ UNCHANGED <<log, extracted, lake, overlapped, runFaults>>

(* transform_silver: the rows of bronze_batch, equal rows once.            *)
BuildSilver(r, e) ==
  /\ phase[r] = "silver" /\ e \in todo[r]
  /\ silver' = [silver EXCEPT ![e] = {landing[o][e] : o \in bronze[e]}]
  /\ DealtWith(r, e, TRUE, "gold")
  /\ UNCHANGED <<log, extracted, raw, bronze, gold, overlapped, runFaults>>

(* A notebook's write fails for one entity; the others are still written.  *)
EntityFails(r, e) ==
  /\ phase[r] \in {"bronze", "silver"} /\ e \in todo[r] /\ Fault
  /\ DealtWith(r, e, FALSE, "failed")
  /\ UNCHANGED <<log, extracted, lake, overlapped>>

-----------------------------------------------------------------------------
(* Tasks dbt_run_gold and dbt_test_gold.                                   *)

BuildGold(r, e) ==
  /\ phase[r] = "gold" /\ e \in todo[r]
  /\ gold' = [gold EXCEPT ![e] = silver[e]]
  /\ DealtWith(r, e, TRUE, "test")
  /\ UNCHANGED <<log, extracted, raw, bronze, silver, overlapped, runFaults>>

(* The unique tests on the keys.                                           *)
TestGold(r) ==
  /\ phase[r] = "test"
  /\ IF \E e \in Entities : Conflict(e, gold[e]) THEN Fail(r) ELSE Goto(r, "done")
  /\ UNCHANGED <<log, extracted, lake, overlapped, runFaults>>

(* Any task may fail between two of its steps; it is not retried.          *)
TaskFails(r) ==
  /\ Active(r) /\ Fault
  /\ Fail(r)
  /\ UNCHANGED <<log, extracted, lake, overlapped>>

-----------------------------------------------------------------------------
RunStep(r) ==
  \/ SubmitJob(r) \/ Validate(r) \/ Optimize(r) \/ TestGold(r)
  \/ \E e \in Entities :
       \/ Count(r, e) \/ Clear(r, e) \/ Extract(r, e) \/ Upload(r, e)
       \/ Verify(r, e) \/ Ingest(r, e) \/ BuildSilver(r, e) \/ BuildGold(r, e)

RunFault(r) ==
  \/ SkipJob(r) \/ TaskFails(r)
  \/ \E e \in Entities :
       EntityFails(r, e) \/ \E landed \in BOOLEAN : StageFails(r, e, landed)

Changing == \E e \in Entities, kind \in Changes : Change(e, kind)

RunNext ==
  \/ Changing
  \/ \E r \in Runs : CreateRun(r) \/ RunStep(r) \/ RunFault(r)

RunSpec == RunInit /\ [][RunNext]_runVars

-----------------------------------------------------------------------------
RunTypeOK ==
  /\ log \in [Entities -> Seq(Changes)]
  /\ phase \in [Runs -> Phases]
  /\ todo \in [Runs -> SUBSET Entities]
  /\ broken \in [Runs -> BOOLEAN]
  /\ counted \in [Runs -> [Entities -> Snapshots]]
  /\ landing \in [Runs -> [Entities -> Snapshots]]
  /\ raw \in [Entities -> SUBSET Runs]
  /\ bronze \in [Entities -> SUBSET Runs]
  /\ silver \in [Entities -> SUBSET Nat]
  /\ gold \in [Entities -> SUBSET Nat]
  /\ overlapped \in [Runs -> BOOLEAN]
  /\ runFaults \in Nat

(* The phases that follow the one named, in a run that goes on.            *)
AfterGold == {"test"}
AfterSilver == {"gold"} \cup AfterGold
AfterBronze == {"validate", "optimize", "silver"} \cup AfterSilver
AfterExtract == {"verify", "submit", "bronze"} \cup AfterBronze
AfterCount == {"extract"} \cup AfterExtract

(* Entity e is through phase p of run r.                                   *)
Through(r, e, p, after) == phase[r] \in after \/ (phase[r] = p /\ e \notin todo[r])

(* "safely re-runnable": whatever earlier runs left behind, failed ones    *)
(* included, a run that has the lake to itself finds only its own file in  *)
(* raw/, and Bronze, Silver and Gold are made of that file alone, as long  *)
(* as none of its entities is broken.                                      *)
CleanFor(r, e) ==
  /\ Through(r, e, "count", AfterCount) => raw[e] \subseteq {r}
  /\ Through(r, e, "extract", AfterExtract) => raw[e] = {r}
  /\ Through(r, e, "bronze", AfterBronze) => bronze[e] = {r}
  /\ Through(r, e, "silver", AfterSilver) => silver[e] = {landing[r][e]}
  /\ Through(r, e, "gold", AfterGold) => gold[e] = {landing[r][e]}

SoloRunIsClean ==
  \A r \in Runs : ~overlapped[r] /\ ~broken[r] => \A e \in Entities : CleanFor(r, e)

(* "bronze_validate is itself a real data quality gate": no run gets past  *)
(* it while bronze_batch holds the rows of a table twice.                  *)
ValidateIsAGate ==
  \A r \in Runs : phase[r] = "optimize" =>
    \A e \in Entities : Cardinality(bronze[e]) = 1

(* "clear any objects a previous run of this DAG already landed": what a   *)
(* run deletes from raw/ belongs to a run that is over.                    *)
ClearsOnlyPreviousRuns ==
  [][\A e \in Entities : \A o \in raw[e] \ raw'[e] : ~Active(o)]_runVars
=============================================================================
