---------------------------- MODULE GlueCatalog ----------------------------
(***************************************************************************)
(* SilverCatalogRegistrationStage over GlueCatalogProvider: a registration *)
(* lists the commits of a Silver table's Delta log, reads backwards to the *)
(* newest metaData, checks that Glue does not have the table and creates   *)
(* it.  Meanwhile the Silver job commits, its log is cleaned up, another   *)
(* registration runs, and the provider's other operations are used.        *)
(***************************************************************************)
EXTENDS Integers, Sequences, FiniteSetsExt

CONSTANTS
  Registrars,    \* executions of the stage
  Schemas,       \* schemas the Silver table may have
  Unsupported,   \* those with a type _to_glue_type() refuses
  MaxCommits,    \* bound: commits of the Silver job
  MaxUses        \* bound: other operations of the provider

ASSUME CatalogAssumption ==
  /\ Unsupported \subseteq Schemas /\ "no_metaData" \notin Schemas
  /\ MaxCommits \in Nat /\ MaxUses \in Nat

VARIABLES
  log,        \* the commits: their metaData's schema, or none
  kept,       \* the first commit whose JSON is still there
  database,   \* Glue has the database
  table,      \* Glue's table: [schema, asOf], its location left out
  stage,      \* per registration: where it is, and how it ended
  listed,     \* per registration: the commits it has listed: <<first, last>>
  schema,     \* per registration: the schema it read
  together,   \* history: registrations that ran with another at once
  moving,     \* update_table_location(): the table it has read, or none
  uses        \* history: operations used

catalogVars ==
  <<log, kept, database, table, stage, listed, schema, together, moving, uses>>

NoMeta == "no_metaData"
TableOf(s, n) == [schema |-> s, asOf |-> n]
NoTable == TableOf(NoMeta, 0)

(* A commit carries a metaData only when the schema has changed.           *)
WithMeta(first, last) == {n \in first..last : log[n] # NoMeta}
SchemaAt(n) == log[Max(WithMeta(1, n))]

CatalogInit ==
  /\ log = <<>> /\ kept = 1 /\ database = TRUE /\ table = NoTable
  /\ stage = [r \in Registrars |-> "idle"] /\ listed = [r \in Registrars |-> <<1, 0>>]
  /\ schema = [r \in Registrars |-> NoMeta]
  /\ together = {} /\ moving = NoTable /\ uses = 0

Running(r) == stage[r] \in {"reading", "checking", "creating"}

-----------------------------------------------------------------------------
(* The Silver job, and Delta cleaning up what a checkpoint has made old.   *)

CommitSilver ==
  /\ Len(log) < MaxCommits
  /\ \E s \in Schemas :
       log' = Append(log, IF log # <<>> /\ SchemaAt(Len(log)) = s THEN NoMeta ELSE s)
  /\ UNCHANGED <<kept, database, table, stage, listed, schema, together, moving, uses>>

CleanUpLog ==
  /\ kept < Len(log) /\ kept' = kept + 1
  /\ UNCHANGED <<log, database, table, stage, listed, schema, together, moving, uses>>

-----------------------------------------------------------------------------
(* The stage.                                                              *)

StageGoes(r, label) == stage' = [stage EXCEPT ![r] = label]
GlueUnchanged == UNCHANGED <<log, kept, database, table, moving, uses>>

ListLog(r) ==
  /\ stage[r] = "idle" /\ listed' = [listed EXCEPT ![r] = <<kept, Len(log)>>]
  /\ StageGoes(r, IF log = <<>> THEN "no_Delta_table" ELSE "reading")
  /\ together' = IF \E q \in Registrars : Running(q)
                   THEN together \cup {q \in Registrars : Running(q)} \cup {r} ELSE together
  /\ UNCHANGED schema /\ GlueUnchanged

(* Commits are downloaded from the newest to the one that has a metaData.  *)
MetaFound(r) == WithMeta(listed[r][1], listed[r][2]) # {}
OldestMeta(r) == Min(WithMeta(listed[r][1], listed[r][2]))       \* mutant: reads forwards
Newest(r) == Max(WithMeta(listed[r][1], listed[r][2]))

ReadSchema(r) ==
  /\ stage[r] = "reading" /\ MetaFound(r) /\ Newest(r) >= kept
  /\ log[Newest(r)] \notin Unsupported
  /\ schema' = [schema EXCEPT ![r] = log[Newest(r)]] /\ StageGoes(r, "checking")
  /\ UNCHANGED <<listed, together>> /\ GlueUnchanged

(* No metaData is left, one is cleaned up under its eyes, a type is not    *)
(* supported.                                                              *)
ReadRaises(r) ==
  /\ stage[r] = "reading"
  /\ MetaFound(r) /\ Newest(r) >= kept => log[Newest(r)] \in Unsupported
  /\ StageGoes(r, "raised")
  /\ UNCHANGED <<listed, schema, together>> /\ GlueUnchanged

(* TableAlreadyExistsError: the stage completes and changes nothing.       *)
TableExists(r) ==
  /\ stage[r] = "checking" /\ StageGoes(r, IF table # NoTable THEN "completed" ELSE "creating")
  /\ UNCHANGED <<listed, schema, together>> /\ GlueUnchanged

CreateGlueTable(r) ==
  /\ stage[r] = "creating" /\ database /\ table = NoTable /\ StageGoes(r, "completed")
  /\ table' = TableOf(schema[r], listed[r][2])
  /\ UNCHANGED <<log, kept, database, listed, schema, together, moving, uses>>

(* AlreadyExistsException and EntityNotFoundException are Glue's own: the  *)
(* stage does not catch them.                                              *)
CreateRaises(r) ==
  /\ stage[r] = "creating"
  /\ \/ table # NoTable /\ StageGoes(r, "raised_exists")
     \/ ~database /\ StageGoes(r, "raised")
  /\ UNCHANGED <<listed, schema, together>> /\ GlueUnchanged

(* The stage is executed again.                                            *)
RunAgain(r) ==
  /\ stage[r] # "idle" /\ ~Running(r) /\ StageGoes(r, "idle")
  /\ schema' = [schema EXCEPT ![r] = NoMeta] /\ listed' = [listed EXCEPT ![r] = <<1, 0>>]
  /\ together' = together \ {r} /\ GlueUnchanged

-----------------------------------------------------------------------------
(* The provider's other operations that change Glue.                       *)

Uses ==
  /\ uses < MaxUses /\ uses' = uses + 1
  /\ UNCHANGED <<log, kept, stage, listed, schema, together>>

CreateDatabase == ~database /\ database' = TRUE /\ Uses /\ UNCHANGED <<table, moving>>

(* Glue deletes the tables of a database with it.                          *)
DeleteDatabase ==
  database /\ database' = FALSE /\ table' = NoTable /\ Uses /\ UNCHANGED moving

DeleteTable == table # NoTable /\ table' = NoTable /\ Uses /\ UNCHANGED <<database, moving>>

ReadTable ==
  /\ table # NoTable /\ moving = NoTable /\ moving' = table
  /\ Uses /\ UNCHANGED <<database, table>>

(* What was read is written back, but for the location.                    *)
UpdateTableLocation ==
  /\ moving # NoTable /\ moving' = NoTable
  /\ table' = IF table # NoTable THEN moving ELSE NoTable
  /\ UNCHANGED <<log, kept, database, stage, listed, schema, together, uses>>

Register(r) ==
  \/ ListLog(r) \/ ReadSchema(r) \/ ReadRaises(r) \/ TableExists(r) \/ CreateGlueTable(r)
  \/ CreateRaises(r) \/ RunAgain(r)

CatalogNext ==
  \/ CommitSilver \/ CleanUpLog
  \/ CreateDatabase \/ DeleteDatabase \/ DeleteTable \/ ReadTable \/ UpdateTableLocation
  \/ \E r \in Registrars : Register(r)

CatalogSpec == CatalogInit /\ [][CatalogNext]_catalogVars

-----------------------------------------------------------------------------
TheTables == {NoTable} \cup [schema : Schemas, asOf : 1..MaxCommits]

CatalogTypeOK ==
  /\ log \in Seq(Schemas \cup {NoMeta}) /\ Len(log) <= MaxCommits /\ kept \in Nat \ {0}
  /\ database \in BOOLEAN /\ table \in TheTables /\ moving \in TheTables /\ uses \in 0..MaxUses
  /\ stage \in [Registrars -> {"idle", "reading", "checking", "creating", "completed",
                            "no_Delta_table", "raised", "raised_exists"}]
  /\ listed \in [Registrars -> (Nat \ {0}) \X Nat]
  /\ schema \in [Registrars -> Schemas \cup {NoMeta}] /\ together \subseteq Registrars

(* What Glue says of the table is the schema that it had when the log was  *)
(* listed, never a mixture or an older one, although only some commits say *)
(* what it is; and no table has a type Glue was not told about.            *)
CatalogIsTruthful ==
  table # NoTable => table.schema = SchemaAt(table.asOf) /\ table.schema \notin Unsupported

(* Registering again is harmless, as the stage promises, unless two run at *)
(* once: only then does Glue refuse a table the check did not find.        *)
OnlyOverlapRefused ==
  \A r \in Registrars : stage[r] = "raised_exists" => r \in together
=============================================================================
