-------------------------- MODULE AirflowBootstrap --------------------------
(***************************************************************************)
(* Bootstrap.run(): read config.yaml, then the Terraform outputs; sync the *)
(* connections in one transaction, the variables one by one, those of the  *)
(* outputs and then those of config.yaml; read pools.json and sync the     *)
(* pools in one transaction.  A bootstrap that raises or is killed may be  *)
(* run again; two may run at once.                                         *)
(*                                                                         *)
(* A row is abstracted to the versions of what it is made of: a function   *)
(* from the environment of the process and the files it is built from to   *)
(* the version of each.                                                    *)
(***************************************************************************)
EXTENDS Integers, Sequences, FiniteSets, SequencesExt

CONSTANTS
  Boots,            \* bootstraps
  Connections,      \* the conn_ids of _build_connections(), a sequence
  ConnectionInputs,  \* what each of them is built from; nothing, if of literals
  OutputVariables,  \* the keys taken from the Terraform outputs
  ConfigVariables,  \* the keys of config.yaml
  Pools,            \* the names in pools.json
  MaxVersions,      \* bound: versions of the environment and of each file
  MaxChanged        \* bound: how many of these change

Inputs == {"environment", "config.yaml", "terraform_outputs.json", "pools.json"}

Sections == <<Connections, OutputVariables, ConfigVariables, Pools>>
Transactions == {1, 4}       \* the sections that are one transaction each
RowsOf(n) == ToSet(Sections[n])
AirflowRows == RowsOf(1) \cup RowsOf(2) \cup RowsOf(3) \cup RowsOf(4)

(* The files that are read when a section begins, in this order.           *)
Reads == <<<<"config.yaml", "terraform_outputs.json">>, <<>>, <<>>, <<"pools.json">>>>

InputsOf(n, r) ==
  CASE n = 1 -> ConnectionInputs[r]
    [] n = 2 -> {"terraform_outputs.json"}
    [] n = 3 -> {"config.yaml"}
    [] n = 4 -> {"pools.json"}

(* What section n makes of row r when the files are of the versions v.     *)
BuiltFrom(v, n, r) == [f \in InputsOf(n, r) |-> v[f]]

(* No later section writes the row again: a key of config.yaml that is one *)
(* of the outputs' too, as "environment" is, overwrites it.                *)
IsFinal(n, r) == \A m \in 1..4 : m > n => r \notin RowsOf(m)

ASSUME BootstrapAssumption ==
  /\ \A n \in 1..4 : Sections[n] \in Seq(STRING)
  /\ \A n \in Transactions : IsInjective(Sections[n])
  /\ \A m, n \in 1..4 :        \* tables of their own, but the two of variables
       m # n /\ {m, n} # {2, 3} => RowsOf(m) \cap RowsOf(n) = {}
  /\ ConnectionInputs \in [RowsOf(1) -> SUBSET {"environment", "terraform_outputs.json"}]
  /\ MaxVersions \in Nat \ {0} /\ MaxChanged \in Nat

VARIABLES
  configured,   \* the version of the environment and of each file
  committed,    \* the rows of Airflow's metadata database
  section,      \* per bootstrap: the section it is at; 0 stopped, 5 completed
  nth,          \* per bootstrap: the row of the section it is at
  taken,        \* per bootstrap: the versions it has read; 0 not read yet
  seen,         \* per bootstrap: what its look-up of the row found, or Unseen
  wrote,        \* per bootstrap: rows its open transaction has written
  alone,        \* history, per bootstrap: no other has run since it began
  concurrent    \* history: two bootstraps have run at once

bootstrapVars ==
  <<configured, committed, section, nth, taken, seen, wrote, alone, concurrent>>

NoRow == [absent |-> 0]     \* of a row
Unseen == [unseen |-> 0]     \* of a look-up
Unread == [f \in Inputs |-> 0]
RowValues == UNION {[S -> 0..MaxVersions] : S \in SUBSET Inputs}

BootstrapInit ==
  /\ configured = [f \in Inputs |-> 1] /\ committed = [r \in AirflowRows |-> NoRow]
  /\ section = [b \in Boots |-> 0] /\ nth = [b \in Boots |-> 1]
  /\ taken = [b \in Boots |-> Unread] /\ seen = [b \in Boots |-> Unseen]
  /\ wrote = [b \in Boots |-> {}]
  /\ alone = [b \in Boots |-> FALSE] /\ concurrent = FALSE

Active(b) == section[b] \in 1..4
HasRead(b) == \A f \in ToSet(Reads[section[b]]) : taken[b][f] # 0
AtRow(b) == Active(b) /\ HasRead(b) /\ nth[b] <= Len(Sections[section[b]])
AtEnd(b) == Active(b) /\ HasRead(b) /\ nth[b] > Len(Sections[section[b]])
RowAt(b) == Sections[section[b]][nth[b]]
Value(b) == BuiltFrom(taken[b], section[b], RowAt(b))

ChangeConfiguration(f) ==
  /\ configured[f] < MaxVersions
  /\ Cardinality({f} \cup {g \in Inputs : configured[g] # 1}) <= MaxChanged
  /\ configured' = [configured EXCEPT ![f] = @ + 1]
  /\ UNCHANGED <<committed, section, nth, taken, seen, wrote, alone, concurrent>>

BeginBootstrap(b) ==
  LET others == \E q \in Boots : Active(q) IN
  /\ ~Active(b) /\ section' = [section EXCEPT ![b] = 1] /\ nth' = [nth EXCEPT ![b] = 1]
  /\ taken' = [taken EXCEPT ![b] = [Unread EXCEPT !["environment"] = configured["environment"]]]
  /\ alone' = [q \in Boots |-> q = b /\ ~others]
  /\ concurrent' = (concurrent \/ others)
  /\ UNCHANGED <<configured, committed, seen, wrote>>

Load(b) ==
  /\ Active(b)
  /\ \E i \in 1..Len(Reads[section[b]]) : LET f == Reads[section[b]][i] IN
       /\ taken[b][f] = 0 /\ \A j \in 1..(i - 1) : taken[b][Reads[section[b]][j]] # 0
       /\ taken' = [taken EXCEPT ![b][f] = configured[f]]
  /\ UNCHANGED <<configured, committed, section, nth, seen, wrote, alone, concurrent>>

(* A file, an output or an environment variable is missing, the database   *)
(* does not answer, the container is stopped: what is committed stays.     *)
Fails(b) ==
  /\ Active(b) /\ section' = [section EXCEPT ![b] = 0]
  /\ nth' = [nth EXCEPT ![b] = 1] /\ taken' = [taken EXCEPT ![b] = Unread]
  /\ seen' = [seen EXCEPT ![b] = Unseen] /\ wrote' = [wrote EXCEPT ![b] = {}]
  /\ UNCHANGED <<configured, committed, alone, concurrent>>

(* The look-up of a row; what it changes is written before the next one.   *)
LookUp(b) ==
  /\ AtRow(b) /\ section[b] \in Transactions /\ seen[b] = Unseen
  /\ seen' = [seen EXCEPT ![b] = committed[RowAt(b)]]
  /\ UNCHANGED <<configured, committed, section, nth, taken, wrote, alone, concurrent>>

NextRow(b) ==
  /\ nth' = [nth EXCEPT ![b] = @ + 1] /\ seen' = [seen EXCEPT ![b] = Unseen]
  /\ UNCHANGED <<configured, committed, section, taken, alone, concurrent>>

(* SQLAlchemy writes no row whose values are those it has read.            *)
SameValues(b) == seen[b] # Unseen /\ seen[b] = Value(b) /\ NextRow(b) /\ UNCHANGED wrote

Write(b) ==
  /\ seen[b] # Unseen /\ seen[b] # Value(b)
  /\ \A q \in Boots \ {b} : RowAt(b) \notin wrote[q]
  /\ seen[b] = NoRow => committed[RowAt(b)] = NoRow
  /\ wrote' = [wrote EXCEPT ![b] = @ \cup {RowAt(b)}] /\ NextRow(b)

(* Another has inserted the row since the look-up.                         *)
InsertRaises(b) ==
  /\ seen[b] = NoRow /\ committed[RowAt(b)] # NoRow /\ Fails(b)

CommitSection(b) ==
  /\ AtEnd(b) /\ section' = [section EXCEPT ![b] = @ + 1] /\ nth' = [nth EXCEPT ![b] = 1]
  /\ committed' = [r \in AirflowRows |->
                    IF r \in wrote[b] THEN BuiltFrom(taken[b], section[b], r) ELSE committed[r]]
  /\ wrote' = [wrote EXCEPT ![b] = {}]
  /\ UNCHANGED <<configured, taken, seen, alone, concurrent>>

SetVariable(b) ==
  /\ AtRow(b) /\ section[b] \notin Transactions
  /\ committed' = [committed EXCEPT ![RowAt(b)] = Value(b)]
  /\ nth' = [nth EXCEPT ![b] = @ + 1]
  /\ UNCHANGED <<configured, section, taken, seen, wrote, alone, concurrent>>

BootstrapStep(b) ==
  \/ BeginBootstrap(b) \/ Load(b) \/ Fails(b) \/ LookUp(b) \/ SameValues(b) \/ Write(b)
  \/ InsertRaises(b) \/ CommitSection(b) \/ SetVariable(b)

BootstrapNext ==
  \/ \E f \in Inputs : ChangeConfiguration(f)
  \/ \E b \in Boots : BootstrapStep(b)

BootstrapSpec == BootstrapInit /\ [][BootstrapNext]_bootstrapVars

-----------------------------------------------------------------------------
BootstrapTypeOK ==
  /\ configured \in [Inputs -> 1..MaxVersions]
  /\ committed \in [AirflowRows -> RowValues \cup {NoRow}]
  /\ section \in [Boots -> 0..5] /\ nth \in [Boots -> Nat \ {0}]
  /\ taken \in [Boots -> [Inputs -> 0..MaxVersions]]
  /\ seen \in [Boots -> RowValues \cup {NoRow, Unseen}]
  /\ wrote \in [Boots -> SUBSET AirflowRows]
  /\ alone \in [Boots -> BOOLEAN] /\ concurrent \in BOOLEAN

(* Whatever bootstraps that failed before have left, one that completes    *)
(* with no other beside it leaves every row as what it has read says of    *)
(* it, each file at the moment it was read.  Rows of different files are   *)
(* then of different moments, when one changed in between.                 *)
EndsAsRead ==
  \A b \in Boots : section[b] = 5 /\ alone[b] =>
    \A n \in 1..4 : \A r \in RowsOf(n) : IsFinal(n, r) => committed[r] = BuiltFrom(taken[b], n, r)

(* As long as no two run at once, the rows of one transaction come of one  *)
(* reading at every moment, or none is there.                              *)
IsWhole(n) ==
  \/ \A r \in RowsOf(n) : committed[r] = NoRow
  \/ \E v \in [Inputs -> 0..MaxVersions] : \A r \in RowsOf(n) : committed[r] = BuiltFrom(v, n, r)

BootstrapIsRepeatable == EndsAsRead /\ (~concurrent => \A n \in Transactions : IsWhole(n))
=============================================================================
