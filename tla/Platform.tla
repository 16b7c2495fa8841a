------------------------------ MODULE Platform ------------------------------
(***************************************************************************)
(* The parts of the platform around the streams and pipelines: how the     *)
(* marketplace database is brought up, the simulator that fills it and     *)
(* moves its orders on, the maintenance of the lake the stream is written  *)
(* to, and the control plane (Glue, the Airflow client and bootstrap).     *)
(*                                                                         *)
(* Each works on state of its own, so a behaviour is one of a single part: *)
(* the others do nothing in it, and their interleavings are not multiplied.*)
(***************************************************************************)
EXTENDS MarketplaceDatabase, SimulatorBatch, OrderStatus, LakeMaintenance, GlueCatalog,
        WorkflowClient, AirflowBootstrap

VARIABLE part     \* the part a behaviour is about

Parts == {"database", "simulator", "status", "lake", "catalog", "client", "bootstrap"}

Idle == [walkers |-> {}, orders |-> {}, limit |-> 1]    \* of the simulators that walk orders

PlatformInit ==
  /\ part \in Parts
  /\ DatabaseInit /\ SimulatorInit /\ StatusInit /\ LakeInit /\ CatalogInit /\ ClientInit
  /\ BootstrapInit
  /\ part = "status" <=> plan # Idle
  /\ part # "simulator" => settings = CHOOSE s \in Settings : TRUE

DatabaseStep ==
  /\ part = "database" /\ DatabaseNext /\ UNCHANGED part
  /\ UNCHANGED <<simulatorVars, statusVars, lakeVars, catalogVars, clientVars, bootstrapVars>>

SimulatorPart ==
  /\ part = "simulator" /\ SimulatorNext /\ UNCHANGED part
  /\ UNCHANGED <<databaseVars, statusVars, lakeVars, catalogVars, clientVars, bootstrapVars>>

StatusStep ==
  /\ part = "status" /\ StatusNext /\ UNCHANGED part
  /\ UNCHANGED <<databaseVars, simulatorVars, lakeVars, catalogVars, clientVars, bootstrapVars>>

LakeStep ==
  /\ part = "lake" /\ LakeNext /\ UNCHANGED part
  /\ UNCHANGED <<databaseVars, simulatorVars, statusVars, catalogVars, clientVars, bootstrapVars>>

CatalogStep ==
  /\ part = "catalog" /\ CatalogNext /\ UNCHANGED part
  /\ UNCHANGED <<databaseVars, simulatorVars, statusVars, lakeVars, clientVars, bootstrapVars>>

ClientPart ==
  /\ part = "client" /\ ClientNext /\ UNCHANGED part
  /\ UNCHANGED <<databaseVars, simulatorVars, statusVars, lakeVars, catalogVars, bootstrapVars>>

BootstrapPart ==
  /\ part = "bootstrap" /\ BootstrapNext /\ UNCHANGED part
  /\ UNCHANGED <<databaseVars, simulatorVars, statusVars, lakeVars, catalogVars, clientVars>>

PlatformNext ==
  \/ DatabaseStep \/ SimulatorPart \/ StatusStep \/ LakeStep \/ CatalogStep
  \/ ClientPart \/ BootstrapPart

platformVars ==
  <<part, databaseVars, simulatorVars, statusVars, lakeVars, catalogVars, clientVars,
    bootstrapVars>>

PlatformSpec == PlatformInit /\ [][PlatformNext]_platformVars

-----------------------------------------------------------------------------
(* The state of the part a behaviour is about is of its type.              *)
PlatformTypeOK ==
  /\ part = "database" => DatabaseTypeOK
  /\ part = "simulator" => SimulatorTypeOK
  /\ part = "status" => StatusTypeOK
  /\ part = "lake" => LakeTypeOK
  /\ part = "catalog" => CatalogTypeOK
  /\ part = "client" => ClientTypeOK
  /\ part = "bootstrap" => BootstrapTypeOK

(* Glue, Airflow's runs and Airflow's metadata say what was asked of them. *)
ControlPlaneIsSound ==
  /\ CatalogIsTruthful /\ OnlyOverlapRefused
  /\ TriggersOnce /\ BootstrapIsRepeatable
=============================================================================
