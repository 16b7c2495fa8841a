--------------------------- MODULE PlatformProofs ---------------------------
(***************************************************************************)
(* Every behaviour of the platform is one of each of its parts, so what is *)
(* proved of a part holds of the platform.                                 *)
(***************************************************************************)
EXTENDS Platform, MarketplaceProofs, LakeMaintenanceProofs, OrderStatusProofs,
        ControlPlaneProofs

(* A step of the platform is a step of one part and changes no other.      *)
LEMMA StepOfParts ==
  ASSUME [PlatformNext]_platformVars
  PROVE  /\ [DatabaseNext]_databaseVars /\ [SimulatorNext]_simulatorVars
         /\ [StatusNext]_statusVars /\ [LakeNext]_lakeVars /\ [CatalogNext]_catalogVars
         /\ [ClientNext]_clientVars /\ [BootstrapNext]_bootstrapVars
<1>1. CASE DatabaseStep
  BY <1>1 DEF DatabaseStep
<1>2. CASE SimulatorPart
  BY <1>2 DEF SimulatorPart
<1>3. CASE StatusStep
  BY <1>3 DEF StatusStep
<1>4. CASE LakeStep
  BY <1>4 DEF LakeStep
<1>5. CASE CatalogStep
  BY <1>5 DEF CatalogStep
<1>6. CASE ClientPart
  BY <1>6 DEF ClientPart
<1>7. CASE BootstrapPart
  BY <1>7 DEF BootstrapPart
<1>8. CASE UNCHANGED platformVars
  BY <1>8 DEF platformVars
<1>9. QED
  BY <1>1, <1>2, <1>3, <1>4, <1>5, <1>6, <1>7, <1>8 DEF PlatformNext

(* A behaviour of the platform is a behaviour of each part.                *)
THEOREM PartsOfThePlatform ==
  PlatformSpec => /\ DatabaseSpec /\ SimulatorSpec /\ StatusSpec /\ LakeSpec
                  /\ CatalogSpec /\ ClientSpec /\ BootstrapSpec
<1>1. PlatformInit => /\ DatabaseInit /\ SimulatorInit /\ StatusInit /\ LakeInit
                      /\ CatalogInit /\ ClientInit /\ BootstrapInit
  BY DEF PlatformInit
<1>2. [PlatformNext]_platformVars =>
        /\ [DatabaseNext]_databaseVars /\ [SimulatorNext]_simulatorVars
        /\ [StatusNext]_statusVars /\ [LakeNext]_lakeVars /\ [CatalogNext]_catalogVars
        /\ [ClientNext]_clientVars /\ [BootstrapNext]_bootstrapVars
  BY StepOfParts
<1>3. QED
  BY <1>1, <1>2, PTL
  DEF PlatformSpec, DatabaseSpec, SimulatorSpec, StatusSpec, LakeSpec, CatalogSpec, ClientSpec,
      BootstrapSpec

(* On the platform, no flush, kill or process of the simulator leaves a    *)
(* row that refers to a row that is not there.                             *)
THEOREM PlatformRowsResolve == PlatformSpec => []ReferencesResolve
BY PartsOfThePlatform, RowsAlwaysResolve, PTL

(* On the platform, a batch leaves one order at most without its details,  *)
(* and none when it ends without an exception.                             *)
THEOREM PlatformTearsOneOrder == PlatformSpec => []AtMostOneTornOrder
BY PartsOfThePlatform, OneTornOrderAtMost, PTL

(* On the platform, whatever appends, compactions and vacuums interleave,  *)
(* no row of the lake is lost or doubled, nor a file that a version needs. *)
THEOREM PlatformKeepsItsRows == PlatformSpec => []LakeKeepsItsRows
BY PartsOfThePlatform, LakeIsKept, PTL

(* On the platform, orders move along the state machine, one step at a     *)
(* time and late enough, for any number of simulators.                     *)
THEOREM PlatformMovesOrdersSoundly == PlatformSpec => OrdersMoveSoundly
BY PartsOfThePlatform, OrdersAreMovedSoundly, PTL

(* On the platform, Glue says what was true, a trigger creates one run and *)
(* a bootstrap may be repeated: alone, it leaves each row as the files say *)
(* that it has read.                                                       *)
THEOREM PlatformControlsSoundly == PlatformSpec => []ControlPlaneIsSound
<1>1. CatalogIsTruthful /\ OnlyOverlapRefused /\ TriggersOnce /\ BootstrapIsRepeatable
        => ControlPlaneIsSound
  BY DEF ControlPlaneIsSound
<1>2. QED
  BY <1>1, PartsOfThePlatform, GlueTellsTheTruth, RegistrationIsRepeatable, TriggerIsSentOnce,
     BootstrapMayBeRepeated, PTL

(* On the platform, the stock of an inventory is what the committed rows   *)
(* say of it, whatever the processes of the simulator do at once.          *)
THEOREM PlatformKeepsItsStock == PlatformSpec => []StockIsAccounted
BY PartsOfThePlatform, StockIsKept, PTL

(* On the platform, the scripts run to their end, a head is whole, and     *)
(* seeding may be repeated.                                                *)
THEOREM PlatformIsBroughtUp == PlatformSpec => []BringUpIsSound
BY PartsOfThePlatform, BringUpSucceeds, PTL

(* Every part of the platform keeps its type, the part a behaviour is      *)
(* about and those that do nothing in it.                                  *)
THEOREM PlatformIsTyped == PlatformSpec => []PlatformTypeOK
<1>1. CatalogSpec => []CatalogTypeOK
  <2>1. CatalogInv => CatalogTypeOK
    BY DEF CatalogInv
  <2>2. QED
    BY <2>1, CatalogInitInv, CatalogNextInv, PTL DEF CatalogSpec
<1>2. ClientSpec => []ClientTypeOK
  <2>1. ClientInv => ClientTypeOK
    BY DEF ClientInv
  <2>2. QED
    BY <2>1, ClientInitInv, ClientNextInv, PTL DEF ClientSpec
<1>3. BootstrapSpec => []BootstrapTypeOK
  <2>1. BootstrapInv => BootstrapTypeOK
    BY DEF BootstrapInv
  <2>2. QED
    BY <2>1, BootstrapInitInv, BootstrapNextInv, PTL DEF BootstrapSpec
<1>4. DatabaseTypeOK /\ SimulatorTypeOK /\ StatusTypeOK /\ LakeTypeOK /\ CatalogTypeOK
      /\ ClientTypeOK /\ BootstrapTypeOK => PlatformTypeOK
  BY DEF PlatformTypeOK
<1>5. QED
  BY <1>1, <1>2, <1>3, <1>4, PartsOfThePlatform, DatabaseIsTyped, SimulatorIsTyped,
     StatusTypeCorrect, LakeTypeCorrect, PTL
=============================================================================
