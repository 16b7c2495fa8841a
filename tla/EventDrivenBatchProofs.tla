----------------------- MODULE EventDrivenBatchProofs -----------------------
(***************************************************************************)
(* The watcher's invariants, for any number of flushes, restarts and       *)
(* failures, alone and together with the pipeline.                         *)
(***************************************************************************)
EXTENDS EventDrivenBatch, FiniteSetTheorems, TLAPS

(* Before any restart the counter, its sample and the watermark are counts *)
(* of the changes written, scraped and acted on.                           *)
ReadingOf(n) == IF n = 0 THEN NoData ELSE n

CountersAgree ==
  restarts = 0 =>
    /\ counter = ReadingOf(streamed) /\ scraped = ReadingOf(scrapedAt)
    /\ watermark = seen /\ seen <= scrapedAt /\ scrapedAt <= streamed

WatchInv == WatchTypeOK /\ NoStorm /\ OneWatchChain /\ CountersAgree

(* The watcher's invariant holds before the first cycle.                   *)
LEMMA WatchInitInv ==
  ASSUME WatchInit
  PROVE  WatchInv
<1>1. lost \in BOOLEAN
  BY DEF WatchInit
<1>2. WatchTypeOK
  BY <1>1 DEF WatchInit, WatchTypeOK, SensorStates, TaskStates, Readings, NoData
<1>3. NoStorm
  BY DEF WatchInit, NoStorm, Unscraped, Unread, Unfired, MayTrigger, NoData
<1>4. OneWatchChain
  BY DEF WatchInit, OneWatchChain, Heirs
<1>5. CountersAgree
  BY DEF WatchInit, CountersAgree, ReadingOf, NoData
<1>. QED
  BY <1>2, <1>3, <1>4, <1>5 DEF WatchInv

(* The invariant is kept by every step of the watcher, of the consumer and *)
(* of Prometheus: one case per action.                                     *)
LEMMA WatchStepInv ==
  ASSUME WatchInv, [WatchNext]_watchVars
  PROVE  WatchInv'
<1> USE DEF WatchInv, WatchTypeOK, NoStorm, OneWatchChain, CountersAgree, ReadingOf,
      Unscraped, Unread, Unfired, Heirs,
      MayTrigger, SensorStates, TaskStates, Readings, NoData,
      signal, sample, cycle
<1>1. ASSUME NEW n \in 1..MaxRows, NEW new \in 0..n, Flush(n, new) PROVE WatchInv'
  BY <1>1, WatchAssumption DEF Flush
<1>2. CASE ConsumerRestarts
  BY <1>2 DEF ConsumerRestarts
<1>3. CASE Scrape
  BY <1>3 DEF Scrape
<1>4. CASE StartCycle
  BY <1>4 DEF StartCycle
<1>5. CASE PokeDetects
  BY <1>5 DEF PokeDetects, NewRecordsDetected
<1>6. CASE SensorSucceeds
  BY <1>6 DEF SensorSucceeds
<1>7. CASE SensorTimesOut
  BY <1>7 DEF SensorTimesOut
<1>8. CASE SensorFails
  BY <1>8 DEF SensorFails
<1>9. CASE TriggerPipeline
  BY <1>9 DEF TriggerPipeline
<1>10. ASSUME NEW created \in BOOLEAN, TriggerFails(created) PROVE WatchInv'
  BY <1>10 DEF TriggerFails
<1>11. CASE RestartCycle
  BY <1>11 DEF RestartCycle, MayRestart
<1>12. ASSUME NEW created \in BOOLEAN, RestartFails(created) PROVE WatchInv'
  BY <1>12 DEF RestartFails, MayRestart
<1>13. CASE EndCycle
  BY <1>13 DEF EndCycle
<1>14. CASE DailySchedule
  BY <1>14 DEF DailySchedule
<1>15. CASE UNCHANGED watchVars
  BY <1>15 DEF watchVars
<1>. QED
  BY <1>1, <1>2, <1>3, <1>4, <1>5, <1>6, <1>7, <1>8, <1>9, <1>10, <1>11, <1>12,
     <1>13, <1>14, <1>15
  DEF WatchNext, WatchStep, WatchFault, Flushes

-----------------------------------------------------------------------------
(* The pipeline: what the lake of a run on its own is made of.             *)

(* A file in raw/ or in bronze_batch holds a snapshot.                     *)
FilesLanded ==
  \A e \in Entities : \A o \in raw[e] \cup bronze[e] : landing[o][e] \in Nat

(* Two runs that are active together know it.                              *)
OverlapIsKnown ==
  \A r, s \in Runs : r # s /\ Active(r) /\ Active(s) => overlapped[r]

RunInv == RunTypeOK /\ FilesLanded /\ OverlapIsKnown /\ SoloRunIsClean

(* A table's row count is a natural number.                                *)
LEMMA RowsType ==
  ASSUME NEW e, NEW n \in Nat
  PROVE  Rows(e, n) \in Nat
<1>1. IsFiniteSet(1..n)
  BY FS_Interval
<1>2. IsFiniteSet({i \in 1..n : log[e][i] = "insert"})
  BY <1>1, FS_Subset
<1>. QED
  BY <1>2, FS_CardinalityType DEF Rows

(* The pipeline's invariant holds of an empty lake.                        *)
LEMMA RunInitInv ==
  ASSUME RunInit
  PROVE  RunInv
<1>1. RunTypeOK
  BY DEF RunInit, RunTypeOK, Phases, Snapshots, None
<1>2. FilesLanded
  BY DEF RunInit, FilesLanded
<1>3. OverlapIsKnown /\ SoloRunIsClean
  BY DEF RunInit, OverlapIsKnown, SoloRunIsClean, CleanFor, Through, Active,
    AfterCount, AfterExtract, AfterBronze, AfterSilver, AfterGold
<1>. QED
  BY <1>1, <1>2, <1>3 DEF RunInv

(* A step of an active run leaves every other run that has the lake to     *)
(* itself as it was: there is none.                                        *)
LEMMA StepOfRun ==
  ASSUME RunInv, NEW r \in Runs, Active(r),
         overlapped' = overlapped,
         \A q \in Runs \ {r} : phase'[q] = phase[q],
         ~overlapped[r] /\ ~broken'[r] => \A e \in Entities : CleanFor(r, e)'
  PROVE  OverlapIsKnown' /\ SoloRunIsClean'
<1>1. OverlapIsKnown'
  BY DEF RunInv, OverlapIsKnown, Active
<1>2. ASSUME NEW q \in Runs, ~overlapped'[q], ~broken'[q], NEW e \in Entities
      PROVE  CleanFor(q, e)'
  <2>1. CASE q = r
    BY <1>2, <2>1
  <2>2. CASE q # r
    <3>1. phase'[q] \in {"new", "done", "failed"}
      BY <1>2, <2>2 DEF RunInv, OverlapIsKnown, Active
    <3>. QED
      BY <3>1 DEF CleanFor, Through, AfterCount, AfterExtract, AfterBronze,
        AfterSilver, AfterGold
  <2>. QED
    BY <2>1, <2>2
<1>3. SoloRunIsClean'
  BY <1>2 DEF SoloRunIsClean
<1>. QED
  BY <1>1, <1>3

(* What Goto and DealtWith do to the control state of a run.               *)
LEMMA GotoEffect ==
  ASSUME RunTypeOK, NEW r \in Runs, NEW p \in Phases, Goto(r, p)
  PROVE  /\ phase' \in [Runs -> Phases] /\ todo' \in [Runs -> SUBSET Entities]
         /\ broken' \in [Runs -> BOOLEAN]
         /\ phase'[r] = p /\ todo'[r] = Entities /\ broken' = broken
         /\ \A q \in Runs \ {r} : phase'[q] = phase[q]
BY DEF RunTypeOK, Goto

(* Dealing with an entity takes it off the task's list, or ends the task:  *)
(* the run goes on to the next phase only if no entity was broken.         *)
LEMMA DealtWithEffect ==
  ASSUME RunTypeOK, NEW r \in Runs, NEW e \in Entities, NEW ok \in BOOLEAN,
         NEW next \in Phases, DealtWith(r, e, ok, next)
  PROVE  /\ phase' \in [Runs -> Phases] /\ todo' \in [Runs -> SUBSET Entities]
         /\ broken' \in [Runs -> BOOLEAN]
         /\ \A q \in Runs \ {r} : phase'[q] = phase[q]
         /\ broken'[r] \/ (~broken[r] /\ ok)
         /\ \/ phase'[r] = phase[r] /\ todo'[r] = todo[r] \ {e}
            \/ phase'[r] = "failed"
            \/ todo[r] \subseteq {e} /\ phase'[r] = next /\ todo'[r] = Entities
<1> DEFINE failed == broken[r] \/ ~ok
<1>1. broken' = [broken EXCEPT ![r] = failed]
  BY DEF DealtWith
<1>2. failed \in BOOLEAN
  OBVIOUS
<1>3. broken' \in [Runs -> BOOLEAN] /\ broken'[r] = failed
  BY <1>1, <1>2 DEF RunTypeOK
<1>4. CASE todo[r] \ {e} # {}
  <2>1. todo' = [todo EXCEPT ![r] = todo[r] \ {e}] /\ phase' = phase
    BY <1>4 DEF DealtWith
  <2>. QED
    BY <1>3, <2>1 DEF RunTypeOK
<1>5. CASE todo[r] \ {e} = {}
  <2>1. /\ todo' = [todo EXCEPT ![r] = Entities]
        /\ phase' = [phase EXCEPT ![r] = IF failed THEN "failed" ELSE next]
    BY <1>5 DEF DealtWith
  <2>2. (IF failed THEN "failed" ELSE next) \in Phases
    BY DEF Phases
  <2>3. phase' \in [Runs -> Phases] /\ todo' \in [Runs -> SUBSET Entities]
    BY <2>1, <2>2 DEF RunTypeOK
  <2>4. phase'[r] = "failed" \/ phase'[r] = next
    BY <2>1 DEF RunTypeOK
  <2>7. todo'[r] = Entities
    BY <2>1 DEF RunTypeOK
  <2>5. \A q \in Runs \ {r} : phase'[q] = phase[q]
    BY <2>1 DEF RunTypeOK
  <2>6. todo[r] \subseteq {e}
    BY <1>5
  <2>. QED
    BY <1>3, <2>3, <2>4, <2>5, <2>6, <2>7
<1>. QED
  BY <1>4, <1>5

(* A task that moves on without touching the lake, or ends the run.        *)
LEMMA GotoInv ==
  ASSUME RunInv, NEW r \in Runs, NEW p \in Phases, Active(r), Goto(r, p),
         UNCHANGED <<log, extracted, lake, overlapped>>, runFaults' \in Nat,
         \/ p \in {"failed", "done"}
         \/ phase[r] = "submit" /\ p = "bronze"
         \/ phase[r] = "validate" /\ p = "optimize"
         \/ phase[r] = "optimize" /\ p = "silver"
  PROVE  RunInv'
<1>1. RunTypeOK
  BY DEF RunInv
<1>2. /\ phase' \in [Runs -> Phases] /\ todo' \in [Runs -> SUBSET Entities]
      /\ broken' \in [Runs -> BOOLEAN]
      /\ phase'[r] = p /\ todo'[r] = Entities /\ broken' = broken
      /\ \A q \in Runs \ {r} : phase'[q] = phase[q]
  BY <1>1, GotoEffect
<1>3. RunTypeOK' /\ FilesLanded'
  BY <1>2 DEF RunInv, RunTypeOK, FilesLanded, extracted, lake
<1>4. ASSUME ~overlapped[r], ~broken'[r], NEW f \in Entities PROVE CleanFor(r, f)'
  <2>1. CleanFor(r, f)
    BY <1>2, <1>4 DEF RunInv, SoloRunIsClean
  <2>. QED
    BY <1>2, <2>1 DEF CleanFor, Through, extracted, lake, AfterCount, AfterExtract,
      AfterBronze, AfterSilver, AfterGold
<1>5. OverlapIsKnown' /\ SoloRunIsClean'
  BY <1>2, <1>4, StepOfRun
<1>. QED
  BY <1>3, <1>5 DEF RunInv

(* Clearing a prefix leaves it empty: nothing of earlier runs remains.     *)
LEMMA ClearInv ==
  ASSUME RunInv, NEW r \in Runs, NEW e \in Entities, Clear(r, e)
  PROVE  RunInv'
<1>1. RunTypeOK /\ FilesLanded /\ Active(r)
  BY DEF RunInv, Active, Clear
<1>2. /\ phase' \in [Runs -> Phases] /\ todo' \in [Runs -> SUBSET Entities]
      /\ broken' \in [Runs -> BOOLEAN]
      /\ \A q \in Runs \ {r} : phase'[q] = phase[q]
      /\ broken'[r] \/ (~broken[r] /\ TRUE)
      /\ \/ phase'[r] = phase[r] /\ todo'[r] = todo[r] \ {e}
         \/ phase'[r] = "failed"
         \/ todo[r] \subseteq {e} /\ phase'[r] = "extract" /\ todo'[r] = Entities
  BY <1>1, DealtWithEffect, "extract" \in Phases DEF Clear, Phases, JobPhases
<1>3. RunTypeOK' /\ FilesLanded'
  BY <1>1, <1>2 DEF RunTypeOK, FilesLanded, Clear, extracted, lake, Fault, Snapshots, None
<1>4. ASSUME ~overlapped[r], ~broken'[r], NEW f \in Entities PROVE CleanFor(r, f)'
  <2>1. CleanFor(r, f)
    BY <1>2, <1>4 DEF RunInv, SoloRunIsClean
  <2>. QED
    BY <1>1, <1>2, <1>4, <2>1 DEF RunTypeOK, Clear, CleanFor, Through, extracted, lake,
      AfterCount, AfterExtract, AfterBronze, AfterSilver, AfterGold
<1>5. OverlapIsKnown' /\ SoloRunIsClean'
  BY <1>1, <1>2, <1>4, StepOfRun DEF Clear
<1>. QED
  BY <1>3, <1>5 DEF RunInv

(* An upload adds the run's own file to what was cleared before.           *)
LEMMA UploadInv ==
  ASSUME RunInv, NEW r \in Runs, NEW e \in Entities, Upload(r, e)
  PROVE  RunInv'
<1>1. RunTypeOK /\ FilesLanded /\ Active(r)
  BY DEF RunInv, Active, Upload, Uploads
<1>2. /\ phase' \in [Runs -> Phases] /\ todo' \in [Runs -> SUBSET Entities]
      /\ broken' \in [Runs -> BOOLEAN]
      /\ \A q \in Runs \ {r} : phase'[q] = phase[q]
      /\ broken'[r] \/ (~broken[r] /\ TRUE)
      /\ \/ phase'[r] = phase[r] /\ todo'[r] = todo[r] \ {e}
         \/ phase'[r] = "failed"
         \/ todo[r] \subseteq {e} /\ phase'[r] = "verify" /\ todo'[r] = Entities
  BY <1>1, DealtWithEffect, "verify" \in Phases DEF Upload, Phases, JobPhases
<1>3. RunTypeOK' /\ FilesLanded'
  BY <1>1, <1>2 DEF RunTypeOK, FilesLanded, Upload, Uploads, extracted, lake, Fault, Snapshots, None
<1>4. ASSUME ~overlapped[r], ~broken'[r], NEW f \in Entities PROVE CleanFor(r, f)'
  <2>1. CleanFor(r, f)
    BY <1>2, <1>4 DEF RunInv, SoloRunIsClean
  <2>. QED
    BY <1>1, <1>2, <1>4, <2>1 DEF RunTypeOK, Upload, Uploads, CleanFor, Through, extracted, lake,
      AfterCount, AfterExtract, AfterBronze, AfterSilver, AfterGold
<1>5. OverlapIsKnown' /\ SoloRunIsClean'
  BY <1>1, <1>2, <1>4, StepOfRun DEF Upload
<1>. QED
  BY <1>3, <1>5 DEF RunInv

(* A stage that failed marks its run as broken, whatever it left in raw/.  *)
LEMMA StageFailsInv ==
  ASSUME RunInv, NEW r \in Runs, NEW e \in Entities, NEW landed \in BOOLEAN, StageFails(r, e, landed)
  PROVE  RunInv'
<1>1. RunTypeOK /\ FilesLanded /\ Active(r)
  BY DEF RunInv, Active, StageFails, Uploads
<1>2. /\ phase' \in [Runs -> Phases] /\ todo' \in [Runs -> SUBSET Entities]
      /\ broken' \in [Runs -> BOOLEAN]
      /\ \A q \in Runs \ {r} : phase'[q] = phase[q]
      /\ broken'[r] \/ (~broken[r] /\ FALSE)
      /\ \/ phase'[r] = phase[r] /\ todo'[r] = todo[r] \ {e}
         \/ phase'[r] = "failed"
         \/ todo[r] \subseteq {e} /\ phase'[r] = "verify" /\ todo'[r] = Entities
  BY <1>1, DealtWithEffect, "verify" \in Phases DEF StageFails, Phases, JobPhases
<1>3. RunTypeOK' /\ FilesLanded'
  BY <1>1, <1>2 DEF RunTypeOK, FilesLanded, StageFails, Uploads, extracted, lake, Fault, Snapshots, None
<1>4. ASSUME ~overlapped[r], ~broken'[r], NEW f \in Entities PROVE CleanFor(r, f)'
  <2>1. CleanFor(r, f)
    BY <1>2, <1>4 DEF RunInv, SoloRunIsClean
  <2>. QED
    BY <1>1, <1>2, <1>4, <2>1 DEF RunTypeOK, StageFails, Uploads, CleanFor, Through, extracted, lake,
      AfterCount, AfterExtract, AfterBronze, AfterSilver, AfterGold
<1>5. OverlapIsKnown' /\ SoloRunIsClean'
  BY <1>1, <1>2, <1>4, StepOfRun DEF StageFails
<1>. QED
  BY <1>3, <1>5 DEF RunInv

(* What a run alone ingests is what it uploaded: its own file.             *)
LEMMA IngestInv ==
  ASSUME RunInv, NEW r \in Runs, NEW e \in Entities, Ingest(r, e)
  PROVE  RunInv'
<1>1. RunTypeOK /\ FilesLanded /\ Active(r)
  BY DEF RunInv, Active, Ingest
<1>2. /\ phase' \in [Runs -> Phases] /\ todo' \in [Runs -> SUBSET Entities]
      /\ broken' \in [Runs -> BOOLEAN]
      /\ \A q \in Runs \ {r} : phase'[q] = phase[q]
      /\ broken'[r] \/ (~broken[r] /\ raw[e] # {})
      /\ \/ phase'[r] = phase[r] /\ todo'[r] = todo[r] \ {e}
         \/ phase'[r] = "failed"
         \/ todo[r] \subseteq {e} /\ phase'[r] = "validate" /\ todo'[r] = Entities
  BY <1>1, DealtWithEffect, "validate" \in Phases DEF Ingest, Phases, JobPhases
<1>3. RunTypeOK' /\ FilesLanded'
  BY <1>1, <1>2 DEF RunTypeOK, FilesLanded, Ingest, extracted, lake, Fault, Snapshots, None
<1>4. ASSUME ~overlapped[r], ~broken'[r], NEW f \in Entities PROVE CleanFor(r, f)'
  <2>1. CleanFor(r, f)
    BY <1>2, <1>4 DEF RunInv, SoloRunIsClean
  <2>. QED
    BY <1>1, <1>2, <1>4, <2>1 DEF RunTypeOK, Ingest, CleanFor, Through, extracted, lake,
      AfterCount, AfterExtract, AfterBronze, AfterSilver, AfterGold
<1>5. OverlapIsKnown' /\ SoloRunIsClean'
  BY <1>1, <1>2, <1>4, StepOfRun DEF Ingest
<1>. QED
  BY <1>3, <1>5 DEF RunInv

(* Silver is built from bronze_batch: of one file, one snapshot.           *)
LEMMA BuildSilverInv ==
  ASSUME RunInv, NEW r \in Runs, NEW e \in Entities, BuildSilver(r, e)
  PROVE  RunInv'
<1>1. RunTypeOK /\ FilesLanded /\ Active(r)
  BY DEF RunInv, Active, BuildSilver
<1>2. /\ phase' \in [Runs -> Phases] /\ todo' \in [Runs -> SUBSET Entities]
      /\ broken' \in [Runs -> BOOLEAN]
      /\ \A q \in Runs \ {r} : phase'[q] = phase[q]
      /\ broken'[r] \/ (~broken[r] /\ TRUE)
      /\ \/ phase'[r] = phase[r] /\ todo'[r] = todo[r] \ {e}
         \/ phase'[r] = "failed"
         \/ todo[r] \subseteq {e} /\ phase'[r] = "gold" /\ todo'[r] = Entities
  BY <1>1, DealtWithEffect, "gold" \in Phases DEF BuildSilver, Phases, JobPhases
<1>3. RunTypeOK' /\ FilesLanded'
  BY <1>1, <1>2 DEF RunTypeOK, FilesLanded, BuildSilver, extracted, lake, Fault, Snapshots, None
<1>4. ASSUME ~overlapped[r], ~broken'[r], NEW f \in Entities PROVE CleanFor(r, f)'
  <2>1. CleanFor(r, f)
    BY <1>2, <1>4 DEF RunInv, SoloRunIsClean
  <2>. QED
    BY <1>1, <1>2, <1>4, <2>1 DEF RunTypeOK, BuildSilver, CleanFor, Through, extracted, lake,
      AfterCount, AfterExtract, AfterBronze, AfterSilver, AfterGold
<1>5. OverlapIsKnown' /\ SoloRunIsClean'
  BY <1>1, <1>2, <1>4, StepOfRun DEF BuildSilver
<1>. QED
  BY <1>3, <1>5 DEF RunInv

(* A notebook that fails for an entity marks its run as broken.            *)
LEMMA EntityFailsInv ==
  ASSUME RunInv, NEW r \in Runs, NEW e \in Entities, EntityFails(r, e)
  PROVE  RunInv'
<1>1. RunTypeOK /\ FilesLanded /\ Active(r)
  BY DEF RunInv, Active, EntityFails
<1>2. /\ phase' \in [Runs -> Phases] /\ todo' \in [Runs -> SUBSET Entities]
      /\ broken' \in [Runs -> BOOLEAN]
      /\ \A q \in Runs \ {r} : phase'[q] = phase[q]
      /\ broken'[r] \/ (~broken[r] /\ FALSE)
      /\ \/ phase'[r] = phase[r] /\ todo'[r] = todo[r] \ {e}
         \/ phase'[r] = "failed"
         \/ todo[r] \subseteq {e} /\ phase'[r] = "failed" /\ todo'[r] = Entities
  BY <1>1, DealtWithEffect, "failed" \in Phases DEF EntityFails, Phases, JobPhases
<1>3. RunTypeOK' /\ FilesLanded'
  BY <1>1, <1>2 DEF RunTypeOK, FilesLanded, EntityFails, extracted, lake, Fault, Snapshots, None
<1>4. ASSUME ~overlapped[r], ~broken'[r], NEW f \in Entities PROVE CleanFor(r, f)'
  <2>1. CleanFor(r, f)
    BY <1>2, <1>4 DEF RunInv, SoloRunIsClean
  <2>. QED
    BY <1>1, <1>2, <1>4, <2>1 DEF RunTypeOK, EntityFails, CleanFor, Through, extracted, lake,
      AfterCount, AfterExtract, AfterBronze, AfterSilver, AfterGold
<1>5. OverlapIsKnown' /\ SoloRunIsClean'
  BY <1>1, <1>2, <1>4, StepOfRun DEF EntityFails
<1>. QED
  BY <1>3, <1>5 DEF RunInv

(* Gold is built from Silver.                                              *)
LEMMA BuildGoldInv ==
  ASSUME RunInv, NEW r \in Runs, NEW e \in Entities, BuildGold(r, e)
  PROVE  RunInv'
<1>1. RunTypeOK /\ FilesLanded /\ Active(r)
  BY DEF RunInv, Active, BuildGold
<1>2. /\ phase' \in [Runs -> Phases] /\ todo' \in [Runs -> SUBSET Entities]
      /\ broken' \in [Runs -> BOOLEAN]
      /\ \A q \in Runs \ {r} : phase'[q] = phase[q]
      /\ broken'[r] \/ (~broken[r] /\ TRUE)
      /\ \/ phase'[r] = phase[r] /\ todo'[r] = todo[r] \ {e}
         \/ phase'[r] = "failed"
         \/ todo[r] \subseteq {e} /\ phase'[r] = "test" /\ todo'[r] = Entities
  BY <1>1, DealtWithEffect, "test" \in Phases DEF BuildGold, Phases, JobPhases
<1>3. RunTypeOK' /\ FilesLanded'
  BY <1>1, <1>2 DEF RunTypeOK, FilesLanded, BuildGold, extracted, lake, Fault, Snapshots, None
<1>4. ASSUME ~overlapped[r], ~broken'[r], NEW f \in Entities PROVE CleanFor(r, f)'
  <2>1. CleanFor(r, f)
    BY <1>2, <1>4 DEF RunInv, SoloRunIsClean
  <2>. QED
    BY <1>1, <1>2, <1>4, <2>1 DEF RunTypeOK, BuildGold, CleanFor, Through, extracted, lake,
      AfterCount, AfterExtract, AfterBronze, AfterSilver, AfterGold
<1>5. OverlapIsKnown' /\ SoloRunIsClean'
  BY <1>1, <1>2, <1>4, StepOfRun DEF BuildGold
<1>. QED
  BY <1>3, <1>5 DEF RunInv

(* Changes of the source touch no file.                                    *)
LEMMA ChangeInv ==
  ASSUME RunInv, NEW e \in Entities, NEW kind \in Changes, Change(e, kind)
  PROVE  RunInv'
<1>1. UNCHANGED <<phase, todo, broken, counted, landing, raw, bronze, silver, gold,
                  overlapped, runFaults>>
  BY DEF Change, control, extracted, lake
<1>2. log' \in [Entities -> Seq(Changes)]
  BY DEF RunInv, RunTypeOK, Change
<1>3. RunTypeOK'
  BY <1>1, <1>2 DEF RunInv, RunTypeOK
<1>4. FilesLanded' /\ OverlapIsKnown' /\ SoloRunIsClean'
  BY <1>1 DEF RunInv, FilesLanded, OverlapIsKnown, Active, SoloRunIsClean, CleanFor, Through
<1>. QED
  BY <1>3, <1>4 DEF RunInv

(* A run that starts while another is active makes both overlapped, and is *)
(* through no phase yet.                                                   *)
LEMMA CreateRunInv ==
  ASSUME RunInv, NEW r \in Runs, CreateRun(r)
  PROVE  RunInv'
<1>1. RunTypeOK
  BY DEF RunInv
<1>2. /\ phase' \in [Runs -> Phases] /\ todo' \in [Runs -> SUBSET Entities]
      /\ broken' \in [Runs -> BOOLEAN]
      /\ phase'[r] = "count" /\ todo'[r] = Entities /\ broken' = broken
      /\ \A q \in Runs \ {r} : phase'[q] = phase[q]
  BY <1>1, GotoEffect, "count" \in Phases DEF CreateRun, Phases
<1>3. \A q \in Runs : overlapped'[q] =
        (overlapped[q] \/ (q = r /\ \E t \in Runs : Active(t)) \/ Active(q))
  BY DEF CreateRun
<1>4. overlapped' \in [Runs -> BOOLEAN]
  BY <1>1 DEF CreateRun, RunTypeOK
<1>5. UNCHANGED <<log, counted, landing, raw, bronze, silver, gold, runFaults>>
  BY DEF CreateRun, extracted, lake
<1>6. RunTypeOK' /\ FilesLanded'
  BY <1>2, <1>4, <1>5 DEF RunInv, RunTypeOK, FilesLanded
<1>7. OverlapIsKnown'
  <2> SUFFICES ASSUME NEW q \in Runs, NEW t \in Runs, q # t, Active(q)', Active(t)'
               PROVE  overlapped'[q]
    BY DEF OverlapIsKnown
  <2>1. CASE q = r
    BY <1>2, <1>3, <2>1 DEF Active
  <2>2. CASE q # r
    BY <1>2, <1>3, <2>2 DEF Active
  <2>. QED
    BY <2>1, <2>2
<1>8. SoloRunIsClean'
  <2> SUFFICES ASSUME NEW q \in Runs, ~overlapped'[q], ~broken'[q], NEW e \in Entities
               PROVE  CleanFor(q, e)'
    BY DEF SoloRunIsClean
  <2>1. CASE q = r
    BY <1>2, <2>1 DEF CleanFor, Through, AfterCount, AfterExtract, AfterBronze,
      AfterSilver, AfterGold
  <2>2. CASE q # r
    <3>1. phase'[q] \in {"new", "done", "failed"}
      BY <1>2, <1>3, <2>2 DEF Active
    <3>. QED
      BY <3>1 DEF CleanFor, Through, AfterCount, AfterExtract, AfterBronze,
        AfterSilver, AfterGold
  <2>. QED
    BY <2>1, <2>2
<1>. QED
  BY <1>6, <1>7, <1>8 DEF RunInv

(* Counting rows touches no file.                                          *)
LEMMA CountInv ==
  ASSUME RunInv, NEW r \in Runs, NEW e \in Entities, Count(r, e)
  PROVE  RunInv'
<1>1. UNCHANGED <<log, phase, todo, broken, landing, raw, bronze, silver, gold,
                  overlapped, runFaults>>
  BY DEF Count, control, lake
<1>2. Rows(e, Len(log[e])) \in Snapshots
  <2>1. Len(log[e]) \in Nat
    BY DEF RunInv, RunTypeOK
  <2>. QED
    BY <2>1, RowsType DEF Snapshots
<1>3. counted' \in [Runs -> [Entities -> Snapshots]]
  BY <1>2 DEF RunInv, RunTypeOK, Count
<1>4. RunTypeOK'
  BY <1>1, <1>3 DEF RunInv, RunTypeOK
<1>5. FilesLanded' /\ OverlapIsKnown' /\ SoloRunIsClean'
  BY <1>1 DEF RunInv, FilesLanded, OverlapIsKnown, Active, SoloRunIsClean, CleanFor, Through
<1>. QED
  BY <1>4, <1>5 DEF RunInv

(* Only a file not yet uploaded gets its snapshot: those in the lake keep  *)
(* theirs.                                                                 *)
LEMMA ExtractInv ==
  ASSUME RunInv, NEW r \in Runs, NEW e \in Entities, Extract(r, e)
  PROVE  RunInv'
<1>1. UNCHANGED <<log, phase, todo, broken, counted, raw, bronze, silver, gold,
                  overlapped, runFaults>>
  BY DEF Extract, control, lake
<1>2. Len(log[e]) \in Nat
  BY DEF RunInv, RunTypeOK
<1>3. landing' \in [Runs -> [Entities -> Snapshots]]
  BY <1>2 DEF RunInv, RunTypeOK, Extract, Snapshots
<1>4. \A o \in Runs, f \in Entities :
        landing'[o][f] = IF o = r /\ f = e THEN Len(log[e]) ELSE landing[o][f]
  BY DEF RunInv, RunTypeOK, Extract
<1>5. RunTypeOK'
  BY <1>1, <1>3 DEF RunInv, RunTypeOK
<1>6. FilesLanded'
  BY <1>1, <1>2, <1>4 DEF RunInv, RunTypeOK, FilesLanded
<1>7. Active(r) /\ phase[r] = "extract"
  BY DEF Extract, Active
<1>8. ASSUME ~overlapped[r], ~broken'[r], NEW f \in Entities PROVE CleanFor(r, f)'
  <2>1. CleanFor(r, f)
    BY <1>1, <1>8 DEF RunInv, SoloRunIsClean
  <2>. QED
    BY <1>1, <1>7, <2>1 DEF CleanFor, Through, AfterCount, AfterExtract, AfterBronze,
      AfterSilver, AfterGold
<1>9. OverlapIsKnown' /\ SoloRunIsClean'
  BY <1>1, <1>7, <1>8, StepOfRun
<1>. QED
  BY <1>5, <1>6, <1>9 DEF RunInv

(* Verification reads a file and either goes on or ends the run.           *)
LEMMA VerifyInv ==
  ASSUME RunInv, NEW r \in Runs, NEW e \in Entities, Verify(r, e)
  PROVE  RunInv'
<1>1. RunTypeOK /\ Active(r) /\ phase[r] = "verify"
  BY DEF RunInv, Verify, Active
<1>2. UNCHANGED <<log, extracted, lake, overlapped, runFaults>>
  BY DEF Verify
<1>3. CASE ~LandedAsCounted(r, e)
  <2>1. Goto(r, "failed") /\ "failed" \in Phases /\ runFaults' \in Nat
    BY <1>1, <1>2, <1>3 DEF Verify, Fail, Phases, RunTypeOK
  <2>. QED
    BY <1>1, <1>2, <2>1, GotoInv
<1>4. CASE LandedAsCounted(r, e)
  <2>1. DealtWith(r, e, TRUE, "submit") /\ "submit" \in Phases
    BY <1>4 DEF Verify, Phases
  <2>2. /\ phase' \in [Runs -> Phases] /\ todo' \in [Runs -> SUBSET Entities]
        /\ broken' \in [Runs -> BOOLEAN]
        /\ \A q \in Runs \ {r} : phase'[q] = phase[q]
        /\ broken'[r] \/ ~broken[r]
        /\ phase'[r] \in {"verify", "failed", "submit"}
    BY <1>1, <2>1, DealtWithEffect
  <2>3. RunTypeOK' /\ FilesLanded'
    BY <1>1, <1>2, <2>2 DEF RunInv, RunTypeOK, FilesLanded, extracted, lake
  <2>4. ASSUME ~overlapped[r], ~broken'[r], NEW f \in Entities PROVE CleanFor(r, f)'
    <3>1. CleanFor(r, f)
      BY <2>2, <2>4 DEF RunInv, SoloRunIsClean
    <3>. QED
      BY <1>1, <1>2, <2>2, <3>1 DEF CleanFor, Through, extracted, lake, AfterCount,
        AfterExtract, AfterBronze, AfterSilver, AfterGold
  <2>5. OverlapIsKnown' /\ SoloRunIsClean'
    BY <1>1, <1>2, <2>2, <2>4, StepOfRun
  <2>. QED
    BY <2>3, <2>5 DEF RunInv
<1>. QED
  BY <1>3, <1>4

(* The tasks without a loop over entities.                                 *)
LEMMA WholeTaskInv ==
  ASSUME RunInv, NEW r \in Runs,
         \/ SubmitJob(r) \/ SkipJob(r) \/ Validate(r) \/ Optimize(r)
         \/ TestGold(r) \/ TaskFails(r)
  PROVE  RunInv'
<1> USE DEF Fail
<1>0. runFaults \in Nat /\ {"failed", "done", "bronze", "optimize", "silver"} \subseteq Phases
  BY DEF RunInv, RunTypeOK, Phases, JobPhases
<1>1. CASE SubmitJob(r)
  BY <1>0, <1>1, GotoInv DEF SubmitJob, Active
<1>2. CASE SkipJob(r)
  BY <1>0, <1>2, GotoInv DEF SkipJob, Fault, Active
<1>3. CASE Validate(r)
  BY <1>0, <1>3, GotoInv DEF Validate, Active
<1>4. CASE Optimize(r)
  BY <1>0, <1>4, GotoInv DEF Optimize, Active
<1>5. CASE TestGold(r)
  BY <1>0, <1>5, GotoInv DEF TestGold, Active
<1>6. CASE TaskFails(r)
  BY <1>0, <1>6, GotoInv DEF TaskFails, Fault
<1>. QED
  BY <1>1, <1>2, <1>3, <1>4, <1>5, <1>6

(* The pipeline's invariant is kept by every step of any run.              *)
LEMMA RunStepInv ==
  ASSUME RunInv, [RunNext]_runVars
  PROVE  RunInv'
<1>1. ASSUME NEW e \in Entities, NEW kind \in Changes, Change(e, kind) PROVE RunInv'
  BY <1>1, ChangeInv
<1>2. ASSUME NEW r \in Runs, CreateRun(r) PROVE RunInv'
  BY <1>2, CreateRunInv
<1>3. ASSUME NEW r \in Runs, RunStep(r) PROVE RunInv'
  BY <1>3, WholeTaskInv, CountInv, ClearInv, ExtractInv, UploadInv, VerifyInv,
    IngestInv, BuildSilverInv, BuildGoldInv DEF RunStep
<1>4. ASSUME NEW r \in Runs, RunFault(r) PROVE RunInv'
  BY <1>4, WholeTaskInv, StageFailsInv, EntityFailsInv DEF RunFault
<1>5. CASE UNCHANGED runVars
  BY <1>5 DEF runVars, control, extracted, lake, RunInv, RunTypeOK, FilesLanded,
    OverlapIsKnown, Active, SoloRunIsClean, CleanFor, Through
<1>. QED
  BY <1>1, <1>2, <1>3, <1>4, <1>5 DEF RunNext, Changing

-----------------------------------------------------------------------------
(* The two together.                                                       *)

(* Every step of the composition is a step of each part, or leaves it      *)
(* alone.                                                                  *)
LEMMA StepOfBoth ==
  ASSUME [Next]_vars
  PROVE  [WatchNext]_watchVars /\ [RunNext]_runVars
BY DEF Next, vars, WatcherRuns, WatcherFails, FlushChanges, RunIsCreated, WatchNext,
  Flushes, RunNext

(* The watcher and the pipeline keep, in the composition, the behaviour    *)
(* each has on its own.                                                    *)
THEOREM PartsKeepTheirSpecs == Spec => WatchSpec /\ RunSpec
<1>1. Init => WatchInit /\ RunInit
  BY DEF Init
<1>2. [Next]_vars => [WatchNext]_watchVars /\ [RunNext]_runVars
  BY StepOfBoth
<1>. QED
  BY <1>1, <1>2, PTL DEF Spec, WatchSpec, RunSpec

(* The inductive invariant of the watcher, on its own.                     *)
THEOREM WatchInvariant == WatchSpec => []WatchInv
BY WatchInitInv, WatchStepInv, PTL DEF WatchSpec

(* The inductive invariant of the pipeline, on its own.                    *)
THEOREM RunInvariant == RunSpec => []RunInv
BY RunInitInv, RunStepInv, PTL DEF RunSpec

(* Every reachable state of the watcher is well typed.                     *)
THEOREM WatchTypeCorrect == Spec => []WatchTypeOK
<1>1. WatchInv => WatchTypeOK
  BY DEF WatchInv
<1>. QED
  BY <1>1, PartsKeepTheirSpecs, WatchInvariant, PTL

(* Every reachable state of the pipeline is well typed.                    *)
THEOREM RunTypeCorrect == Spec => []RunTypeOK
<1>1. RunInv => RunTypeOK
  BY DEF RunInv
<1>. QED
  BY <1>1, PartsKeepTheirSpecs, RunInvariant, PTL

(* The watcher creates at most one run of the pipeline per flush, however  *)
(* scrapes, restarts of the consumer and failed tasks fall.                *)
THEOREM NoTriggerStorm == Spec => []NoStorm
<1>1. WatchInv => NoStorm
  BY DEF WatchInv
<1>. QED
  BY <1>1, PartsKeepTheirSpecs, WatchInvariant, PTL

(* There is never more than one chain of watch cycles, and exactly one as  *)
(* long as no task of the watcher has failed.                              *)
THEOREM OneChain == Spec => []OneWatchChain
<1>1. WatchInv => OneWatchChain
  BY DEF WatchInv
<1>. QED
  BY <1>1, PartsKeepTheirSpecs, WatchInvariant, PTL

(* As long as the consumer has not restarted, a poke that finds nothing    *)
(* misses nothing that Prometheus knows of.                                *)
THEOREM QuietPokesAreRight == Spec => []QuietIsRight
<1>1. WatchInv => QuietIsRight
  BY DEF WatchInv, WatchTypeOK, CountersAgree, ReadingOf, QuietIsRight, NewRecordsDetected, NoData
<1>. QED
  BY <1>1, PartsKeepTheirSpecs, WatchInvariant, PTL

(* For any entities, runs, changes and failures: a run that has the lake   *)
(* to itself publishes its own snapshot and nothing else.                  *)
THEOREM SafelyRerunnable == Spec => []SoloRunIsClean
<1>1. RunInv => SoloRunIsClean
  BY DEF RunInv
<1>. QED
  BY <1>1, PartsKeepTheirSpecs, RunInvariant, PTL

=============================================================================
