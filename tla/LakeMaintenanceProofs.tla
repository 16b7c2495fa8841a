----------------------- MODULE LakeMaintenanceProofs -----------------------
(***************************************************************************)
(* Proofs about the maintenance of the lake, for any entities, runs,       *)
(* retention, flushes and failures: no row is lost or doubled, and no file *)
(* a version needs is vacuumed away.                                       *)
(***************************************************************************)
EXTENDS LakeMaintenance, TLAPS

-----------------------------------------------------------------------------
(* The inductive invariant.                                                *)

(* The files that are or have been in the table.                           *)
Ever(e) == live[e] \cup {f \in Files : tombstone[e][f] # NotRemoved}

(* A flush being written is new to every table.                            *)
FlushIsNew ==
  /\ \A e \in Entities : flushed[e] \subseteq 1..begun
  /\ \A e \in Entities : \A f \in Ever(e) : f.by = "consumer" => f.flushes \subseteq 1..begun
  /\ writing # Nothing =>
       /\ writing[2] <= begun
       /\ \A e \in Entities : writing[2] \notin flushed[e]
       /\ File("consumer", {writing[2]}) \in bucket[writing[1]] \ Ever(writing[1])

(* A run that has not compacted a table yet has no file in it.             *)
Untouched(r, e) ==
  \/ phase[r] = "scheduled"
  \/ phase[r] = "optimize" /\ e \in pending[r]

CompactsOnce ==
  /\ \A r \in Runs : opened[r] # Nothing => phase[r] = "optimize" /\ opened[r][1] \in pending[r]
  /\ \A r \in Runs, e \in Entities : Untouched(r, e) => \A f \in Ever(e) : f.by # r

LiveFiles ==
  \A e \in Entities : live[e] \subseteq bucket[e] /\ \A f \in live[e] : tombstone[e][f] = NotRemoved

(* A file of an open version is live, or was removed since it was opened.  *)
Removed(e, f, age) == f \notin live[e] => tombstone[e][f] \in 0..age

OpenFiles ==
  reader # Nothing =>
    /\ reader[2] \subseteq bucket[reader[1]]
    /\ \A f \in reader[2] : Removed(reader[1], f, reader[3])

LakeInv ==
  LakeTypeOK /\ EachRowOnce /\ FlushIsNew /\ CompactsOnce /\ LiveFiles /\ OpenFiles

-----------------------------------------------------------------------------
LEMMA LakeInitInv == LakeInit => LakeInv
BY LakeAssumption
DEF LakeInit, LakeInv, LakeTypeOK, EachRowOnce, FlushIsNew, CompactsOnce, LiveFiles, OpenFiles,
    Ever, Rows, Nothing, NotRemoved, LakePhases, Files, Flushes, Untouched

(* Nothing that the invariant mentions has changed.                        *)
LEMMA LakeStutter == LakeInv /\ UNCHANGED lakeVars => LakeInv'
BY DEF LakeInv, LakeTypeOK, EachRowOnce, FlushIsNew, CompactsOnce, LiveFiles, OpenFiles, Ever,
       Rows, Untouched, Removed, lakeVars, tables, consumer, runs

-----------------------------------------------------------------------------
(* The consumer.                                                           *)

LEMMA WriteFileInv ==
  ASSUME LakeInv, NEW e \in Entities, WriteFile(e) PROVE LakeInv'
<1> DEFINE f == File("consumer", {begun + 1})
<1>1. f \in Files /\ begun + 1 \in Flushes /\ begun \in Nat
  BY LakeAssumption DEF LakeInv, LakeTypeOK, WriteFile, File, Files, Flushes
<1>2. f.by = "consumer" /\ f.flushes = {begun + 1}
  BY DEF File
<1>3. LakeTypeOK'
  BY <1>1, LakeAssumption DEF LakeInv, LakeTypeOK, WriteFile, runs, Flushes
<1>4. EachRowOnce'
  BY DEF LakeInv, EachRowOnce, WriteFile, Rows
<1>5. \A d \in Entities : f \notin Ever(d)
  <2>1. ~({begun + 1} \subseteq 1..begun)
    BY <1>1
  <2>2. \A d \in Entities : \A g \in Ever(d) : g.by = "consumer" => g.flushes \subseteq 1..begun
    BY DEF LakeInv, FlushIsNew
  <2>3. QED
    BY <2>1, <2>2, <1>2
<1>6. FlushIsNew'
  <2>1. writing' = <<e, begun + 1>> /\ begun' = begun + 1 /\ flushed' = flushed
        /\ bucket' = [bucket EXCEPT ![e] = @ \cup {f}] /\ live' = live /\ tombstone' = tombstone
    BY DEF WriteFile
  <2>2. f \in bucket'[e]
    BY <2>1 DEF LakeInv, LakeTypeOK
  <2>3. \A d \in Entities : Ever(d)' = Ever(d)
    BY <2>1 DEF Ever
  <2>4. \A d \in Entities : flushed[d] \subseteq 1..begun
    BY DEF LakeInv, FlushIsNew
  <2>5. \A d \in Entities : begun + 1 \notin flushed[d]
    BY <2>4, <1>1
  <2>6. 1..begun \subseteq 1..(begun + 1)
    BY <1>1
  <2>7. \A d \in Entities : \A g \in Ever(d) : g.by = "consumer" => g.flushes \subseteq 1..begun
    BY DEF LakeInv, FlushIsNew
  <2>8. \A d \in Entities : \A g \in Ever(d)' : g.by = "consumer" => g.flushes \subseteq (1..begun)'
    BY <2>1, <2>3, <2>6, <2>7
  <2>9. \A d \in Entities : flushed'[d] \subseteq (1..begun)'
    BY <2>1, <2>4, <2>6
  <2>10. writing'[1] = e /\ writing'[2] = begun + 1
    BY <2>1
  <2>11. File("consumer", {writing'[2]}) \in bucket'[writing'[1]] \ Ever(e)'
    BY <2>2, <2>3, <2>10, <1>5
  <2>12. writing'[2] <= begun' /\ \A d \in Entities : writing'[2] \notin flushed'[d]
    BY <2>1, <2>5, <2>10, <1>1
  <2>13. QED
    BY <2>8, <2>9, <2>10, <2>11, <2>12 DEF FlushIsNew
<1>7. CompactsOnce'
  BY DEF LakeInv, CompactsOnce, WriteFile, Ever, Untouched, runs
<1>8. LiveFiles' /\ OpenFiles'
  BY DEF LakeInv, LakeTypeOK, LiveFiles, OpenFiles, Removed, WriteFile
<1>9. QED
  BY <1>3, <1>4, <1>6, <1>7, <1>8 DEF LakeInv

LEMMA CommitAppendInv ==
  ASSUME LakeInv, CommitAppend PROVE LakeInv'
<1> DEFINE e == writing[1]
           k == writing[2]
           f == File("consumer", {k})
<1>1. e \in Entities /\ k \in Flushes /\ f \in Files
  BY DEF LakeInv, LakeTypeOK, CommitAppend, File, Files
<1>2. f.by = "consumer" /\ f.flushes = {k}
  BY DEF File
<1>3. f \in bucket[e] /\ f \notin Ever(e) /\ k <= begun /\ \A d \in Entities : k \notin flushed[d]
  BY DEF LakeInv, FlushIsNew, CommitAppend
<1>4. /\ live' = [live EXCEPT ![e] = @ \cup {f}] /\ flushed' = [flushed EXCEPT ![e] = @ \cup {k}]
      /\ writing' = Nothing /\ UNCHANGED <<bucket, tombstone, begun, runs, reader>>
  BY DEF CommitAppend
<1>5. \A d \in Entities : live'[d] = (IF d = e THEN live[d] \cup {f} ELSE live[d])
                          /\ flushed'[d] = (IF d = e THEN flushed[d] \cup {k} ELSE flushed[d])
  BY <1>4 DEF LakeInv, LakeTypeOK
<1>6. LakeTypeOK'
  BY <1>1, <1>4 DEF LakeInv, LakeTypeOK, runs
<1>7. EachRowOnce'
  <2> SUFFICES ASSUME NEW d \in Entities
               PROVE  /\ Rows(live'[d]) = flushed'[d]
                      /\ \A g, h \in live'[d] : g # h => g.flushes \cap h.flushes = {}
    BY DEF EachRowOnce
  <2>1. Rows(live[d]) = flushed[d]
        /\ \A g, h \in live[d] : g # h => g.flushes \cap h.flushes = {}
    BY DEF LakeInv, EachRowOnce
  <2>2. CASE d # e
    BY <2>1, <2>2, <1>5
  <2>3. CASE d = e
    <3>1. live'[d] = live[d] \cup {f} /\ flushed'[d] = flushed[d] \cup {k}
      BY <2>3, <1>5
    <3>2. Rows(live[d] \cup {f}) = Rows(live[d]) \cup {k}
      BY <1>2 DEF Rows
    <3>3. \A g \in live[d] : k \notin g.flushes
      BY <2>1, <1>3 DEF Rows
    <3>4. Rows(live'[d]) = flushed'[d]
      BY <3>1, <3>2, <2>1
    <3>5. \A g, h \in live[d] \cup {f} : g # h => g.flushes \cap h.flushes = {}
      BY <3>3, <2>1, <1>2
    <3>6. QED
      BY <3>1, <3>4, <3>5
  <2>4. QED
    BY <2>2, <2>3
<1>8. \A d \in Entities : Ever(d)' \subseteq Ever(d) \cup {f}
  BY <1>4, <1>5 DEF Ever
<1>9. FlushIsNew'
  <2>1. begun \in Nat /\ {k} \subseteq 1..begun
    BY <1>1, <1>3, LakeAssumption DEF LakeInv, LakeTypeOK, Flushes
  <2>2. \A d \in Entities : flushed[d] \subseteq 1..begun
    BY DEF LakeInv, FlushIsNew
  <2>3. \A d \in Entities : flushed'[d] \subseteq 1..begun
    <3> SUFFICES ASSUME NEW d \in Entities PROVE flushed'[d] \subseteq 1..begun
      OBVIOUS
    <3>1. flushed'[d] \subseteq flushed[d] \cup {k}
      BY <1>5
    <3>2. QED
      BY <2>1, <2>2, <3>1
  <2>4. \A d \in Entities : \A g \in Ever(d) : g.by = "consumer" => g.flushes \subseteq 1..begun
    BY DEF LakeInv, FlushIsNew
  <2>5. \A d \in Entities : \A g \in Ever(d)' : g.by = "consumer" => g.flushes \subseteq 1..begun
    <3> SUFFICES ASSUME NEW d \in Entities, NEW g \in Ever(d)', g.by = "consumer"
                 PROVE  g.flushes \subseteq 1..begun
      OBVIOUS
    <3>1. g \in Ever(d) \/ g = f
      BY <1>8
    <3>2. QED
      BY <2>1, <2>4, <3>1, <1>2
  <2>6. QED
    BY <2>3, <2>5, <1>4 DEF FlushIsNew
<1>10. CompactsOnce'
  <2>1. \A r \in Runs, d \in Entities : Untouched(r, d)' = Untouched(r, d)
    BY <1>4 DEF Untouched, runs
  <2>2. \A r \in Runs : f.by # r
    BY <1>2, LakeAssumption
  <2>3. \A r \in Runs, d \in Entities : Untouched(r, d)' => \A g \in Ever(d)' : g.by # r
    BY <2>1, <2>2, <1>8 DEF LakeInv, CompactsOnce
  <2>4. QED
    BY <2>3, <1>4 DEF LakeInv, CompactsOnce, runs
<1>11. LiveFiles'
  <2>1. tombstone[e][f] = NotRemoved
    BY <1>1, <1>3 DEF Ever
  <2>2. \A d \in Entities : live[d] \subseteq bucket[d] /\ \A g \in live[d] : tombstone[d][g] = NotRemoved
    BY DEF LakeInv, LiveFiles
  <2>3. UNCHANGED <<bucket, tombstone>>
    BY <1>4
  <2>4. \A d \in Entities : live'[d] \subseteq bucket[d] /\ \A g \in live'[d] : tombstone[d][g] = NotRemoved
    <3> SUFFICES ASSUME NEW d \in Entities, NEW g \in live'[d]
                 PROVE  g \in bucket[d] /\ tombstone[d][g] = NotRemoved
      OBVIOUS
    <3>1. g \in live[d] \/ (d = e /\ g = f)
      BY <1>5
    <3>2. QED
      BY <2>1, <2>2, <3>1, <1>3
  <2>5. QED
    BY <2>3, <2>4 DEF LiveFiles
<1>12. OpenFiles'
  <2>1. \A d \in Entities : live[d] \subseteq live'[d]
    BY <1>5
  <2>2. reader # Nothing => reader[1] \in Entities
    BY DEF LakeInv, LakeTypeOK
  <2>3. QED
    BY <2>1, <2>2, <1>4 DEF LakeInv, OpenFiles, Removed
<1>13. QED
  BY <1>6, <1>7, <1>9, <1>10, <1>11, <1>12 DEF LakeInv

(* Steps that change neither the tables nor what has been flushed.         *)
LEMMA TablesStayInv ==
  ASSUME LakeInv, LakeTypeOK', CompactsOnce', OpenFiles',
         UNCHANGED <<tables, flushed, begun>>, writing' \in {writing, Nothing}
  PROVE  LakeInv'
<1>1. EachRowOnce' /\ LiveFiles'
  BY DEF LakeInv, EachRowOnce, LiveFiles, tables
<1>2. FlushIsNew'
  BY DEF LakeInv, FlushIsNew, Ever, tables
<1>3. QED
  BY <1>1, <1>2 DEF LakeInv

LEMMA AppendDiesInv ==
  ASSUME LakeInv, AppendDies PROVE LakeInv'
<1>1. LakeTypeOK' /\ CompactsOnce' /\ OpenFiles'
  BY DEF LakeInv, LakeTypeOK, CompactsOnce, OpenFiles, Removed, Ever, Untouched, AppendDies,
         tables, runs
<1>2. QED
  BY <1>1, TablesStayInv DEF AppendDies

-----------------------------------------------------------------------------
(* The runs, but for what they do to a table.                              *)

(* A run is done with a table, and none has become untouched.              *)
LEMMA TriedKeepsRuns ==
  ASSUME LakeTypeOK, CompactsOnce, NEW r \in Runs, NEW e,
         opened' = [opened EXCEPT ![r] = Nothing],
         pending' = [pending EXCEPT ![r] = @ \ {e}], phase' = phase
  PROVE  /\ \A s \in Runs :
              opened'[s] # Nothing => phase'[s] = "optimize" /\ opened'[s][1] \in pending'[s]
         /\ \A s \in Runs, d \in Entities :
              Untouched(s, d)' => Untouched(s, d) /\ ~(s = r /\ d = e /\ phase[r] = "optimize")
<1>1. \A s \in Runs : opened'[s] = IF s = r THEN Nothing ELSE opened[s]
  BY DEF LakeTypeOK
<1>2. \A s \in Runs : pending'[s] = IF s = r THEN pending[s] \ {e} ELSE pending[s]
  BY DEF LakeTypeOK
<1>3. \A s \in Runs :
        opened'[s] # Nothing => phase'[s] = "optimize" /\ opened'[s][1] \in pending'[s]
  BY <1>1, <1>2 DEF CompactsOnce
<1>4. QED
  BY <1>2, <1>3 DEF Untouched

LEMMA RunControlInv ==
  ASSUME LakeInv, NEW r \in Runs,
         StartRun(r) \/ (\E e \in Entities : LoadTable(r, e)) \/ NothingToCompact(r)
           \/ EndOptimize(r) \/ EndVacuum(r)
  PROVE  LakeInv'
<1>1. UNCHANGED <<tables, consumer, reader>>
  BY DEF StartRun, LoadTable, NothingToCompact, EndOptimize, EndVacuum
<1>2. OpenFiles'
  BY <1>1 DEF LakeInv, OpenFiles, Removed, tables
<1>3. UNCHANGED <<bucket, live, tombstone, flushed, begun, writing, reader>>
  BY <1>1 DEF tables, consumer
<1>4. \A e \in Entities : Ever(e)' = Ever(e)
  BY <1>3 DEF Ever
<1>5. LakeTypeOK /\ CompactsOnce
  BY DEF LakeInv
<1>6. LakeTypeOK' /\ CompactsOnce'
  <2>1. CASE StartRun(r)
    <3>1. LakeTypeOK'
      BY <2>1, <1>3, <1>5 DEF StartRun, LakeTypeOK, LakePhases
    <3>2. CompactsOnce'
      BY <2>1, <1>4, <1>5 DEF StartRun, LakeTypeOK, CompactsOnce, Untouched
    <3>3. QED
      BY <3>1, <3>2
  <2>2. ASSUME NEW e \in Entities, LoadTable(r, e) PROVE LakeTypeOK' /\ CompactsOnce'
    <3>1. LakeTypeOK'
      BY <2>2, <1>3, <1>5 DEF LoadTable, LakeTypeOK
    <3>2. CompactsOnce'
      BY <2>2, <1>4, <1>5 DEF LoadTable, LakeTypeOK, CompactsOnce, Untouched
    <3>3. QED
      BY <3>1, <3>2
  <2>3. CASE NothingToCompact(r)
    <3>1. LakeTypeOK'
      BY <2>3, <1>3, <1>5 DEF NothingToCompact, Tried, LakeTypeOK
    <3>2. CompactsOnce'
      <4>1. UNCHANGED phase /\ opened' = [opened EXCEPT ![r] = Nothing]
            /\ pending' = [pending EXCEPT ![r] = @ \ {opened[r][1]}]
        BY <2>3 DEF NothingToCompact, Tried
      <4>2. \A s \in Runs, d \in Entities : Untouched(s, d)' => \A f \in Ever(d) : f.by # s
        BY <4>1, <1>5, TriedKeepsRuns DEF CompactsOnce
      <4>3. \A s \in Runs :
              opened'[s] # Nothing => phase'[s] = "optimize" /\ opened'[s][1] \in pending'[s]
        BY <4>1, <1>5, TriedKeepsRuns
      <4>4. \A s \in Runs, d \in Entities : Untouched(s, d)' => \A f \in Ever(d)' : f.by # s
        BY <4>2, <1>4
      <4>5. QED
        BY <4>3, <4>4 DEF CompactsOnce
    <3>3. QED
      BY <3>1, <3>2
  <2>4. CASE EndOptimize(r)
    <3>1. LakeTypeOK'
      BY <2>4, <1>3, <1>5 DEF EndOptimize, LakeTypeOK, LakePhases
    <3>2. CompactsOnce'
      <4>1. /\ phase[r] = "optimize" /\ opened[r] = Nothing /\ opened' = opened
            /\ phase'[r] \in {"vacuum", "failed"}
            /\ \A s \in Runs : s # r => phase'[s] = phase[s] /\ pending'[s] = pending[s]
        BY <2>4, <1>5 DEF EndOptimize, Ends, LakeTypeOK
      <4>2. \A s \in Runs, d \in Entities : Untouched(s, d)' => Untouched(s, d)
        BY <4>1 DEF Untouched
      <4>3. \A s \in Runs, d \in Entities : Untouched(s, d)' => \A f \in Ever(d)' : f.by # s
        BY <4>2, <1>4, <1>5 DEF CompactsOnce
      <4>4. \A s \in Runs :
              opened'[s] # Nothing => phase'[s] = "optimize" /\ opened'[s][1] \in pending'[s]
        BY <4>1, <1>5 DEF CompactsOnce
      <4>5. QED
        BY <4>3, <4>4 DEF CompactsOnce
    <3>3. QED
      BY <3>1, <3>2
  <2>5. CASE EndVacuum(r)
    <3>1. LakeTypeOK'
      BY <2>5, <1>3, <1>5 DEF EndVacuum, LakeTypeOK, LakePhases
    <3>2. CompactsOnce'
      BY <2>5, <1>4, <1>5 DEF EndVacuum, Ends, LakeTypeOK, CompactsOnce, Untouched
    <3>3. QED
      BY <3>1, <3>2
  <2>6. QED
    BY <2>1, <2>2, <2>3, <2>4, <2>5
<1>7. QED
  BY <1>1, <1>2, <1>6, TablesStayInv DEF tables, consumer

-----------------------------------------------------------------------------
(* Compaction.                                                             *)

LEMMA CompactedIsAFile ==
  ASSUME NEW r \in Runs, NEW b \in SUBSET Files
  PROVE  /\ Compacted(r, b) \in Files
         /\ Compacted(r, b).by = r /\ Compacted(r, b).flushes = Rows(b)
BY DEF Compacted, File, Files, Rows

(* Replacing files by one that has their rows leaves every row once.       *)
LEMMA RowsOnceCompacted ==
  ASSUME NEW fs, NEW b \in SUBSET fs, NEW g, g.flushes = Rows(b),
         \A p, q \in fs : p # q => p.flushes \cap q.flushes = {}
  PROVE  /\ Rows((fs \ b) \cup {g}) = Rows(fs)
         /\ \A p, q \in (fs \ b) \cup {g} : p # q => p.flushes \cap q.flushes = {}
<1>1. \A x : x \in Rows(b) <=> \E q \in b : x \in q.flushes
  BY DEF Rows
<1>2. Rows((fs \ b) \cup {g}) = Rows(fs)
  <2>1. Rows((fs \ b) \cup {g}) = Rows(fs \ b) \cup g.flushes
    BY DEF Rows
  <2>2. Rows(fs \ b) \cup Rows(b) = Rows(fs)
    BY DEF Rows
  <2>3. QED
    BY <2>1, <2>2
<1>3. \A p \in fs \ b : p.flushes \cap g.flushes = {}
  BY <1>1
<1>4. QED
  BY <1>2, <1>3

LEMMA CompactInv ==
  ASSUME LakeInv, NEW r \in Runs, Compact(r) PROVE LakeInv'
<1> DEFINE e == opened[r][1]
<1>1. PICK b \in Bins(opened[r][2]) :
        /\ StillThere(e, b)
        /\ bucket' = [bucket EXCEPT ![e] = @ \cup {Compacted(r, b)}]
        /\ live' = [live EXCEPT ![e] = (@ \ b) \cup {Compacted(r, b)}]
        /\ tombstone' = [tombstone EXCEPT ![e] = [f \in Files |-> IF f \in b THEN 0 ELSE @[f]]]
  BY DEF Compact
<1> DEFINE g == Compacted(r, b)
<1>2. /\ opened[r] # Nothing /\ opened' = [opened EXCEPT ![r] = Nothing]
      /\ pending' = [pending EXCEPT ![r] = @ \ {e}]
      /\ UNCHANGED <<flushed, begun, writing, phase, errors, failures, reader>>
  BY DEF Compact, Tried, consumer
<1>3. LakeTypeOK /\ EachRowOnce /\ FlushIsNew /\ CompactsOnce /\ LiveFiles /\ OpenFiles
  BY DEF LakeInv
<1>4. e \in Entities /\ b \subseteq live[e] /\ live[e] \subseteq Files /\ b \in SUBSET Files
  BY <1>1, <1>2, <1>3 DEF LakeTypeOK, StillThere
<1>5. g \in Files /\ g.by = r /\ g.flushes = Rows(b)
  BY <1>4, CompactedIsAFile
<1>6. phase[r] = "optimize" /\ e \in pending[r]
  BY <1>2, <1>3 DEF CompactsOnce
<1>7. g \notin Ever(e)
  BY <1>3, <1>4, <1>5, <1>6 DEF CompactsOnce, Untouched
<1>8. \A d \in Entities :
        /\ bucket'[d] = IF d = e THEN bucket[d] \cup {g} ELSE bucket[d]
        /\ live'[d] = IF d = e THEN (live[d] \ b) \cup {g} ELSE live[d]
        /\ \A f \in Files :
             tombstone'[d][f] = IF d = e /\ f \in b THEN 0 ELSE tombstone[d][f]
  BY <1>1, <1>3 DEF LakeTypeOK
<1>17. \A d \in Entities : \A f :
         f \in live'[d] <=> (f \in live[d] /\ ~(d = e /\ f \in b)) \/ (d = e /\ f = g)
  <2> SUFFICES ASSUME NEW d \in Entities, NEW f
               PROVE  f \in live'[d] <=>
                        (f \in live[d] /\ ~(d = e /\ f \in b)) \/ (d = e /\ f = g)
    OBVIOUS
  <2> HIDE DEF e, g
  <2>1. CASE d = e
    <3>1. live'[d] = (live[d] \ b) \cup {g}
      BY <2>1, <1>8
    <3>2. QED
      BY <3>1, <2>1
  <2>2. CASE d # e
    <3>1. live'[d] = live[d]
      BY <2>2, <1>8
    <3>2. QED
      BY <3>1, <2>2
  <2>3. QED
    BY <2>1, <2>2
<1>9. LakeTypeOK'
  <2>1. bucket' \in [Entities -> SUBSET Files]
    BY <1>1, <1>3, <1>5 DEF LakeTypeOK
  <2>2. live' \in [Entities -> SUBSET Files]
    BY <1>1, <1>3, <1>5 DEF LakeTypeOK
  <2>3. tombstone' \in [Entities -> [Files -> -1..Retention]]
    <3>1. [f \in Files |-> IF f \in b THEN 0 ELSE tombstone[e][f]] \in [Files -> -1..Retention]
      BY <1>3, <1>4, LakeAssumption DEF LakeTypeOK
    <3>2. QED
      BY <3>1, <1>1, <1>3 DEF LakeTypeOK
  <2>4. QED
    BY <2>1, <2>2, <2>3, <1>2, <1>3 DEF LakeTypeOK
<1>10. EachRowOnce'
  <2> SUFFICES ASSUME NEW d \in Entities
               PROVE  /\ Rows(live'[d]) = flushed[d]
                      /\ \A p, q \in live'[d] : p # q => p.flushes \cap q.flushes = {}
    BY <1>2 DEF EachRowOnce
  <2>1. Rows(live[d]) = flushed[d]
        /\ \A p, q \in live[d] : p # q => p.flushes \cap q.flushes = {}
    BY <1>3 DEF EachRowOnce
  <2>2. CASE d # e
    <3>1. live'[d] = live[d]
      BY <2>2, <1>8
    <3>2. QED
      BY <3>1, <2>1
  <2>3. CASE d = e
    <3>1. live'[d] = (live[d] \ b) \cup {g}
      BY <2>3, <1>8
    <3>2. b \in SUBSET live[d]
      BY <2>3, <1>4
    <3>3. Rows((live[d] \ b) \cup {g}) = Rows(live[d])
          /\ \A p, q \in (live[d] \ b) \cup {g} : p # q => p.flushes \cap q.flushes = {}
      BY <3>2, <2>1, <1>5, RowsOnceCompacted
    <3>4. QED
      BY <3>1, <3>3, <2>1
  <2>4. QED
    BY <2>2, <2>3
<1>11. \A d \in Entities : Ever(d)' \subseteq Ever(d) \cup (IF d = e THEN {g} ELSE {})
  <2> SUFFICES ASSUME NEW d \in Entities, NEW f \in Ever(d)'
               PROVE  f \in Ever(d) \/ (d = e /\ f = g)
    OBVIOUS
  <2>1. f \in live'[d] \/ (f \in Files /\ tombstone'[d][f] # NotRemoved)
    BY DEF Ever
  <2>2. CASE f \in live'[d]
    BY <2>2, <1>17 DEF Ever
  <2>3. CASE f \in Files /\ tombstone'[d][f] # NotRemoved
    BY <2>3, <1>4, <1>8 DEF Ever
  <2>4. QED
    BY <2>1, <2>2, <2>3
<1>12. FlushIsNew'
  <2>1. r # "consumer"
    BY LakeAssumption
  <2>2. \A d \in Entities : \A f \in Ever(d)' : f.by = "consumer" => f \in Ever(d)
    BY <2>1, <1>5, <1>11
  <2>3. \A d \in Entities : \A f \in Ever(d)' : f.by = "consumer" => f.flushes \subseteq 1..begun
    BY <2>2, <1>3 DEF FlushIsNew
  <2>4. writing' = writing /\ flushed' = flushed /\ begun' = begun
    BY <1>2
  <2>5. ASSUME writing # Nothing, NEW d \in Entities, d = writing[1]
        PROVE  File("consumer", {writing[2]}) \in bucket'[d] \ Ever(d)'
    <3>1. File("consumer", {writing[2]}) \in bucket[d] \ Ever(d)
      BY <2>5, <1>3 DEF FlushIsNew
    <3>2. File("consumer", {writing[2]}).by = "consumer"
      BY DEF File
    <3>3. bucket[d] \subseteq bucket'[d]
      BY <1>8
    <3>4. QED
      BY <3>1, <3>2, <3>3, <2>2
  <2>6. writing # Nothing => writing[1] \in Entities
    BY <1>3 DEF LakeTypeOK
  <2>7. writing' # Nothing =>
          File("consumer", {writing'[2]}) \in bucket'[writing'[1]] \ Ever(writing[1])'
    BY <2>4, <2>5, <2>6
  <2>8. QED
    BY <2>3, <2>4, <2>7, <1>3 DEF FlushIsNew
<1>13. CompactsOnce'
  <2>1. \A s \in Runs, d \in Entities : Untouched(s, d)' => Untouched(s, d) /\ (s = r => d # e)
    BY <1>2, <1>3, <1>6, TriedKeepsRuns
  <2>2. \A s \in Runs, d \in Entities : Untouched(s, d)' => \A f \in Ever(d)' : f.by # s
    <3> SUFFICES ASSUME NEW s \in Runs, NEW d \in Entities, Untouched(s, d)', NEW f \in Ever(d)'
                 PROVE  f.by # s
      OBVIOUS
    <3>1. f \in Ever(d) \/ (d = e /\ f = g)
      BY <1>11
    <3>2. CASE f \in Ever(d)
      BY <3>2, <2>1, <1>3 DEF CompactsOnce
    <3>3. CASE d = e /\ f = g
      BY <3>3, <2>1, <1>5
    <3>4. QED
      BY <3>1, <3>2, <3>3
  <2>3. \A s \in Runs : opened'[s] # Nothing => phase'[s] = "optimize" /\ opened'[s][1] \in pending'[s]
    BY <1>2, <1>3, TriedKeepsRuns
  <2>4. QED
    BY <2>2, <2>3 DEF CompactsOnce
<1>14. LiveFiles'
  <2>1. tombstone[e][g] = NotRemoved /\ g \notin live[e]
    BY <1>5, <1>7 DEF Ever
  <2>2. \A d \in Entities : live[d] \subseteq bucket[d] /\ \A f \in live[d] : tombstone[d][f] = NotRemoved
    BY <1>3 DEF LiveFiles
  <2>3. \A d \in Entities : live[d] \subseteq Files
    BY <1>3 DEF LakeTypeOK
  <2>4. \A d \in Entities : \A f \in live'[d] : f \in bucket'[d] /\ tombstone'[d][f] = NotRemoved
    <3> SUFFICES ASSUME NEW d \in Entities, NEW f \in live'[d]
                 PROVE  f \in bucket'[d] /\ tombstone'[d][f] = NotRemoved
      OBVIOUS
    <3>1. CASE d = e /\ f = g
      BY <3>1, <2>1, <1>4, <1>5, <1>8
    <3>2. CASE ~(d = e /\ f = g)
      <4>1. f \in live[d] /\ ~(d = e /\ f \in b)
        BY <3>2, <1>17
      <4>2. f \in bucket[d] /\ tombstone[d][f] = NotRemoved /\ f \in Files
        BY <4>1, <2>2, <2>3
      <4>3. QED
        BY <4>1, <4>2, <1>8
    <3>3. QED
      BY <3>1, <3>2
  <2>5. QED
    BY <2>4 DEF LiveFiles
<1>15. OpenFiles'
  <2> SUFFICES ASSUME reader # Nothing
               PROVE  /\ reader[2] \subseteq bucket'[reader[1]]
                      /\ \A f \in reader[2] : f \notin live'[reader[1]] => tombstone'[reader[1]][f] \in 0..reader[3]
    BY <1>2 DEF OpenFiles, Removed
  <2>1. reader[1] \in Entities /\ reader[2] \subseteq Files /\ reader[3] \in Nat
    BY <1>3, LakeAssumption DEF LakeTypeOK
  <2>2. reader[2] \subseteq bucket[reader[1]]
        /\ \A f \in reader[2] : f \notin live[reader[1]] => tombstone[reader[1]][f] \in 0..reader[3]
    BY <1>3 DEF OpenFiles, Removed
  <2>3. reader[2] \subseteq bucket'[reader[1]]
    BY <2>1, <2>2, <1>8
  <2>4. ASSUME NEW f \in reader[2], f \notin live'[reader[1]]
        PROVE  tombstone'[reader[1]][f] \in 0..reader[3]
    <3>1. CASE reader[1] = e /\ f \in b
      <4>1. f \in Files
        BY <2>1
      <4>2. tombstone'[reader[1]][f] = 0
        BY <3>1, <4>1, <2>1, <1>8
      <4>3. QED
        BY <4>2, <2>1
    <3>2. CASE ~(reader[1] = e /\ f \in b)
      <4>1. f \notin live[reader[1]]
        BY <3>2, <2>1, <2>4, <1>17
      <4>2. f \in Files
        BY <2>1
      <4>3. tombstone'[reader[1]][f] = tombstone[reader[1]][f]
        BY <3>2, <4>2, <2>1, <1>8
      <4>4. QED
        BY <4>1, <4>3, <2>2
    <3>3. QED
      BY <3>1, <3>2
  <2>5. QED
    BY <2>3, <2>4
<1>16. QED
  BY <1>9, <1>10, <1>12, <1>13, <1>14, <1>15 DEF LakeInv

(* A compaction that fails has written a file at most.                     *)
LEMMA CompactFailsInv ==
  ASSUME LakeInv, NEW r \in Runs, CompactFails(r) PROVE LakeInv'
<1> DEFINE e == opened[r][1]
<1>1. PICK b \in Bins(opened[r][2]) \cup {{}} :
        bucket' = [bucket EXCEPT ![e] = IF b = {} THEN @ ELSE @ \cup {Compacted(r, b)}]
  BY DEF CompactFails
<1>2. /\ opened[r] # Nothing /\ opened' = [opened EXCEPT ![r] = Nothing]
      /\ pending' = [pending EXCEPT ![r] = @ \ {e}]
      /\ failures < MaxFailures /\ failures' = failures + 1
      /\ errors' = [errors EXCEPT ![r] = @ \cup {e}]
      /\ UNCHANGED <<live, tombstone, flushed, begun, writing, phase, reader>>
  BY DEF CompactFails, Tried, Misses, consumer
<1>3. LakeTypeOK /\ CompactsOnce /\ FlushIsNew /\ LiveFiles /\ OpenFiles /\ EachRowOnce
  BY DEF LakeInv
<1>4. e \in Entities /\ b \in SUBSET Files
  BY <1>2, <1>3 DEF LakeTypeOK, Bins
<1>5. Compacted(r, b) \in Files
  BY <1>4, CompactedIsAFile
<1>6. bucket' \in [Entities -> SUBSET Files] /\ \A d \in Entities : bucket[d] \subseteq bucket'[d]
  BY <1>1, <1>3, <1>5 DEF LakeTypeOK
<1>7. LakeTypeOK'
  <2>1. failures' \in 0..MaxFailures
    BY <1>2, <1>3, LakeAssumption DEF LakeTypeOK
  <2>2. errors' \in [Runs -> SUBSET Entities] /\ pending' \in [Runs -> SUBSET Entities]
        /\ opened' \in [Runs -> {Nothing} \cup (Entities \X (SUBSET Files))]
    BY <1>2, <1>3, <1>4 DEF LakeTypeOK
  <2>3. QED
    BY <2>1, <2>2, <1>2, <1>3, <1>6 DEF LakeTypeOK
<1>8. \A d \in Entities : Ever(d)' = Ever(d)
  BY <1>2 DEF Ever
<1>9. EachRowOnce' /\ LiveFiles' /\ OpenFiles'
  <2>1. EachRowOnce'
    BY <1>2, <1>3 DEF EachRowOnce
  <2>2. LiveFiles'
    BY <1>2, <1>3, <1>6 DEF LiveFiles
  <2>3. reader # Nothing => reader[1] \in Entities
    BY <1>3 DEF LakeTypeOK
  <2>4. OpenFiles'
    BY <1>2, <1>3, <1>6, <2>3 DEF OpenFiles, Removed
  <2>5. QED
    BY <2>1, <2>2, <2>4
<1>10. FlushIsNew'
  <2>1. writing # Nothing => writing[1] \in Entities
    BY <1>3 DEF LakeTypeOK
  <2>2. QED
    BY <1>2, <1>3, <1>6, <1>8, <2>1 DEF FlushIsNew
<1>11. CompactsOnce'
  <2>1. \A s \in Runs, d \in Entities : Untouched(s, d)' => \A f \in Ever(d)' : f.by # s
    BY <1>2, <1>3, <1>8, TriedKeepsRuns DEF CompactsOnce
  <2>2. \A s \in Runs : opened'[s] # Nothing => phase'[s] = "optimize" /\ opened'[s][1] \in pending'[s]
    BY <1>2, <1>3, TriedKeepsRuns
  <2>3. QED
    BY <2>1, <2>2 DEF CompactsOnce
<1>12. QED
  BY <1>7, <1>9, <1>10, <1>11 DEF LakeInv

-----------------------------------------------------------------------------
(* Vacuum.                                                                 *)

(* What has expired is neither live, nor open, nor being written.          *)
LEMMA ExpiredIsUnused ==
  ASSUME LakeInv, NEW e \in Entities, NEW f \in Expired(e)
  PROVE  /\ f \notin live[e]
         /\ reader # Nothing /\ reader[1] = e => f \notin reader[2]
         /\ f \in Ever(e)
<1>1. f \in Files /\ tombstone[e][f] >= Retention /\ tombstone[e][f] \in -1..Retention
  BY DEF Expired, LakeInv, LakeTypeOK
<1>2. tombstone[e][f] # NotRemoved
  BY <1>1, LakeAssumption DEF NotRemoved
<1>3. f \notin live[e] /\ f \in Ever(e)
  BY <1>1, <1>2 DEF LakeInv, LiveFiles, Ever
<1>4. ASSUME reader # Nothing, reader[1] = e, f \in reader[2] PROVE FALSE
  <2>1. tombstone[e][f] \in 0..reader[3]
    BY <1>3, <1>4 DEF LakeInv, OpenFiles, Removed
  <2>2. reader[3] \in 0..MaxRead
    BY <1>4 DEF LakeInv, LakeTypeOK
  <2>3. QED
    BY <2>1, <2>2, <1>1, LakeAssumption
<1>5. QED
  BY <1>3, <1>4

LEMMA VacuumInv ==
  ASSUME LakeInv, NEW r \in Runs, NEW e \in Entities, Vacuum(r, e) \/ VacuumFails(r, e)
  PROVE  LakeInv'
<1>1. /\ phase[r] = "vacuum" /\ pending' = [pending EXCEPT ![r] = @ \ {e}]
      /\ UNCHANGED <<live, tombstone, flushed, begun, writing, phase, opened, reader>>
  BY DEF Vacuum, VacuumFails, Tried, consumer
<1>2. PICK fs \in SUBSET Expired(e) : bucket' = [bucket EXCEPT ![e] = @ \ fs]
  BY DEF Vacuum, VacuumFails
<1>3. LakeTypeOK /\ CompactsOnce /\ FlushIsNew /\ LiveFiles /\ OpenFiles /\ EachRowOnce
  BY DEF LakeInv
<1>4. \A d \in Entities : bucket'[d] = IF d = e THEN bucket[d] \ fs ELSE bucket[d]
  BY <1>2, <1>3 DEF LakeTypeOK
<1>5. LakeTypeOK'
  <2>1. failures' \in 0..MaxFailures
    BY <1>3, LakeAssumption DEF Vacuum, VacuumFails, Misses, LakeTypeOK
  <2>2. errors' \in [Runs -> SUBSET Entities]
    BY <1>3 DEF Vacuum, VacuumFails, Misses, LakeTypeOK
  <2>3. bucket' \in [Entities -> SUBSET Files] /\ pending' \in [Runs -> SUBSET Entities]
    BY <1>1, <1>2, <1>3 DEF LakeTypeOK
  <2>4. QED
    BY <2>1, <2>2, <2>3, <1>1, <1>3 DEF LakeTypeOK
<1>6. \A d \in Entities : Ever(d)' = Ever(d)
  BY <1>1 DEF Ever
<1>7. EachRowOnce'
  BY <1>1, <1>3 DEF EachRowOnce
<1>8. LiveFiles'
  <2>1. \A d \in Entities : live[d] \subseteq bucket'[d]
    BY <1>2, <1>3, <1>4, ExpiredIsUnused DEF LiveFiles
  <2>2. QED
    BY <2>1, <1>1, <1>3 DEF LiveFiles
<1>9. OpenFiles'
  <2>1. reader # Nothing => reader[1] \in Entities
    BY <1>3 DEF LakeTypeOK
  <2>2. reader # Nothing => reader[2] \subseteq bucket'[reader[1]]
    BY <1>2, <1>3, <1>4, <2>1, ExpiredIsUnused DEF OpenFiles
  <2>3. QED
    BY <2>2, <1>1, <1>3 DEF OpenFiles, Removed
<1>10. FlushIsNew'
  <2>1. writing # Nothing => writing[1] \in Entities
    BY <1>3 DEF LakeTypeOK
  <2>2. ASSUME writing # Nothing
        PROVE  File("consumer", {writing[2]}) \in bucket'[writing[1]]
    BY <1>2, <1>3, <1>4, <2>1, <2>2, ExpiredIsUnused DEF FlushIsNew
  <2>3. QED
    BY <2>1, <2>2, <1>1, <1>3, <1>6 DEF FlushIsNew
<1>11. CompactsOnce'
  <2>1. \A s \in Runs : pending'[s] = IF s = r THEN pending[s] \ {e} ELSE pending[s]
    BY <1>1, <1>3 DEF LakeTypeOK
  <2>2. \A s \in Runs, d \in Entities : Untouched(s, d)' => Untouched(s, d)
    BY <2>1, <1>1 DEF Untouched
  <2>3. \A s \in Runs, d \in Entities : Untouched(s, d)' => \A f \in Ever(d)' : f.by # s
    BY <2>2, <1>3, <1>6 DEF CompactsOnce
  <2>4. \A s \in Runs : opened'[s] # Nothing => phase'[s] = "optimize" /\ opened'[s][1] \in pending'[s]
    BY <2>1, <1>1, <1>3 DEF CompactsOnce
  <2>5. QED
    BY <2>3, <2>4 DEF CompactsOnce
<1>12. QED
  BY <1>5, <1>7, <1>8, <1>9, <1>10, <1>11 DEF LakeInv

-----------------------------------------------------------------------------
(* Readers and the clock.                                                  *)

LEMMA ReaderInv ==
  ASSUME LakeInv, (\E e \in Entities : OpenVersion(e)) \/ CloseVersion PROVE LakeInv'
<1>1. UNCHANGED <<bucket, live, tombstone, flushed, begun, writing,
                  phase, pending, opened, errors, failures>>
  BY DEF OpenVersion, CloseVersion, tables, consumer, runs
<1>2. LakeTypeOK'
  <2>1. \A e \in Entities : live[e] \in SUBSET Files
    BY DEF LakeInv, LakeTypeOK
  <2>2. reader' = Nothing \/ reader' \in Entities \X (SUBSET Files) \X (0..MaxRead)
    BY <2>1, LakeAssumption DEF OpenVersion, CloseVersion
  <2>3. QED
    BY <1>1, <2>2 DEF LakeInv, LakeTypeOK
<1>3. CompactsOnce'
  BY <1>1 DEF LakeInv, CompactsOnce, Untouched, Ever
<1>4. OpenFiles'
  BY <1>1 DEF LakeInv, OpenFiles, Removed, LiveFiles, OpenVersion, CloseVersion
<1>5. QED
  BY <1>1, <1>2, <1>3, <1>4, TablesStayInv DEF tables

LEMMA HourInv ==
  ASSUME LakeInv, Hour PROVE LakeInv'
<1>1. UNCHANGED <<bucket, live, flushed, begun, writing, phase, pending, opened, errors, failures>>
  BY DEF Hour, consumer, runs
<1>2. LakeTypeOK /\ EachRowOnce /\ FlushIsNew /\ CompactsOnce /\ LiveFiles /\ OpenFiles
  BY DEF LakeInv
<1>3. \A d \in Entities, f \in Files :
        tombstone'[d][f] =
          tombstone[d][f] + (IF tombstone[d][f] \in 0..(Retention - 1) THEN 1 ELSE 0)
  BY DEF Hour
<1>4. \A d \in Entities, f \in Files : tombstone[d][f] \in -1..Retention
  BY <1>2 DEF LakeTypeOK
<1>5. \A d \in Entities, f \in Files :
        /\ tombstone'[d][f] \in -1..Retention
        /\ tombstone'[d][f] = NotRemoved <=> tombstone[d][f] = NotRemoved
        /\ tombstone[d][f] >= 0 =>
             tombstone'[d][f] >= 0 /\ tombstone'[d][f] <= tombstone[d][f] + 1
  BY <1>3, <1>4, LakeAssumption DEF NotRemoved
<1>6. reader' = IF reader = Nothing THEN Nothing ELSE <<reader[1], reader[2], reader[3] + 1>>
  BY DEF Hour
<1>7. ASSUME reader # Nothing
      PROVE  /\ reader[1] \in Entities /\ reader[2] \in SUBSET Files
             /\ reader[3] \in Nat /\ reader[3] + 1 \in 0..MaxRead
  BY <1>2, <1>7, LakeAssumption DEF Hour, LakeTypeOK
<1>8. LakeTypeOK'
  <2>1. tombstone' \in [Entities -> [Files -> -1..Retention]]
    BY <1>5 DEF Hour
  <2>2. reader' = Nothing \/ reader' \in Entities \X (SUBSET Files) \X (0..MaxRead)
    BY <1>6, <1>7
  <2>3. QED
    BY <2>1, <2>2, <1>1, <1>2 DEF LakeTypeOK
<1>9. \A d \in Entities : Ever(d)' = Ever(d)
  BY <1>1, <1>5 DEF Ever
<1>10. EachRowOnce' /\ FlushIsNew'
  <2>1. EachRowOnce'
    BY <1>1, <1>2 DEF EachRowOnce
  <2>2. writing # Nothing => writing[1] \in Entities
    BY <1>2 DEF LakeTypeOK
  <2>3. FlushIsNew'
    BY <1>1, <1>2, <1>9, <2>2 DEF FlushIsNew
  <2>4. QED
    BY <2>1, <2>3
<1>11. CompactsOnce'
  BY <1>1, <1>2, <1>9 DEF CompactsOnce, Untouched
<1>12. LiveFiles'
  BY <1>1, <1>2, <1>5 DEF LiveFiles, LakeTypeOK
<1>13. OpenFiles'
  <2> SUFFICES ASSUME reader' # Nothing
               PROVE  /\ reader'[2] \subseteq bucket[reader'[1]]
                      /\ \A f \in reader'[2] :
                           f \notin live[reader'[1]] => tombstone'[reader'[1]][f] \in 0..reader'[3]
    BY <1>1 DEF OpenFiles, Removed
  <2>1. reader # Nothing /\ reader'[1] = reader[1] /\ reader'[2] = reader[2]
        /\ reader'[3] = reader[3] + 1
    BY <1>6
  <2>2. reader[2] \subseteq bucket[reader[1]]
    BY <2>1, <1>2 DEF OpenFiles
  <2>3. ASSUME NEW f \in reader[2], f \notin live[reader[1]]
        PROVE  tombstone'[reader[1]][f] \in 0..(reader[3] + 1)
    <3>1. tombstone[reader[1]][f] \in 0..reader[3]
      BY <2>1, <2>3, <1>2 DEF OpenFiles, Removed
    <3>2. f \in Files /\ reader[1] \in Entities /\ reader[3] \in Nat
      BY <2>1, <1>7
    <3>3. tombstone[reader[1]][f] >= 0
      BY <3>1, <3>2
    <3>4. tombstone'[reader[1]][f] >= 0 /\ tombstone'[reader[1]][f] <= tombstone[reader[1]][f] + 1
          /\ tombstone'[reader[1]][f] \in Int
      BY <3>2, <3>3, <1>5, LakeAssumption
    <3>5. QED
      BY <3>1, <3>2, <3>4
  <2>4. QED
    BY <2>1, <2>2, <2>3
<1>14. QED
  BY <1>8, <1>10, <1>11, <1>12, <1>13 DEF LakeInv

-----------------------------------------------------------------------------
LEMMA LakeStepInv == LakeInv /\ [LakeNext]_lakeVars => LakeInv'
<1> SUFFICES ASSUME LakeInv, [LakeNext]_lakeVars PROVE LakeInv'
  OBVIOUS
<1>1. CASE UNCHANGED lakeVars
  BY <1>1, LakeStutter
<1>2. CASE CommitAppend
  BY <1>2, CommitAppendInv
<1>3. CASE AppendDies
  BY <1>3, AppendDiesInv
<1>4. CASE CloseVersion \/ \E e \in Entities : OpenVersion(e)
  BY <1>4, ReaderInv
<1>5. CASE Hour
  BY <1>5, HourInv
<1>6. CASE \E e \in Entities : WriteFile(e)
  BY <1>6, WriteFileInv
<1>7. ASSUME NEW r \in Runs, RunStep(r) PROVE LakeInv'
  <2>1. CASE Compact(r)
    BY <2>1, CompactInv
  <2>2. CASE CompactFails(r)
    BY <2>2, CompactFailsInv
  <2>3. CASE \E e \in Entities : Vacuum(r, e) \/ VacuumFails(r, e)
    BY <2>3, VacuumInv
  <2>4. CASE StartRun(r) \/ (\E e \in Entities : LoadTable(r, e)) \/ NothingToCompact(r)
             \/ EndOptimize(r) \/ EndVacuum(r)
    BY <2>4, RunControlInv
  <2>5. QED
    BY <1>7, <2>1, <2>2, <2>3, <2>4 DEF RunStep
<1>8. QED
  BY <1>1, <1>2, <1>3, <1>4, <1>5, <1>6, <1>7 DEF LakeNext

LEMMA LakeInvariant == LakeSpec => []LakeInv
BY LakeInitInv, LakeStepInv, PTL DEF LakeSpec

(* Every variable of the lake keeps its type, for any entities, runs,      *)
(* retention and bounds.                                                   *)
THEOREM LakeTypeCorrect == LakeSpec => []LakeTypeOK
<1>1. LakeInv => LakeTypeOK
  BY DEF LakeInv
<1>2. QED
  BY <1>1, LakeInvariant, PTL

(* Appends, overlapping compactions and their failures leave the rows of   *)
(* every acknowledged flush in exactly one live file, and no vacuum        *)
(* removes a file of the newest version or of one opened for less than the *)
(* retention: whatever the number of entities, runs and flushes.           *)
THEOREM LakeIsKept == LakeSpec => []LakeKeepsItsRows
<1>1. LakeInv => LakeKeepsItsRows
  BY DEF LakeInv, LakeKeepsItsRows, FilesAreThere, LiveFiles, OpenFiles
<1>2. QED
  BY <1>1, LakeInvariant, PTL
=============================================================================
