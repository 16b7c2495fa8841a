------------------------ MODULE BronzeConsumerProofs ------------------------
(***************************************************************************)
(* Proofs about the Bronze Consumer, for every number of entities, batch   *)
(* size, poll cap and pool size, every topic and every number of failures: *)
(* its types, at-least-once delivery, what may leave memory and when, that *)
(* a full buffer can be committed, what holds while nothing fails, and     *)
(* that it implements BronzeDelivery.                                      *)
(***************************************************************************)
EXTENDS BronzeConsumer, FiniteSetTheorems, TLAPS

(* A poll of k events buffers at most k records. *)
LEMMA DecodableCardinality ==
  ASSUME NEW e, NEW lo \in Nat, NEW k \in Nat
  PROVE  /\ IsFiniteSet(Decodable(e, lo, lo + k))
         /\ Cardinality(Decodable(e, lo, lo + k)) \in Nat
         /\ Cardinality(Decodable(e, lo, lo + k)) <= k
<1> DEFINE window == lo + 1 .. lo + k
<1>1. Decodable(e, lo, lo + k) \subseteq window
  BY DEF Decodable
<1>2. IsFiniteSet(window) /\ Cardinality(window) = k
  <2>1. lo + 1 \in Int /\ lo + k \in Int
    OBVIOUS
  <2>2. QED
    BY <2>1, FS_Interval
<1>3. QED
  BY <1>1, <1>2, FS_Subset, FS_CardinalityType

-----------------------------------------------------------------------------
(* Type correctness.  The step is proved one group of actions at a time.   *)

LEMMA LesserBounds ==
  ASSUME NEW m \in Int, NEW n \in Int
  PROVE  Lesser(m, n) \in Int /\ Lesser(m, n) <= m /\ Lesser(m, n) <= n
BY DEF Lesser

LEMMA InitType == Init => TypeOK
<1> SUFFICES ASSUME Init PROVE TypeOK
  OBVIOUS
<1>1. 1 \in Entities
  BY EntitiesAssumption DEF Entities
<1>2. BrokerType /\ DeltaType /\ ConsumerType
  BY DEF Init, BrokerType, DeltaType, ConsumerType
<1>3. RecordsType
  BY BatchAssumption DEF Init, RecordsType
<1>4. IdlenessType
  BY IdleAssumption DEF Init, IdlenessType
<1>5. PoolType /\ LoopType
  BY <1>1 DEF Init, PoolType, LoopType, FlushStates
<1>6. faults \in 0 .. MaxFaults
  BY BoundsAssumption DEF Init
<1>7. QED
  BY <1>2, <1>3, <1>4, <1>5, <1>6 DEF TypeOK

(* What a step leaves alone keeps its type. *)
LEMMA UnchangedTypes ==
  /\ UNCHANGED broker /\ BrokerType => BrokerType'
  /\ UNCHANGED delta /\ DeltaType => DeltaType'
  /\ UNCHANGED consumer /\ ConsumerType => ConsumerType'
  /\ UNCHANGED records /\ RecordsType => RecordsType'
  /\ UNCHANGED idleness /\ IdlenessType => IdlenessType'
  /\ UNCHANGED pool /\ PoolType => PoolType'
  /\ UNCHANGED loop /\ LoopType => LoopType'
<1>1. UNCHANGED broker /\ BrokerType => BrokerType'
  BY DEF broker, BrokerType
<1>2. UNCHANGED delta /\ DeltaType => DeltaType'
  BY DEF delta, DeltaType
<1>3. UNCHANGED consumer /\ ConsumerType => ConsumerType'
  BY DEF consumer, ConsumerType
<1>4. UNCHANGED records /\ RecordsType => RecordsType'
  BY DEF records, RecordsType
<1>5. UNCHANGED idleness /\ IdlenessType => IdlenessType'
  BY DEF idleness, IdlenessType
<1>6. UNCHANGED pool /\ PoolType => PoolType'
  BY DEF pool, PoolType
<1>7. UNCHANGED loop /\ LoopType => LoopType'
  BY DEF loop, LoopType
<1>8. QED
  BY <1>1, <1>2, <1>3, <1>4, <1>5, <1>6, <1>7

LEMMA FaultType ==
  ASSUME faults \in 0 .. MaxFaults, Fault \/ NoFault
  PROVE  faults' \in 0 .. MaxFaults
BY BoundsAssumption DEF Fault, NoFault

LEMMA NextTurnType ==
  ASSUME LoopType, NextTurn
  PROVE  LoopType'
BY EntitiesAssumption, BoundsAssumption DEF LoopType, NextTurn, Entities

(* The end of a turn keeps the types of the pool and the loop. *)
LEMMA EndTurnType ==
  ASSUME PoolType, LoopType, NEW e \in Entities, EndTurn(e)
  PROVE  PoolType' /\ LoopType'
<1>1. NextTurn
  BY DEF EndTurn
<1>2. LoopType'
  BY <1>1, NextTurnType
<1>3. CASE IsDue(e)'
  <2>1. /\ flush' = [flush EXCEPT ![e] = "queued"]
        /\ queue' = Append(queue, e)
    BY <1>3 DEF EndTurn
  <2>2. "queued" \in FlushStates
    BY DEF FlushStates, InFlight
  <2>3. QED
    BY <1>2, <2>1, <2>2 DEF PoolType
<1>4. CASE ~IsDue(e)'
  BY <1>2, <1>4, UnchangedTypes DEF EndTurn
<1>5. QED
  BY <1>3, <1>4

(* What a poll of k events leaves in a buffer with room for them. *)
LEMMA BufferedType ==
  ASSUME ConsumerType, RecordsType, NEW e \in Entities, NEW start \in Nat,
         NEW k \in Nat, k <= Remaining(e), Buffered(e, start, k)
  PROVE  /\ pos' \in [Entities -> Nat]
         /\ held' \in [Entities -> SUBSET Nat]
         /\ size' \in [Entities -> Nat]
         /\ \A f \in Entities : size'[f] <= MaxBatch[f]
<1> DEFINE fresh == Decodable(e, start, start + k)
           n == Cardinality(fresh)
<1>1. n \in Nat /\ n <= k
  BY DecodableCardinality
<1>2. fresh \in SUBSET Nat
  BY DEF Decodable
<1>3. /\ MaxBatch \in [Entities -> Nat] /\ PollCap[e] \in Nat
      /\ size \in [Entities -> Nat]
  BY BatchAssumption DEF RecordsType
<1>4. k <= MaxBatch[e] - size[e]
  <2>1. MaxBatch[e] - size[e] \in Int /\ PollCap[e] \in Int
    BY <1>3
  <2>2. Remaining(e) \in Int /\ Remaining(e) <= MaxBatch[e] - size[e]
    BY <2>1, LesserBounds DEF Remaining
  <2>3. QED
    BY <2>1, <2>2
<1>5. /\ pos' = [pos EXCEPT ![e] = start + k]
      /\ held' = [held EXCEPT ![e] = @ \cup fresh]
      /\ size' = [size EXCEPT ![e] = @ + n]
  BY DEF Buffered
<1> HIDE DEF n
<1>6. size' \in [Entities -> Nat]
  BY <1>1, <1>3, <1>5
<1>7. size'[e] <= MaxBatch[e]
  BY <1>1, <1>3, <1>4, <1>5
<1>8. ASSUME NEW f \in Entities PROVE size'[f] <= MaxBatch[f]
  BY <1>3, <1>5, <1>7 DEF RecordsType
<1> HIDE DEF fresh
<1>9. pos' \in [Entities -> Nat]
  <2>1. pos \in [Entities -> Nat] /\ start + k \in Nat
    BY DEF ConsumerType
  <2>2. QED
    BY <1>5, <2>1
<1>10. held' \in [Entities -> SUBSET Nat]
  BY <1>2, <1>5 DEF RecordsType
<1>11. QED
  BY <1>6, <1>8, <1>9, <1>10

LEMMA FetchedType ==
  ASSUME BrokerType, ConsumerType, RecordsType, NEW e \in Entities,
         NEW k \in Nat, k <= Remaining(e), Fetched(e, k)
  PROVE  /\ ConsumerType'
         /\ held' \in [Entities -> SUBSET Nat]
         /\ size' \in [Entities -> Nat]
         /\ \A f \in Entities : size'[f] <= MaxBatch[f]
         /\ late' \in [Entities -> Nat]
<1>1. CASE PollAssigned(e, k)
  <2>1. /\ Buffered(e, pos[e], k) /\ pos[e] \in Nat
        /\ status' = status /\ late' = late
        /\ stored' = [stored EXCEPT ![e] = @ \/ k > 0]
    BY <1>1 DEF PollAssigned, ConsumerType
  <2>2. stored' \in [Entities -> BOOLEAN]
    BY <2>1 DEF ConsumerType
  <2>3. QED
    BY <2>1, <2>2, BufferedType DEF ConsumerType, BrokerType
<1>2. CASE PollJoins(e, k)
  <2>1. /\ Buffered(e, committed[e], k) /\ committed[e] \in Nat
        /\ status' = [status EXCEPT ![e] = "assigned"]
        /\ late' = [late EXCEPT ![e] = 0]
        /\ stored' = [stored EXCEPT ![e] = k > 0]
    BY <1>2 DEF PollJoins, BrokerType
  <2>2. stored' \in [Entities -> BOOLEAN]
    BY <2>1 DEF ConsumerType
  <2>3. status' \in [Entities -> {"none", "joining", "assigned", "lost"}]
    BY <2>1 DEF ConsumerType
  <2>4. late' \in [Entities -> Nat]
    BY <2>1 DEF BrokerType
  <2>5. QED
    BY <2>1, <2>2, <2>3, <2>4, BufferedType DEF ConsumerType
<1>3. QED
  BY <1>1, <1>2 DEF Fetched

LEMMA RemainingAvailable ==
  ASSUME TypeOK, NEW e \in Entities
  PROVE  /\ Remaining(e) \in Int
         /\ Available(e) \in Int
         /\ Lesser(Remaining(e), Available(e)) \in Int
         /\ Lesser(Remaining(e), Available(e)) <= Remaining(e)
         /\ Lesser(Remaining(e), Available(e)) <= Available(e)
<1>1. MaxBatch[e] - size[e] \in Int /\ PollCap[e] \in Int
  BY BatchAssumption DEF TypeOK, RecordsType
<1>2. Len(log[e]) \in Nat /\ pos[e] \in Nat /\ committed[e] \in Nat
  BY DEF TypeOK, BrokerType, ConsumerType
<1>3. Remaining(e) \in Int
  BY <1>1, LesserBounds DEF Remaining
<1>4. Available(e) \in Int
  BY <1>2 DEF Available
<1>5. QED
  BY <1>3, <1>4, LesserBounds

LEMMA EmptyPollType ==
  ASSUME IdlenessType, NEW e \in Entities, CountEmptyPoll(e)
  PROVE  empties' \in [Entities -> 0 .. IdleAfter]
<1>1. Lesser(empties[e] + 1, IdleAfter) \in 0 .. IdleAfter
  BY IdleAssumption DEF IdlenessType, Lesser
<1>2. QED
  BY <1>1 DEF IdlenessType, CountEmptyPoll

(* Goto, Clear and Recover, which the flush is made of. *)
LEMMA FlushTypes ==
  ASSUME TypeOK, NEW e \in Entities
  PROVE  /\ \A state \in FlushStates : Goto(e, state) => PoolType'
         /\ Clear(e) => RecordsType'
         /\ Recover(e) => ConsumerType' /\ RecordsType' /\ PoolType'
<1>1. ASSUME NEW state \in FlushStates, Goto(e, state)
      PROVE  PoolType'
  BY <1>1 DEF TypeOK, PoolType, Goto
<1>2. ASSUME Clear(e) PROVE RecordsType'
  <2>1. /\ held' \in [Entities -> SUBSET Nat]
        /\ aged' \in [Entities -> BOOLEAN]
    BY <1>2 DEF TypeOK, RecordsType, Clear
  <2>2. /\ size' \in [Entities -> Nat]
        /\ \A f \in Entities : size'[f] <= MaxBatch[f]
    <3>1. /\ size' = [size EXCEPT ![e] = 0]
          /\ size \in [Entities -> Nat]
          /\ \A f \in Entities : size[f] <= MaxBatch[f]
      BY <1>2 DEF TypeOK, RecordsType, Clear
    <3>2. \A f \in Entities : MaxBatch[f] \in Nat
      BY BatchAssumption
    <3>3. QED
      BY <3>1, <3>2
  <2>3. QED
    BY <2>1, <2>2 DEF RecordsType
<1>3. ASSUME Recover(e) PROVE ConsumerType' /\ RecordsType' /\ PoolType'
  <2>1. ConsumerType'
    BY <1>3 DEF TypeOK, ConsumerType, Recover
  <2>2. PoolType' /\ RecordsType'
    BY <1>1, <1>2, <1>3 DEF Recover, FlushStates
  <2>3. QED
    BY <2>1, <2>2
<1>4. QED
  BY <1>1, <1>2, <1>3

-----------------------------------------------------------------------------
(* The steps of the environment. *)
LEMMA EnvironmentType ==
  ASSUME TypeOK, NEW e \in Entities,
         Produce(e) \/ Age(e) \/ LoseAssignment(e) \/ LateCommit(e)
  PROVE  TypeOK'
<1> USE DEF TypeOK
<1>1. CASE Produce(e)
  <2>1. PICK kind \in Kinds : log' = [log EXCEPT ![e] = Append(@, kind)]
    BY <1>1 DEF Produce
  <2>2. log' \in [Entities -> Seq(Kinds)]
    BY <2>1 DEF BrokerType
  <2>3. BrokerType'
    BY <1>1, <2>2 DEF Produce, BrokerType
  <2>4. QED
    BY <1>1, <2>3, UnchangedTypes DEF Produce
<1>2. CASE Age(e)
  <2>1. RecordsType'
    BY <1>2 DEF Age, RecordsType
  <2>2. QED
    BY <1>2, <2>1, UnchangedTypes DEF Age
<1>3. CASE LoseAssignment(e)
  <2>1. ConsumerType'
    BY <1>3 DEF LoseAssignment, ConsumerType
  <2>2. faults' \in 0 .. MaxFaults
    BY <1>3, FaultType DEF LoseAssignment
  <2>3. QED
    BY <1>3, <2>1, <2>2, UnchangedTypes DEF LoseAssignment
<1>4. CASE LateCommit(e)
  <2>1. BrokerType'
    BY <1>4 DEF LateCommit, BrokerType
  <2>2. QED
    BY <1>4, <2>1, UnchangedTypes DEF LateCommit
<1>5. QED
  BY <1>1, <1>2, <1>3, <1>4

(* The turns of the loop. *)
LEMMA TurnType ==
  ASSUME TypeOK, NEW e \in Entities, Turn(e)
  PROVE  TypeOK'
<1> USE DEF TypeOK
<1>0. ASSUME rounds' = [rounds EXCEPT ![e] = 0]
      PROVE  rounds' \in [Entities -> 0 .. PollEvery - 1]
  BY <1>0, IdleAssumption DEF IdlenessType
<1>1. CASE SkipTurn(e)
  BY <1>1, NextTurnType, UnchangedTypes DEF SkipTurn
<1>2. CASE SurfaceFailure(e)
  <2>1. LoopType'
    BY <1>2 DEF SurfaceFailure, LoopType
  <2>2. QED
    BY <1>2, <2>1, UnchangedTypes DEF SurfaceFailure
<1>3. CASE IdleTurn(e)
  <2>1. /\ rounds[e] \in Nat /\ rounds[e] < PollEvery - 1
        /\ rounds' = [rounds EXCEPT ![e] = @ + 1] /\ empties' = empties
    BY <1>3 DEF IdleTurn, SkipPoll, IdlenessType
  <2>2. IdlenessType'
    BY <2>1, IdleAssumption DEF IdlenessType
  <2>3. QED
    BY <1>3, <2>2, EndTurnType, UnchangedTypes DEF IdleTurn
<1>4. CASE FullTurn(e)
  <2>1. IdlenessType'
    BY <1>0, <1>4 DEF FullTurn, IdlenessType
  <2>2. QED
    BY <1>4, <2>1, EndTurnType, UnchangedTypes DEF FullTurn
<1>5. CASE DeliveringTurn(e)
  <2>1. IdlenessType'
    BY <1>0, <1>5, IdleAssumption DEF DeliveringTurn, Polls, IdlenessType
  <2>2. PICK k \in 1 .. Lesser(Remaining(e), Available(e)) : Fetched(e, k)
    BY <1>5 DEF DeliveringTurn
  <2>3. k \in Nat /\ k <= Remaining(e)
    BY <2>2, RemainingAvailable
  <2>4. /\ ConsumerType'
        /\ held' \in [Entities -> SUBSET Nat]
        /\ size' \in [Entities -> Nat]
        /\ \A f \in Entities : size'[f] <= MaxBatch[f]
        /\ late' \in [Entities -> Nat]
    BY <2>2, <2>3, FetchedType
  <2>5. BrokerType' /\ RecordsType' /\ DeltaType'
    BY <1>5, <2>4, UnchangedTypes
       DEF DeliveringTurn, BrokerType, RecordsType
  <2>6. QED
    BY <1>5, <2>1, <2>4, <2>5, EndTurnType DEF DeliveringTurn
<1>6. CASE EmptyTurn(e)
  <2>1. IdlenessType'
    BY <1>0, <1>6, EmptyPollType DEF EmptyTurn, Polls, IdlenessType
  <2>2. 0 \in Nat /\ 0 <= Remaining(e)
    BY <1>6, RemainingAvailable DEF EmptyTurn, Polls
  <2>3. /\ ConsumerType'
        /\ held' \in [Entities -> SUBSET Nat]
        /\ size' \in [Entities -> Nat]
        /\ \A f \in Entities : size'[f] <= MaxBatch[f]
        /\ late' \in [Entities -> Nat]
    BY <1>6, <2>2, FetchedType DEF EmptyTurn
  <2>4. BrokerType' /\ RecordsType' /\ DeltaType'
    BY <1>6, <2>3, UnchangedTypes DEF EmptyTurn, BrokerType, RecordsType
  <2>5. QED
    BY <1>6, <2>1, <2>3, <2>4, EndTurnType DEF EmptyTurn
<1>7. CASE JoiningTurn(e)
  <2>1. IdlenessType'
    BY <1>0, <1>7, EmptyPollType DEF JoiningTurn, Polls, IdlenessType
  <2>2. ConsumerType'
    BY <1>7 DEF JoiningTurn, Rejoin, ConsumerType
  <2>3. faults' \in 0 .. MaxFaults
    BY <1>7, FaultType DEF JoiningTurn
  <2>4. QED
    BY <1>7, <2>1, <2>2, <2>3, EndTurnType, UnchangedTypes DEF JoiningTurn
<1>8. CASE PollRaises(e)
  <2>1. IdlenessType'
    BY <1>0, <1>8 DEF PollRaises, Polls, IdlenessType
  <2>2. ConsumerType'
    <3>1. CASE UNCHANGED <<pos, stored>>
      BY <1>8, <3>1 DEF PollRaises, ConsumerType
    <3>2. CASE \E k \in 0 .. Lesser(Remaining(e), Available(e)) :
                 /\ pos' = [pos EXCEPT ![e] = @ + k]
                 /\ stored' = [stored EXCEPT ![e] = @ \/ k > 0]
      <4>1. PICK k \in 0 .. Lesser(Remaining(e), Available(e)) :
                   /\ pos' = [pos EXCEPT ![e] = @ + k]
                   /\ stored' = [stored EXCEPT ![e] = @ \/ k > 0]
        BY <3>2
      <4>0. k \in Nat
        BY <4>1, RemainingAvailable
      <4>2. stored' \in [Entities -> BOOLEAN]
        BY <4>1 DEF ConsumerType
      <4>3. pos' \in [Entities -> Nat]
        BY <4>0, <4>1 DEF ConsumerType
      <4>4. QED
        BY <1>8, <4>2, <4>3 DEF PollRaises, ConsumerType
    <3>3. QED
      BY <1>8, <3>1, <3>2 DEF PollRaises
  <2>3. faults' \in 0 .. MaxFaults
    BY <1>8, FaultType DEF PollRaises
  <2>4. LoopType'
    BY <1>8 DEF PollRaises, LoopType
  <2>5. RecordsType'
    BY <1>8, UnchangedTypes DEF PollRaises
  <2>6. QED
    BY <1>8, <2>1, <2>2, <2>3, <2>4, <2>5, UnchangedTypes DEF PollRaises
<1>9. QED
  BY <1>1, <1>2, <1>3, <1>4, <1>5, <1>6, <1>7, <1>8 DEF Turn

(* The steps of a flush. *)
LEMMA FlushType ==
  ASSUME TypeOK, NEW e \in Entities, FlushStep(e)
  PROVE  TypeOK'
<1> USE DEF TypeOK
<1>0. {"none", "raised", "committing", "acknowledged", "reporting"}
        \subseteq FlushStates
  BY DEF FlushStates, InFlight, OnWorker
<1>1. ASSUME AppendBatch(e) PROVE DeltaType'
  BY <1>1 DEF AppendBatch, DeltaType, RecordsType
<1>2. CASE Write(e)
  BY <1>0, <1>1, <1>2, FlushTypes, UnchangedTypes DEF Write
<1>3. CASE WriteFails(e)
  <2>1. DeltaType'
    BY <1>1, <1>3, UnchangedTypes DEF WriteFails
  <2>2. faults' \in 0 .. MaxFaults
    BY <1>3, FaultType DEF WriteFails
  <2>3. QED
    BY <1>0, <1>3, <2>1, <2>2, FlushTypes, UnchangedTypes DEF WriteFails
<1>4. CASE BrokerCommits(e)
  <2>1. BrokerType'
    BY <1>4 DEF BrokerCommits, BrokerType, ConsumerType
  <2>2. QED
    BY <1>0, <1>4, <2>1, FlushTypes, UnchangedTypes DEF BrokerCommits
<1>5. CASE CommitReturns(e)
  <2>1. ConsumerType'
    BY <1>5 DEF CommitReturns, ConsumerType
  <2>2. QED
    BY <1>0, <1>5, <2>1, FlushTypes, UnchangedTypes DEF CommitReturns
<1>6. CASE CommitFails(e)
  <2>1. faults' \in 0 .. MaxFaults
    BY <1>6, FaultType DEF CommitFails
  <2>2. QED
    BY <1>0, <1>6, <2>1, FlushTypes, UnchangedTypes DEF CommitFails
<1>7. CASE CommitFindsAssignmentLost(e)
  BY <1>7, FlushTypes, UnchangedTypes DEF CommitFindsAssignmentLost
<1>8. CASE CommitTimesOut(e)
  <2>1. faults' \in 0 .. MaxFaults
    BY <1>8, FaultType DEF CommitTimesOut
  <2>2. BrokerType'
    BY <1>8 DEF CommitTimesOut, BrokerType, ConsumerType
  <2>3. QED
    BY <1>8, <2>1, <2>2, FlushTypes, UnchangedTypes DEF CommitTimesOut
<1>9. CASE Report(e)
  BY <1>0, <1>9, FlushTypes, UnchangedTypes DEF Report
<1>10. CASE LagRaises(e)
  <2>1. faults' \in 0 .. MaxFaults
    BY <1>10, FaultType DEF LagRaises
  <2>2. QED
    BY <1>0, <1>10, <2>1, FlushTypes, UnchangedTypes DEF LagRaises
<1>11. QED
  BY <1>2, <1>3, <1>4, <1>5, <1>6, <1>7, <1>8, <1>9, <1>10 DEF FlushStep

(* The steps of the process as a whole. *)
LEMMA LoseMemoryType ==
  ASSUME LoseMemory
  PROVE  /\ ConsumerType' /\ RecordsType' /\ IdlenessType' /\ PoolType'
         /\ turn' \in Entities /\ iterations' \in Nat
<1>1. 1 \in Entities
  BY EntitiesAssumption DEF Entities
<1>2. ConsumerType' /\ PoolType'
  BY DEF LoseMemory, ConsumerType, PoolType, FlushStates
<1>3. RecordsType' /\ IdlenessType'
  BY BatchAssumption, IdleAssumption DEF LoseMemory, RecordsType, IdlenessType
<1>4. QED
  BY <1>1, <1>2, <1>3 DEF LoseMemory

LEMMA ProcessType ==
  ASSUME TypeOK,
         StartFlush \/ Interrupt \/ Return \/ Exit \/ Crash \/ Restart
  PROVE  TypeOK'
<1> USE DEF TypeOK
<1>1. CASE StartFlush
  <2>1. "writing" \in FlushStates
    BY DEF FlushStates, InFlight, OnWorker
  <2>2. PoolType'
    BY <1>1, <2>1 DEF StartFlush, PoolType
  <2>3. QED
    BY <1>1, <2>2, UnchangedTypes DEF StartFlush
<1>2. CASE Interrupt
  <2>1. LoopType' /\ faults' \in 0 .. MaxFaults
    BY <1>2, FaultType DEF Interrupt, LoopType
  <2>2. QED
    BY <1>2, <2>1, UnchangedTypes DEF Interrupt
<1>3. CASE Return
  <2>1. LoopType'
    BY <1>3 DEF Return, LoopType
  <2>2. QED
    BY <1>3, <2>1, UnchangedTypes DEF Return
<1>4. CASE Exit
  <2>1. LoopType'
    BY <1>4, LoseMemoryType DEF Exit, LoopType
  <2>2. QED
    BY <1>4, <2>1, LoseMemoryType, UnchangedTypes DEF Exit
<1>5. CASE Crash
  <2>1. LoopType' /\ faults' \in 0 .. MaxFaults
    BY <1>5, FaultType, LoseMemoryType DEF Crash, LoopType
  <2>2. BrokerType'
    BY <1>5 DEF Crash, BrokerType, ConsumerType
  <2>3. QED
    BY <1>5, <2>1, <2>2, LoseMemoryType, UnchangedTypes DEF Crash
<1>6. CASE Restart
  <2>1. LoopType'
    BY <1>6 DEF Restart, LoopType
  <2>2. QED
    BY <1>6, <2>1, UnchangedTypes DEF Restart
<1>7. QED
  BY <1>1, <1>2, <1>3, <1>4, <1>5, <1>6

LEMMA StutterType == TypeOK /\ UNCHANGED vars => TypeOK'
BY UnchangedTypes DEF TypeOK, vars

(* Type correctness, and with it the bound on every buffer, in all         *)
(* reachable states of the consumer.                                       *)
THEOREM TypeCorrect == Spec => []TypeOK
<1>1. TypeOK /\ [Next]_vars => TypeOK'
  BY EnvironmentType, TurnType, FlushType, ProcessType, StutterType DEF Next
<1>2. QED
  BY InitType, <1>1, PTL DEF Spec

-----------------------------------------------------------------------------
(* At-least-once delivery.  DeliveryInv is inductive; most steps keep what *)
(* EntityInv says of an entity because they only add rows to its table and *)
(* either leave its position and its buffer alone or forget the position.  *)

LEMMA Frame ==
  ASSUME TypeOK, NEW f \in Entities, EntityInv(f),
         log'[f] = log[f],
         landed[f] \subseteq landed'[f],
         committed'[f] = committed[f],
         late'[f] = late[f] \/ late'[f] = 0,
         \/ pos'[f] = 0
         \/ /\ pos'[f] = pos[f]
            /\ Proceeds(f)' => /\ Proceeds(f)
                               /\ held[f] \subseteq held'[f] \cup landed'[f],
         flush'[f] \in Written => held'[f] \subseteq landed'[f]
  PROVE  EntityInv(f)'
<1> USE DEF EntityInv
<1>1. Len(log[f]) \in Nat
  BY DEF TypeOK, BrokerType
<1>2. OffsetsExist(f)'
  BY <1>1 DEF OffsetsExist
<1>3. CommittedIsLanded(f)'
  BY DEF CommittedIsLanded, Decodable
<1>4. ConsumedIsKept(f)'
  BY DEF ConsumedIsKept, Decodable
<1>5. WrittenIsLanded(f)'
  BY DEF WrittenIsLanded
<1>6. LateIsLanded(f)'
  BY DEF LateIsLanded, Decodable
<1>7. QED
  BY <1>2, <1>3, <1>4, <1>5, <1>6

(* An entity none of whose variables changes, while the loop does not      *)
(* start.                                                                  *)
LEMMA Untouched ==
  ASSUME TypeOK, NEW f \in Entities, EntityInv(f),
         log'[f] = log[f], landed'[f] = landed[f],
         committed'[f] = committed[f], late'[f] = late[f],
         pos'[f] = pos[f], held'[f] = held[f], flush'[f] = flush[f],
         main' \in {"loop", "down"} => main \in {"loop", "down"}
  PROVE  EntityInv(f)'
<1>1. Proceeds(f)' => Proceeds(f)
  BY DEF Proceeds
<1>2. flush'[f] \in Written => held'[f] \subseteq landed'[f]
  BY DEF EntityInv, WrittenIsLanded
<1>3. QED
  BY <1>1, <1>2, Frame

LEMMA InitDelivery == Init => DeliveryInv
<1> SUFFICES ASSUME Init PROVE DeliveryInv
  OBVIOUS
<1>1. QueueOK
  BY DEF Init, QueueOK
<1>2. ASSUME NEW e \in Entities PROVE EntityInv(e)
  BY DEF Init, EntityInv, OffsetsExist, CommittedIsLanded, ConsumedIsKept,
         WrittenIsLanded, LateIsLanded, Decodable, Written
<1>3. QED
  BY <1>1, <1>2, InitType DEF DeliveryInv

(* The queue changes only when a turn submits a flush and when a worker    *)
(* takes one; a worker leaves the entries of other entities alone.         *)
LEMMA QueueUnchanged ==
  ASSUME QueueOK, queue' = queue,
         \A i \in 1 .. Len(queue) : flush'[queue[i]] = flush[queue[i]]
  PROVE  QueueOK'
BY DEF QueueOK

LEMMA QueueEndTurn ==
  ASSUME TypeOK, QueueOK, NEW e \in Entities, flush[e] # "queued", EndTurn(e)
  PROVE  QueueOK'
<1>1. CASE IsDue(e)'
  <2>1. /\ flush' = [flush EXCEPT ![e] = "queued"]
        /\ queue' = Append(queue, e)
    BY <1>1 DEF EndTurn
  <2>2. queue \in Seq(Entities) /\ flush \in [Entities -> FlushStates]
    BY DEF TypeOK, PoolType
  <2>3. /\ Len(queue') = Len(queue) + 1
        /\ queue'[Len(queue) + 1] = e
        /\ \A i \in 1 .. Len(queue) : queue'[i] = queue[i]
    BY <2>1, <2>2
  <2>4. \A i \in 1 .. Len(queue) :
          queue[i] \in Entities /\ queue[i] # e /\ flush'[queue[i]] = "queued"
    BY <2>1, <2>2 DEF QueueOK
  <2>5. flush'[e] = "queued"
    BY <2>1, <2>2
  <2>6. \A i \in 1 .. Len(queue') : i \in 1 .. Len(queue) \/ i = Len(queue) + 1
    BY <2>2, <2>3
  <2>7. QED
    BY <2>3, <2>4, <2>5, <2>6 DEF QueueOK
<1>2. CASE ~IsDue(e)'
  BY <1>2 DEF EndTurn, pool, QueueOK
<1>3. QED
  BY <1>1, <1>2

LEMMA QueueGoto ==
  ASSUME TypeOK, QueueOK, NEW e \in Entities, flush[e] # "queued",
         NEW state, Goto(e, state)
  PROVE  QueueOK'
<1>1. queue \in Seq(Entities) /\ flush \in [Entities -> FlushStates]
  BY DEF TypeOK, PoolType
<1>2. queue' = queue /\ flush' = [flush EXCEPT ![e] = state]
  BY DEF Goto
<1>3. \A i \in 1 .. Len(queue) : queue[i] \in Entities /\ queue[i] # e
  BY <1>1 DEF QueueOK
<1>4. QED
  BY <1>1, <1>2, <1>3, QueueUnchanged

LEMMA EnvironmentDelivery ==
  ASSUME DeliveryInv, NEW e \in Entities,
         Produce(e) \/ Age(e) \/ LoseAssignment(e) \/ LateCommit(e)
  PROVE  DeliveryInv'
<1> USE DEF DeliveryInv
<1>1. TypeOK'
  BY EnvironmentType
<1>2. QueueOK'
  BY QueueUnchanged
     DEF Produce, Age, LoseAssignment, LateCommit, pool, QueueOK
<1>3. ASSUME NEW f \in Entities PROVE EntityInv(f)'
  <2>1. CASE Produce(e)
    <3>1. PICK kind \in Kinds : log' = [log EXCEPT ![e] = Append(@, kind)]
      BY <2>1 DEF Produce
    <3>2. log[f] \in Seq(Kinds) /\ log \in [Entities -> Seq(Kinds)]
      BY DEF TypeOK, BrokerType
    <3>3. /\ Len(log[f]) \in Nat
          /\ Len(log'[f]) >= Len(log[f])
          /\ \A o \in 1 .. Len(log[f]) : log'[f][o] = log[f][o]
      BY <3>1, <3>2
    <3>4. /\ committed[f] \in Nat /\ pos[f] \in Nat /\ late[f] \in Nat
      BY DEF TypeOK, BrokerType, ConsumerType
    <3>5. /\ UNCHANGED <<committed, late, landed, pos, held, flush, main>>
      BY <2>1 DEF Produce, delta, consumer, records, pool, loop
    <3>6. ASSUME NEW n \in Nat, n <= Len(log[f]),
                 NEW o \in 1 .. n
          PROVE  log'[f][o] = log[f][o]
      BY <3>3, <3>6
    <3>7. OffsetsExist(f)'
      BY <3>3, <3>4, <3>5 DEF EntityInv, OffsetsExist
    <3>8. CommittedIsLanded(f)'
      BY <3>4, <3>5, <3>6
         DEF EntityInv, OffsetsExist, CommittedIsLanded, Decodable
    <3>9. ConsumedIsKept(f)'
      BY <3>4, <3>5, <3>6
         DEF EntityInv, OffsetsExist, ConsumedIsKept, Proceeds, Decodable
    <3>10. WrittenIsLanded(f)'
      BY <3>5 DEF EntityInv, WrittenIsLanded
    <3>11. LateIsLanded(f)'
      BY <3>4, <3>5, <3>6
         DEF EntityInv, OffsetsExist, LateIsLanded, Decodable
    <3>12. QED
      BY <3>7, <3>8, <3>9, <3>10, <3>11 DEF EntityInv
  <2>2. CASE Age(e) \/ LoseAssignment(e)
    <3>1. UNCHANGED <<log, committed, late, landed, pos, held, flush, main>>
      BY <2>2 DEF Age, LoseAssignment, broker, delta, consumer, records, pool,
                  loop
    <3>2. QED
      BY <3>1, Untouched
  <2>3. CASE LateCommit(e)
    <3>1. UNCHANGED <<log, landed, pos, held, flush, main>>
      BY <2>3 DEF LateCommit, delta, consumer, records, pool, loop
    <3>2. CASE f # e
      <4>1. committed'[f] = committed[f] /\ late'[f] = late[f]
        BY <2>3, <3>2 DEF LateCommit
      <4>2. QED
        BY <3>1, <4>1, Untouched
    <3>3. CASE f = e
      <4>1. committed'[f] = late[f] /\ late'[f] = 0
        BY <2>3, <3>3 DEF LateCommit, TypeOK, BrokerType
      <4>2. Len(log[f]) \in Nat
        BY DEF TypeOK, BrokerType
      <4>3. OffsetsExist(f)'
        BY <3>1, <4>1, <4>2 DEF EntityInv, OffsetsExist
      <4>4. CommittedIsLanded(f)' /\ LateIsLanded(f)'
        BY <3>1, <4>1 DEF EntityInv, CommittedIsLanded, LateIsLanded, Decodable
      <4>5. ConsumedIsKept(f)' /\ WrittenIsLanded(f)'
        BY <3>1
           DEF EntityInv, ConsumedIsKept, WrittenIsLanded, Proceeds, Decodable
      <4>6. QED
        BY <4>3, <4>4, <4>5 DEF EntityInv
    <3>4. QED
      BY <3>2, <3>3
  <2>4. QED
    BY <2>1, <2>2, <2>3
<1>4. QED
  BY <1>1, <1>2, <1>3

(* What a poll hands to the loop is, after it, consumed and buffered. *)
LEMMA FetchedDelivery ==
  ASSUME DeliveryInv, NEW e \in Entities, NEW k \in Nat,
         k <= Remaining(e), k <= Available(e), Fetched(e, k), main = "loop",
         log' = log, committed' = committed, landed' = landed,
         flush'[e] \notin Written
  PROVE  EntityInv(e)'
<1> DEFINE start == IF status[e] = "assigned" THEN pos[e] ELSE committed[e]
           fresh == Decodable(e, start, start + k)
<1>1. /\ pos'[e] = start + k
      /\ held'[e] = held[e] \cup fresh
      /\ late'[e] = late[e] \/ late'[e] = 0
  BY DEF Fetched, PollAssigned, PollJoins, Buffered, DeliveryInv, TypeOK,
         BrokerType, ConsumerType, RecordsType
<1>2. start \in Nat /\ Len(log[e]) \in Nat
  BY DEF DeliveryInv, TypeOK, BrokerType, ConsumerType
<1>3. start + k <= Len(log[e])
  BY <1>2 DEF Available
<1>4. Decodable(e, 0, start) \subseteq held[e] \cup landed[e]
  BY DEF DeliveryInv, EntityInv, ConsumedIsKept, CommittedIsLanded, Proceeds
<1>5. Decodable(e, 0, start + k) \subseteq Decodable(e, 0, start) \cup fresh
  BY <1>2 DEF Decodable
<1>6. EntityInv(e) /\ late'[e] <= Len(log[e])
  BY <1>1, <1>2 DEF DeliveryInv, EntityInv, OffsetsExist
<1>7. OffsetsExist(e)'
  BY <1>1, <1>3, <1>6 DEF EntityInv, OffsetsExist
<1>8. CommittedIsLanded(e)' /\ WrittenIsLanded(e)'
  BY <1>6 DEF EntityInv, CommittedIsLanded, WrittenIsLanded, Decodable
<1>9. LateIsLanded(e)'
  BY <1>1, <1>6 DEF EntityInv, LateIsLanded, Decodable
<1>10. ConsumedIsKept(e)'
  <2>1. Decodable(e, 0, start + k) \subseteq held'[e] \cup landed[e]
    BY <1>1, <1>4, <1>5
  <2>2. (Decodable(e, 0, pos[e]))' = Decodable(e, 0, start + k)
    BY <1>1 DEF Decodable
  <2>3. QED
    BY <2>1, <2>2 DEF ConsumedIsKept
<1>11. QED
  BY <1>7, <1>8, <1>9, <1>10 DEF EntityInv

(* Every turn leaves the acting entity, and the others, as EntityInv says. *)
LEMMA TurnDelivery ==
  ASSUME DeliveryInv, NEW e \in Entities, Turn(e)
  PROVE  DeliveryInv'
<1> USE DEF DeliveryInv
<1>1. TypeOK'
  BY TurnType
<1>2. main = "loop"
  BY DEF Turn, SkipTurn, SurfaceFailure, IdleTurn, FullTurn, DeliveringTurn,
         EmptyTurn, JoiningTurn, PollRaises, Polls, Ready, MyTurn
<1>3. flush \in [Entities -> FlushStates]
  BY DEF TypeOK, PoolType
<1>4. ASSUME Ready(e)
      PROVE  flush[e] = "none"
  BY <1>3, <1>4 DEF Ready, Busy, FlushStates
<1>5. ASSUME EndTurn(e), flush[e] = "none"
      PROVE  /\ QueueOK'
             /\ flush'[e] \notin Written
             /\ \A f \in Entities \ {e} : flush'[f] = flush[f]
  <2>1. QueueOK'
    BY <1>5, QueueEndTurn
  <2>2. flush'[e] \in {"none", "queued"}
    BY <1>3, <1>5 DEF EndTurn, pool
  <2>3. \A f \in Entities \ {e} : flush'[f] = flush[f]
    BY <1>3, <1>5 DEF EndTurn, pool
  <2>4. QED
    BY <2>1, <2>2, <2>3 DEF Written
<1>6. ASSUME NEW f \in Entities, UNCHANGED <<broker, delta, consumer, records>>,
             flush'[f] = flush[f] \/ flush'[f] \notin Written
      PROVE  EntityInv(f)'
  <2>1. UNCHANGED <<log, committed, late, landed, pos, held>>
    BY <1>6 DEF broker, delta, consumer, records
  <2>2. flush'[f] \in Written => held'[f] \subseteq landed'[f]
    BY <1>6, <2>1 DEF EntityInv, WrittenIsLanded
  <2>3. Proceeds(f)
    BY <1>2 DEF Proceeds
  <2>4. QED
    BY <2>1, <2>2, <2>3, Frame
<1>7. CASE SkipTurn(e) \/ SurfaceFailure(e)
  <2>1. /\ UNCHANGED <<broker, delta, consumer, records>>
        /\ UNCHANGED <<flush, queue>>
    BY <1>7 DEF SkipTurn, SurfaceFailure, pool
  <2>2. QueueOK'
    BY <2>1, QueueUnchanged
  <2>3. QED
    BY <1>1, <1>6, <2>1, <2>2
<1>8. CASE IdleTurn(e) \/ FullTurn(e)
  <2>1. /\ UNCHANGED <<broker, delta, consumer, records>>
        /\ EndTurn(e) /\ flush[e] = "none"
    BY <1>4, <1>8 DEF IdleTurn, FullTurn
  <2>2. \A f \in Entities : flush'[f] = flush[f] \/ flush'[f] \notin Written
    BY <1>5, <2>1
  <2>3. QED
    BY <1>1, <1>5, <1>6, <2>1, <2>2
<1>9. ASSUME NEW k \in Nat, k <= Remaining(e), k <= Available(e),
             Fetched(e, k), UNCHANGED <<log, committed, delta>>,
             EndTurn(e), Ready(e)
      PROVE  DeliveryInv'
  <2>1. /\ flush'[e] \notin Written
        /\ \A f \in Entities \ {e} : flush'[f] = flush[f]
        /\ QueueOK'
    BY <1>4, <1>5, <1>9
  <2>2. EntityInv(e)'
    BY <1>2, <1>9, <2>1, FetchedDelivery DEF delta
  <2>3. ASSUME NEW f \in Entities \ {e} PROVE EntityInv(f)'
    <3>1. /\ log'[f] = log[f] /\ committed'[f] = committed[f]
          /\ landed'[f] = landed[f]
      BY <1>9 DEF delta
    <3>2. /\ pos'[f] = pos[f] /\ held'[f] = held[f] /\ late'[f] = late[f]
      BY <1>9 DEF Fetched, PollAssigned, PollJoins, Buffered, TypeOK,
                  BrokerType, ConsumerType, RecordsType
    <3>3. QED
      BY <1>2, <2>1, <3>1, <3>2, Untouched
  <2>4. QED
    BY <1>1, <2>1, <2>2, <2>3
<1>10. CASE DeliveringTurn(e)
  <2>1. PICK k \in 1 .. Lesser(Remaining(e), Available(e)) : Fetched(e, k)
    BY <1>10 DEF DeliveringTurn
  <2>2. k \in Nat /\ k <= Remaining(e) /\ k <= Available(e)
    BY <2>1, RemainingAvailable
  <2>3. UNCHANGED <<log, committed, delta>> /\ EndTurn(e) /\ Ready(e)
    BY <1>10 DEF DeliveringTurn, Polls
  <2>4. QED
    BY <1>9, <2>1, <2>2, <2>3
<1>11. CASE EmptyTurn(e)
  <2>1. UNCHANGED <<log, committed, delta>> /\ EndTurn(e) /\ Ready(e)
        /\ Fetched(e, 0)
    BY <1>11 DEF EmptyTurn, Polls
  <2>2. 0 \in Nat /\ 0 <= Remaining(e) /\ 0 <= Available(e)
    <3>1. Remaining(e) \in Int /\ Remaining(e) > 0
      BY <1>11, RemainingAvailable DEF EmptyTurn, Polls
    <3>2. pos[e] <= Len(log[e]) /\ committed[e] <= Len(log[e])
      BY DEF EntityInv, OffsetsExist
    <3>3. /\ pos[e] \in Nat /\ committed[e] \in Nat /\ Len(log[e]) \in Nat
      BY DEF TypeOK, BrokerType, ConsumerType
    <3>4. QED
      BY <3>1, <3>2, <3>3 DEF Available
  <2>3. QED
    BY <1>9, <2>1, <2>2
<1>12. CASE JoiningTurn(e)
  <2>1. /\ UNCHANGED <<log, committed, late, landed, held>>
        /\ EndTurn(e) /\ flush[e] = "none"
        /\ pos' = [pos EXCEPT ![e] = 0]
    BY <1>4, <1>12 DEF JoiningTurn, Polls, Rejoin, broker, delta, records
  <2>2. pos'[e] = 0 /\ \A f \in Entities \ {e} : pos'[f] = pos[f]
    BY <2>1 DEF TypeOK, ConsumerType
  <2>3. EntityInv(e)'
    BY <1>5, <2>1, <2>2, Frame
  <2>4. ASSUME NEW f \in Entities \ {e} PROVE EntityInv(f)'
    BY <1>2, <1>5, <2>1, <2>2, Untouched
  <2>5. QED
    BY <1>1, <1>5, <2>1, <2>3, <2>4
<1>13. CASE PollRaises(e)
  <2>1. /\ UNCHANGED <<broker, delta, records, pool>>
        /\ Ready(e) /\ main' = "raising"
    BY <1>13 DEF PollRaises, Polls
  <2>2. UNCHANGED <<log, committed, late, landed, held, flush, queue>>
    BY <2>1 DEF broker, delta, records, pool
  <2>3. QueueOK'
    BY <2>2, QueueUnchanged
  <2>4. ASSUME NEW f \in Entities \ {e} PROVE EntityInv(f)'
    <3>1. pos'[f] = pos[f]
      BY <1>13 DEF PollRaises, TypeOK, ConsumerType
    <3>2. QED
      BY <1>2, <2>2, <3>1, Untouched
  <2>5. EntityInv(e)'
    <3>1. flush'[e] = "none" /\ ~Proceeds(e)'
      BY <1>4, <2>1, <2>2 DEF Proceeds, InFlight, OnWorker
    <3>2. pos'[e] <= Len(log[e])
      <4>1. /\ pos[e] \in Nat /\ Len(log[e]) \in Nat /\ pos[e] <= Len(log[e])
        BY DEF TypeOK, BrokerType, ConsumerType, EntityInv, OffsetsExist
      <4>2. CASE pos' = pos
        BY <4>1, <4>2
      <4>3. CASE status[e] = "assigned" /\ pos' # pos
        <5>1. PICK k \in 0 .. Lesser(Remaining(e), Available(e)) :
                     pos' = [pos EXCEPT ![e] = @ + k]
          BY <1>13, <4>3 DEF PollRaises
        <5>2. k \in Nat /\ k <= Available(e)
          BY <5>1, RemainingAvailable
        <5>3. pos'[e] = pos[e] + k
          BY <5>1 DEF TypeOK, ConsumerType
        <5>4. QED
          BY <4>1, <4>3, <5>2, <5>3 DEF Available
      <4>4. QED
        BY <1>13, <4>2, <4>3 DEF PollRaises
    <3>3. EntityInv(e)
      OBVIOUS
    <3>4. OffsetsExist(e)' /\ WrittenIsLanded(e)' /\ ConsumedIsKept(e)'
      BY <2>2, <3>1, <3>2, <3>3
         DEF EntityInv, OffsetsExist, WrittenIsLanded, ConsumedIsKept
    <3>5. CommittedIsLanded(e)' /\ LateIsLanded(e)'
      BY <2>2, <3>3 DEF EntityInv, CommittedIsLanded, LateIsLanded, Decodable
    <3>6. QED
      BY <3>4, <3>5 DEF EntityInv
  <2>6. QED
    BY <1>1, <2>3, <2>4, <2>5
<1>14. QED
  BY <1>7, <1>8, <1>10, <1>11, <1>12, <1>13 DEF Turn

(* A commit request in flight commits what its flush has written. *)
LEMMA PendingDelivery ==
  ASSUME TypeOK, NEW f \in Entities, EntityInv(f), Proceeds(f), Pending(f),
         log'[f] = log[f], committed'[f] = committed[f],
         landed'[f] = landed[f], late'[f] = pos[f],
         pos'[f] = 0, held'[f] = {}
  PROVE  EntityInv(f)'
<1>1. Decodable(f, 0, pos[f]) \subseteq landed[f]
  BY DEF Pending, EntityInv, ConsumedIsKept, WrittenIsLanded, Written
<1>2. Len(log[f]) \in Nat /\ pos[f] <= Len(log[f])
  BY DEF TypeOK, BrokerType, EntityInv, OffsetsExist
<1>3. OffsetsExist(f)' /\ WrittenIsLanded(f)'
  BY <1>2 DEF EntityInv, OffsetsExist, WrittenIsLanded
<1>4. CommittedIsLanded(f)' /\ LateIsLanded(f)' /\ ConsumedIsKept(f)'
  BY <1>1 DEF EntityInv, CommittedIsLanded, LateIsLanded, ConsumedIsKept,
              Decodable
<1>5. QED
  BY <1>3, <1>4 DEF EntityInv

(* The steps of a flush of e: only the write adds rows, and a commit takes *)
(* the position of an entity whose consumed rows are all in the table.     *)
LEMMA FlushDelivery ==
  ASSUME DeliveryInv, NEW e \in Entities, FlushStep(e)
  PROVE  DeliveryInv'
<1> USE DEF DeliveryInv
<1>1. TypeOK'
  BY FlushType
<1>2. /\ flush[e] \in OnWorker
      /\ \E state \in {"none", "raised", "committing", "acknowledged",
                       "reporting"} : Goto(e, state)
      /\ UNCHANGED <<log, loop>>
  BY DEF FlushStep, Write, WriteFails, BrokerCommits, CommitReturns,
         CommitFails, CommitFindsAssignmentLost, CommitTimesOut, Recover,
         Report, LagRaises, InCommit, At, OnWorker, broker
<1>3. QueueOK'
  <2>1. flush[e] # "queued"
    BY <1>2 DEF OnWorker
  <2>2. QED
    BY <1>2, <2>1, QueueGoto
<1>4. main' = main /\ Proceeds(e)
  BY <1>2 DEF loop, Proceeds, InFlight
<1>5. ASSUME NEW f \in Entities \ {e} PROVE EntityInv(f)'
  <2>1. flush'[f] = flush[f]
    BY <1>2 DEF Goto, TypeOK, PoolType
  <2>2. /\ landed'[f] = landed[f] /\ held'[f] = held[f]
        /\ pos'[f] = pos[f]
        /\ committed'[f] = committed[f] /\ late'[f] = late[f]
    BY DEF FlushStep, Write, WriteFails, AppendBatch, BrokerCommits,
           CommitReturns, CommitFails, CommitFindsAssignmentLost,
           CommitTimesOut, Recover, Clear, Report, LagRaises, broker, delta,
           consumer, records, TypeOK, BrokerType, DeltaType, ConsumerType,
           RecordsType
  <2>3. QED
    BY <1>2, <1>4, <2>1, <2>2, Untouched
<1>6. /\ EntityInv(e) /\ log'[e] = log[e]
      /\ \A state : Goto(e, state) => flush'[e] = state
  BY <1>2 DEF Goto, TypeOK, PoolType
<1>7. /\ UNCHANGED delta => landed' = landed
      /\ UNCHANGED records => held' = held
      /\ UNCHANGED consumer => pos' = pos
      /\ UNCHANGED broker => committed' = committed /\ late' = late
  BY DEF delta, records, consumer, broker
<1>8. AppendBatch(e) => landed'[e] = landed[e] \cup held[e]
  BY DEF AppendBatch, TypeOK, DeltaType
<1>9. Clear(e) => held'[e] = {}
  BY DEF Clear, TypeOK, RecordsType
<1>10. Recover(e) => pos'[e] = 0 /\ held'[e] = {}
  BY <1>9 DEF Recover, TypeOK, ConsumerType
<1>11. EntityInv(e)'
  <2>1. CASE Write(e)
    BY <1>4, <1>6, <1>7, <1>8, <2>1, Frame DEF Write
  <2>2. CASE WriteFails(e)
    <3>1. flush'[e] = "none" /\ landed[e] \subseteq landed'[e]
      BY <1>6, <1>7, <1>8, <2>2 DEF WriteFails
    <3>2. QED
      BY <1>4, <1>6, <1>7, <2>2, <3>1, Frame DEF WriteFails, Written
  <2>3. CASE BrokerCommits(e)
    <3>1. /\ committed'[e] = pos[e] /\ late' = late /\ landed' = landed
          /\ pos' = pos /\ held' = held /\ flush'[e] = "acknowledged"
          /\ flush[e] = "committing"
      BY <1>6, <1>7, <2>3 DEF BrokerCommits, At, TypeOK, BrokerType
    <3>2. Decodable(e, 0, pos[e]) \subseteq held[e] \cup landed[e]
      BY <1>4, <1>6 DEF EntityInv, ConsumedIsKept
    <3>3. held[e] \subseteq landed[e]
      BY <1>6, <3>1 DEF EntityInv, WrittenIsLanded, Written
    <3>4. OffsetsExist(e)' /\ WrittenIsLanded(e)' /\ ConsumedIsKept(e)'
      BY <1>6, <3>1, <3>2, <3>3
         DEF EntityInv, OffsetsExist, WrittenIsLanded, ConsumedIsKept,
             Decodable
    <3>5. CommittedIsLanded(e)' /\ LateIsLanded(e)'
      BY <1>6, <3>1, <3>2, <3>3
         DEF EntityInv, CommittedIsLanded, LateIsLanded, Decodable
    <3>6. QED
      BY <3>4, <3>5 DEF EntityInv
  <2>4. CASE CommitReturns(e)
    <3>1. /\ UNCHANGED <<committed, late, landed, pos, held>>
          /\ flush[e] = "acknowledged"
      BY <1>7, <2>4 DEF CommitReturns, At
    <3>2. held[e] \subseteq landed[e]
      BY <1>6, <3>1 DEF EntityInv, WrittenIsLanded, Written
    <3>3. QED
      BY <1>4, <1>6, <3>1, <3>2, Frame
  <2>5. CASE CommitFails(e)
    <3>1. flush'[e] = "none"
      BY <1>6, <2>5 DEF CommitFails
    <3>2. QED
      BY <1>4, <1>6, <1>7, <2>5, <3>1, Frame DEF CommitFails, Written
  <2>6. CASE CommitFindsAssignmentLost(e)
    BY <1>6, <1>7, <1>10, <2>6, Frame DEF CommitFindsAssignmentLost
  <2>7. CASE CommitTimesOut(e)
    <3>1. /\ committed' = committed /\ landed' = landed
          /\ pos'[e] = 0 /\ held'[e] = {}
          /\ late'[e] = IF Pending(e) THEN pos[e] ELSE late[e]
      BY <1>7, <1>10, <2>7 DEF CommitTimesOut, TypeOK, BrokerType
    <3>2. CASE ~Pending(e)
      BY <1>6, <3>1, <3>2, Frame
    <3>3. CASE Pending(e)
      BY <1>4, <1>6, <3>1, <3>3, PendingDelivery
    <3>4. QED
      BY <3>2, <3>3
  <2>8. CASE Report(e)
    <3>1. /\ UNCHANGED <<committed, late, landed, pos>>
          /\ flush[e] = "reporting" /\ held'[e] = {}
      BY <1>7, <1>9, <2>8 DEF Report, At
    <3>2. held[e] \subseteq landed[e]
      BY <1>6, <3>1 DEF EntityInv, WrittenIsLanded, Written
    <3>3. QED
      BY <1>4, <1>6, <3>1, <3>2, Frame
  <2>9. CASE LagRaises(e)
    <3>1. /\ UNCHANGED <<committed, late, landed, pos, held>>
          /\ flush[e] = "reporting"
      BY <1>7, <2>9 DEF LagRaises, At
    <3>2. held[e] \subseteq landed[e]
      BY <1>6, <3>1 DEF EntityInv, WrittenIsLanded, Written
    <3>3. QED
      BY <1>4, <1>6, <3>1, <3>2, Frame
  <2>10. QED
    BY <2>1, <2>2, <2>3, <2>4, <2>5, <2>6, <2>7, <2>8, <2>9 DEF FlushStep
<1>12. QED
  BY <1>1, <1>3, <1>5, <1>11

(* A kill forgets every position; the requests in flight commit what their *)
(* flush has written.                                                      *)
LEMMA ProcessDelivery ==
  ASSUME DeliveryInv,
         StartFlush \/ Interrupt \/ Return \/ Exit \/ Crash \/ Restart
  PROVE  DeliveryInv'
<1> USE DEF DeliveryInv
<1>1. TypeOK'
  BY ProcessType
<1>2. CASE StartFlush
  <2>1. /\ queue # << >> /\ queue \in Seq(Entities)
        /\ flush \in [Entities -> FlushStates]
        /\ flush' = [flush EXCEPT ![Head(queue)] = "writing"]
        /\ queue' = Tail(queue)
    BY <1>2 DEF StartFlush, TypeOK, PoolType
  <2>2. /\ Head(queue) = queue[1] /\ 1 \in 1 .. Len(queue)
        /\ Head(queue) \in Entities
        /\ Len(queue') = Len(queue) - 1
        /\ \A i \in 1 .. Len(queue') :
             /\ queue'[i] = queue[i + 1] /\ i + 1 \in 1 .. Len(queue)
             /\ queue[i + 1] \in Entities
    BY <2>1
  <2>3. flush[Head(queue)] = "queued"
    BY <2>2 DEF QueueOK
  <2>4. QueueOK'
    <3>1. ASSUME NEW i \in 1 .. Len(queue')
          PROVE  flush'[queue'[i]] = "queued"
      <4>1. queue[i + 1] # queue[1]
        BY <2>2 DEF QueueOK
      <4>2. QED
        BY <2>1, <2>2, <4>1 DEF QueueOK
    <3>2. ASSUME NEW i \in 1 .. Len(queue'), NEW j \in 1 .. Len(queue'),
                 queue'[i] = queue'[j]
          PROVE  i = j
      <4>1. queue[i + 1] = queue[j + 1]
        BY <2>2, <3>2
      <4>2. i + 1 = j + 1
        BY <2>2, <4>1 DEF QueueOK
      <4>3. QED
        BY <4>2
    <3>3. QED
      BY <3>1, <3>2 DEF QueueOK
  <2>5. ASSUME NEW f \in Entities PROVE EntityInv(f)'
    <3>1. UNCHANGED <<log, committed, late, landed, pos, held, main>>
      BY <1>2 DEF StartFlush, broker, delta, consumer, records, loop
    <3>2. CASE f = Head(queue)
      <4>1. flush'[f] = "writing" /\ Proceeds(f)
        BY <2>1, <2>2, <2>3, <3>2 DEF Proceeds, InFlight
      <4>2. QED
        BY <3>1, <4>1, Frame DEF Written
    <3>3. CASE f # Head(queue)
      <4>1. flush'[f] = flush[f]
        BY <2>1, <2>2, <3>3
      <4>2. QED
        BY <3>1, <4>1, Untouched
    <3>4. QED
      BY <3>2, <3>3
  <2>6. QED
    BY <1>1, <2>4, <2>5
<1>3. CASE Interrupt \/ Return \/ Restart
  <2>1. /\ UNCHANGED <<log, committed, late, landed, pos, held, flush, queue>>
        /\ main' \in {"loop", "down"} => main \in {"loop", "down"}
    BY <1>3 DEF Interrupt, Return, Restart, broker, delta, consumer, records,
                pool
  <2>2. QueueOK'
    BY <2>1, QueueUnchanged
  <2>3. ASSUME NEW f \in Entities PROVE EntityInv(f)'
    BY <2>1, Untouched
  <2>4. QED
    BY <1>1, <2>2, <2>3
<1>4. CASE Exit \/ Crash
  <2>1. /\ UNCHANGED <<log, committed, landed>> /\ LoseMemory
    BY <1>4 DEF Exit, Crash, broker, delta
  <2>2. QueueOK'
    BY <2>1 DEF LoseMemory, QueueOK
  <2>3. ASSUME NEW f \in Entities PROVE EntityInv(f)'
    <3>1. pos'[f] = 0 /\ held'[f] = {}
      BY <2>1 DEF LoseMemory
    <3>2. CASE late'[f] = late[f]
      BY <2>1, <3>1, <3>2, Frame
    <3>3. CASE late'[f] # late[f]
      <4>1. Pending(f) /\ late'[f] = pos[f]
        BY <1>4, <3>3 DEF Exit, Crash, broker
      <4>2. Proceeds(f)
        BY <4>1 DEF Pending, Proceeds, InFlight, OnWorker
      <4>3. QED
        BY <2>1, <3>1, <4>1, <4>2, PendingDelivery
    <3>4. QED
      BY <3>2, <3>3
  <2>4. QED
    BY <1>1, <2>2, <2>3
<1>5. QED
  BY <1>2, <1>3, <1>4

LEMMA StutterDelivery == DeliveryInv /\ UNCHANGED vars => DeliveryInv'
<1> SUFFICES ASSUME DeliveryInv, UNCHANGED vars PROVE DeliveryInv'
  OBVIOUS
<1>1. UNCHANGED <<log, committed, late, landed, pos, held, flush, queue, main>>
  BY DEF vars, broker, delta, consumer, records, pool, loop
<1>2. TypeOK' /\ QueueOK'
  BY <1>1, StutterType, QueueUnchanged DEF DeliveryInv
<1>3. ASSUME NEW f \in Entities PROVE EntityInv(f)'
  BY <1>1, Untouched DEF DeliveryInv
<1>4. QED
  BY <1>2, <1>3 DEF DeliveryInv

(* The inductive invariant behind at-least-once delivery. *)
THEOREM DeliveryInvariant == Spec => []DeliveryInv
<1>1. DeliveryInv /\ [Next]_vars => DeliveryInv'
  BY EnvironmentDelivery, TurnDelivery, FlushDelivery, ProcessDelivery,
     StutterDelivery DEF Next
<1>2. QED
  BY InitDelivery, <1>1, PTL DEF Spec

(* At-least-once delivery: whatever is committed is in the Bronze tables,  *)
(* whatever fails, and however often.                                      *)
THEOREM AtLeastOnce == Spec => []NoLoss
<1>1. DeliveryInv => NoLoss
  BY DEF DeliveryInv, EntityInv, NoLoss
<1>2. QED
  BY DeliveryInvariant, <1>1, PTL

-----------------------------------------------------------------------------
(* What leaves memory, and who may touch a buffer that is being flushed.   *)
(* A turn keeps to an entity that no worker flushes and only adds to its   *)
(* buffer; a flush clears the buffer only after its write.                 *)

LEMMA TurnKeepsBuffers ==
  ASSUME TypeOK, NEW e \in Entities, Turn(e), NEW f \in Entities
  PROVE  /\ held[f] \subseteq held'[f]
         /\ flush[f] \in InFlight => held'[f] = held[f] /\ pos'[f] = pos[f]
<1>1. held \in [Entities -> SUBSET Nat] /\ pos \in [Entities -> Nat]
  BY DEF TypeOK, RecordsType, ConsumerType
<1>2. CASE SkipTurn(e) \/ SurfaceFailure(e) \/ IdleTurn(e) \/ FullTurn(e)
  BY <1>2 DEF SkipTurn, SurfaceFailure, IdleTurn, FullTurn, consumer, records
<1>3. ASSUME Polls(e) PROVE flush[e] \notin InFlight
  BY <1>3 DEF Polls, Ready, Busy
<1>4. CASE DeliveringTurn(e) \/ EmptyTurn(e)
  <2>1. PICK start, k : Buffered(e, start, k)
    BY <1>4 DEF DeliveringTurn, EmptyTurn, Fetched, PollAssigned, PollJoins
  <2>2. QED
    BY <1>1, <1>3, <1>4, <2>1 DEF Buffered, DeliveringTurn, EmptyTurn
<1>5. CASE JoiningTurn(e) \/ PollRaises(e)
  BY <1>1, <1>3, <1>5 DEF JoiningTurn, Rejoin, PollRaises, records
<1>6. QED
  BY <1>2, <1>4, <1>5 DEF Turn

LEMMA FlushKeepsBuffers ==
  ASSUME DeliveryInv, NEW e \in Entities, FlushStep(e), NEW f \in Entities
  PROVE  /\ held[f] \ held'[f] \subseteq landed'[f]
         /\ flush'[f] \in InFlight => held'[f] = held[f] /\ pos'[f] = pos[f]
<1>1. /\ held \in [Entities -> SUBSET Nat] /\ pos \in [Entities -> Nat]
      /\ flush \in [Entities -> FlushStates]
  BY DEF DeliveryInv, TypeOK, RecordsType, ConsumerType, PoolType
<1>2. WrittenIsLanded(f)
  BY DEF DeliveryInv, EntityInv
<1>3. CASE \/ Write(e) \/ WriteFails(e) \/ BrokerCommits(e) \/ CommitReturns(e)
           \/ CommitFails(e) \/ LagRaises(e)
  BY <1>3 DEF Write, WriteFails, BrokerCommits, CommitReturns, CommitFails, LagRaises,
              records, consumer
<1>4. CASE CommitFindsAssignmentLost(e) \/ CommitTimesOut(e) \/ Report(e)
  <2>1. /\ held' = [held EXCEPT ![e] = {}] /\ UNCHANGED delta
        /\ flush' = [flush EXCEPT ![e] = "none"]
        /\ flush[e] \in Written
        /\ \A g \in Entities \ {e} : pos'[g] = pos[g]
    BY <1>1, <1>4 DEF CommitFindsAssignmentLost, CommitTimesOut, Report, Recover, Clear, Goto,
                      InCommit, At, Written, consumer
  <2>2. QED
    BY <1>1, <1>2, <2>1 DEF WrittenIsLanded, delta, InFlight, OnWorker
<1>5. QED
  BY <1>3, <1>4 DEF FlushStep

LEMMA OtherKeepsBuffers ==
  ASSUME NEW f \in Entities,
         \/ \E e \in Entities : Produce(e) \/ Age(e) \/ LoseAssignment(e) \/ LateCommit(e)
         \/ StartFlush \/ Interrupt \/ Return \/ Exit \/ Crash \/ Restart
         \/ UNCHANGED vars
  PROVE  /\ main' # "down" => held[f] \subseteq held'[f]
         /\ flush'[f] \in InFlight => held'[f] = held[f] /\ pos'[f] = pos[f]
<1>1. CASE Exit \/ Crash
  BY <1>1 DEF Exit, Crash, LoseMemory, InFlight, OnWorker
<1>2. CASE UNCHANGED <<held, pos>>
  BY <1>2
<1>3. QED
  BY <1>1, <1>2
  DEF Produce, Age, LoseAssignment, LateCommit, StartFlush, Interrupt, Return, Restart, vars,
      records, consumer

(* Rows leave the memory of a process that lives on only once they are in  *)
(* their Bronze table: no clearing of a buffer, after a lost assignment or *)
(* a hung commit included, drops a row that was not written.               *)
THEOREM OnlyLandedIsDropped == Spec => DropsOnlyLanded
<1>1. DeliveryInv /\ [Next]_vars
        => (main' # "down" =>
              \A e \in Entities : held[e] \ held'[e] \subseteq landed'[e])
  <2> SUFFICES ASSUME DeliveryInv, [Next]_vars, main' # "down", NEW f \in Entities
               PROVE  held[f] \ held'[f] \subseteq landed'[f]
    OBVIOUS
  <2>1. CASE \E e \in Entities : Turn(e)
    BY <2>1, TurnKeepsBuffers DEF DeliveryInv
  <2>2. CASE \E e \in Entities : FlushStep(e)
    BY <2>2, FlushKeepsBuffers
  <2>3. QED
    BY <2>1, <2>2, OtherKeepsBuffers DEF Next
<1>2. QED
  BY <1>1, DeliveryInvariant, PTL DEF Spec, DropsOnlyLanded

(* From the moment a flush is submitted until it is over, neither the loop *)
(* nor the flush changes the buffer or the position it is to commit.       *)
THEOREM FlushesOwnTheirBuffers == Spec => FlushOwnsBuffer
<1>1. DeliveryInv /\ [Next]_vars
        => \A e \in Entities : flush[e] \in InFlight /\ flush'[e] \in InFlight
             => held'[e] = held[e] /\ pos'[e] = pos[e]
  <2> SUFFICES ASSUME DeliveryInv, [Next]_vars, NEW f \in Entities,
                      flush[f] \in InFlight, flush'[f] \in InFlight
               PROVE  held'[f] = held[f] /\ pos'[f] = pos[f]
    OBVIOUS
  <2>1. CASE \E e \in Entities : Turn(e)
    BY <2>1, TurnKeepsBuffers DEF DeliveryInv
  <2>2. CASE \E e \in Entities : FlushStep(e)
    BY <2>2, FlushKeepsBuffers
  <2>3. QED
    BY <2>1, <2>2, OtherKeepsBuffers DEF Next
<1>2. QED
  BY <1>1, DeliveryInvariant, PTL DEF Spec, FlushOwnsBuffer

-----------------------------------------------------------------------------
(* A full buffer comes with an offset to commit: only a poll that delivers *)
(* events fills a buffer, and it stores their offset; a rejoin forgets the *)
(* offset but only of a buffer with room left.                             *)

CanCommit(e) ==
  size[e] >= MaxBatch[e] /\ flush[e] \notin {"reporting", "raised"} => stored[e]

LEMMA CanCommitFrame ==
  ASSUME NEW e \in Entities, CanCommit(e), size'[e] = size[e], stored'[e] = stored[e],
         flush[e] \in {"reporting", "raised"} => flush'[e] = flush[e]
  PROVE  CanCommit(e)'
BY DEF CanCommit

(* A buffer that a step leaves with room, or with an offset.               *)
LEMMA RoomOrOffset ==
  ASSUME NEW e \in Entities, size'[e] \in Nat, size'[e] < MaxBatch[e] \/ stored'[e]
  PROVE  CanCommit(e)'
BY BatchAssumption DEF CanCommit

LEMMA TurnCanCommit ==
  ASSUME TypeOK, FullBufferCanCommit, NEW e \in Entities, Turn(e)
  PROVE  FullBufferCanCommit'
<1>1. TypeOK'
  BY TurnType
<1>2. \A f \in Entities : size'[f] \in Nat /\ size[f] \in Nat /\ MaxBatch[f] \in Nat \ {0}
  BY <1>1, BatchAssumption DEF TypeOK, RecordsType
<1>3. ASSUME EndTurn(e), Ready(e)
      PROVE  flush[e] \notin {"reporting", "raised"} /\ \A f \in Entities \ {e} : flush'[f] = flush[f]
  BY <1>3 DEF EndTurn, pool, TypeOK, PoolType, Ready, Busy, InFlight, OnWorker
<1>4. ASSUME NEW f \in Entities \ {e} PROVE CanCommit(f)'
  <2>1. size'[f] = size[f] /\ stored'[f] = stored[f]
    BY DEF TypeOK, RecordsType, ConsumerType, Turn, SkipTurn, SurfaceFailure, IdleTurn,
       FullTurn, DeliveringTurn, EmptyTurn, JoiningTurn, PollRaises, Fetched, PollAssigned,
       PollJoins, Buffered, Rejoin, consumer, records
  <2>2. flush'[f] = flush[f]
    BY <1>3 DEF Turn, SkipTurn, SurfaceFailure, IdleTurn, FullTurn, DeliveringTurn,
       EmptyTurn, JoiningTurn, PollRaises, Polls, pool
  <2>3. QED
    BY <2>1, <2>2, CanCommitFrame DEF FullBufferCanCommit, CanCommit
<1>5. CanCommit(e)
  BY DEF FullBufferCanCommit, CanCommit
<1>6. CanCommit(e)'
  <2>1. CASE SkipTurn(e) \/ SurfaceFailure(e)
    BY <1>5, <2>1, CanCommitFrame DEF SkipTurn, SurfaceFailure, records, consumer, pool
  <2>2. CASE IdleTurn(e) \/ FullTurn(e)
    BY <1>3, <1>5, <2>2, CanCommitFrame DEF IdleTurn, FullTurn, records, consumer
  <2>3. ASSUME Polls(e) PROVE size[e] < MaxBatch[e]
    BY <1>2, <2>3, BatchAssumption DEF Polls, Remaining, Lesser
  <2>4. CASE DeliveringTurn(e)
    <3>1. PICK k \in 1 .. Lesser(Remaining(e), Available(e)) : Fetched(e, k)
      BY <2>4 DEF DeliveringTurn
    <3>2. k > 0
      BY <3>1, RemainingAvailable
    <3>3. stored'[e]
      BY <3>1, <3>2 DEF Fetched, PollAssigned, PollJoins, TypeOK, ConsumerType
    <3>4. QED
      BY <1>2, <3>3, RoomOrOffset
  <2>5. CASE EmptyTurn(e)
    <3>1. PICK start \in Nat : Buffered(e, start, 0)
      BY <2>5 DEF EmptyTurn, Fetched, PollAssigned, PollJoins, TypeOK, ConsumerType, BrokerType
    <3>2. Cardinality(Decodable(e, start, start + 0)) = 0
      <4>1. Decodable(e, start, start + 0) = {}
        BY <3>1 DEF Decodable
      <4>2. QED
        BY <4>1, FS_EmptySet
    <3>3. size'[e] = size[e]
      <4>1. size' = [size EXCEPT ![e] = @ + Cardinality(Decodable(e, start, start + 0))]
        BY <3>1 DEF Buffered
      <4>2. QED
        BY <1>2, <3>2, <4>1 DEF TypeOK, RecordsType
    <3>4. QED
      BY <1>2, <2>3, <2>5, <3>3, RoomOrOffset DEF EmptyTurn
  <2>6. CASE JoiningTurn(e)
    BY <1>2, <2>3, <2>6, RoomOrOffset DEF JoiningTurn, records
  <2>7. CASE PollRaises(e)
    BY <1>2, <2>3, <2>7, RoomOrOffset DEF PollRaises, records
  <2>8. QED
    BY <2>1, <2>2, <2>4, <2>5, <2>6, <2>7 DEF Turn
<1>7. QED
  BY <1>4, <1>6 DEF FullBufferCanCommit, CanCommit

LEMMA FlushCanCommit ==
  ASSUME TypeOK, FullBufferCanCommit, NEW e \in Entities, FlushStep(e)
  PROVE  FullBufferCanCommit'
<1>1. TypeOK'
  BY FlushType
<1>2. \A f \in Entities : size'[f] \in Nat /\ size[f] \in Nat /\ MaxBatch[f] \in Nat \ {0}
  BY <1>1, BatchAssumption DEF TypeOK, RecordsType
<1>3. ASSUME NEW f \in Entities \ {e} PROVE CanCommit(f)'
  <2>1. size'[f] = size[f] /\ stored'[f] = stored[f] /\ flush'[f] = flush[f]
    BY DEF TypeOK, RecordsType, ConsumerType, PoolType, FlushStep, Write, WriteFails,
       BrokerCommits, CommitReturns, CommitFails, CommitFindsAssignmentLost, CommitTimesOut,
       Recover, Clear, Report, LagRaises, Goto, consumer, records
  <2>2. QED
    BY <2>1, CanCommitFrame DEF FullBufferCanCommit, CanCommit
<1>4. CanCommit(e)
  BY DEF FullBufferCanCommit, CanCommit
<1>5. CanCommit(e)'
  <2>1. CASE Write(e) \/ WriteFails(e) \/ BrokerCommits(e) \/ CommitFails(e)
    <3>1. /\ UNCHANGED <<size, stored>>
          /\ flush[e] \notin {"reporting", "raised"}
      BY <2>1 DEF Write, WriteFails, BrokerCommits, CommitFails, InCommit, At, records, consumer
    <3>2. QED
      BY <1>4, <3>1, CanCommitFrame
  <2>2. CASE CommitReturns(e) \/ LagRaises(e)
    <3>1. flush'[e] \in {"reporting", "raised"}
      BY <2>2 DEF CommitReturns, LagRaises, Goto, TypeOK, PoolType
    <3>2. QED
      BY <3>1 DEF CanCommit
  <2>3. CASE CommitFindsAssignmentLost(e) \/ CommitTimesOut(e) \/ Report(e)
    <3>1. size'[e] = 0
      BY <2>3 DEF CommitFindsAssignmentLost, CommitTimesOut, Report, Recover, Clear,
                  TypeOK, RecordsType
    <3>2. QED
      BY <1>2, <3>1, RoomOrOffset
  <2>4. QED
    BY <2>1, <2>2, <2>3 DEF FlushStep
<1>6. QED
  BY <1>3, <1>5 DEF FullBufferCanCommit, CanCommit

LEMMA OtherCanCommit ==
  ASSUME DeliveryInv, FullBufferCanCommit,
         \/ \E e \in Entities : Produce(e) \/ Age(e) \/ LoseAssignment(e) \/ LateCommit(e)
         \/ StartFlush \/ Interrupt \/ Return \/ Exit \/ Crash \/ Restart
         \/ UNCHANGED vars
  PROVE  FullBufferCanCommit'
<1>1. CASE Exit \/ Crash
  BY <1>1, BatchAssumption DEF Exit, Crash, LoseMemory, FullBufferCanCommit
<1>2. CASE StartFlush
  <2>1. /\ flush \in [Entities -> FlushStates] /\ queue \in Seq(Entities) /\ queue # << >>
        /\ flush' = [flush EXCEPT ![Head(queue)] = "writing"]
    BY <1>2 DEF StartFlush, DeliveryInv, TypeOK, PoolType
  <2>2. Head(queue) \in Entities /\ flush[Head(queue)] = "queued"
    BY <2>1 DEF DeliveryInv, QueueOK
  <2>3. \A e \in Entities : flush[e] \in {"reporting", "raised"} => flush'[e] = flush[e]
    BY <2>1, <2>2
  <2>4. QED
    BY <1>2, <2>3, CanCommitFrame
    DEF StartFlush, records, consumer, FullBufferCanCommit, CanCommit
<1>3. CASE UNCHANGED <<size, stored, flush>>
  BY <1>3 DEF FullBufferCanCommit
<1>4. QED
  BY <1>1, <1>2, <1>3
  DEF Produce, Age, LoseAssignment, LateCommit, Interrupt, Return, Restart, vars, records,
      consumer, pool

(* No flush of a full buffer is condemned to fail forever, whatever        *)
(* rebalances, errors and timeouts the consumer goes through.              *)
THEOREM FullBuffersCommit == Spec => []FullBufferCanCommit
<1>1. Init => FullBufferCanCommit
  BY BatchAssumption DEF Init, FullBufferCanCommit
<1>2. DeliveryInv /\ FullBufferCanCommit /\ [Next]_vars => FullBufferCanCommit'
  BY TurnCanCommit, FlushCanCommit, OtherCanCommit DEF Next, DeliveryInv
<1>3. QED
  BY <1>1, <1>2, DeliveryInvariant, PTL DEF Spec

-----------------------------------------------------------------------------
(* As long as nothing goes wrong.  An entity that is not flushed buffers   *)
(* the rows it has consumed and not committed, none of which is in the     *)
(* table, which holds no row past the committed offset; a flush moves the  *)
(* two offsets and the buffer on together.                                 *)

AfterWrite == {"committing", "acknowledged", "reporting"}
AfterCommit == {"acknowledged", "reporting"}

QuietOffsets(e) ==
  /\ late[e] = 0 /\ committed[e] <= pos[e]
  /\ flush[e] \in AfterCommit => committed[e] = pos[e]
  /\ flush[e] # "reporting" /\ held[e] # {} => stored[e]

QuietConsumer(e) ==
  /\ status[e] \in {"none", "joining", "assigned"}
  /\ flush[e] # "raised"
  /\ flush[e] \in InFlight => held[e] # {}
  /\ status[e] # "assigned" => pos[e] = 0 /\ held[e] = {}

QuietRows(e) ==
  /\ ~repeated[e]
  /\ IsFiniteSet(held[e]) /\ size[e] = Cardinality(held[e])
  /\ flush[e] \notin AfterCommit => held[e] = Decodable(e, committed[e], pos[e])
  /\ \A o \in landed[e] :
       o <= IF flush[e] \in AfterWrite THEN pos[e] ELSE committed[e]

QuietEntity(e) == QuietOffsets(e) /\ QuietConsumer(e) /\ QuietRows(e)

QuietInv ==
  faults = 0 => /\ main \in {"loop", "ending", "returned"}
                /\ \A e \in Entities : QuietEntity(e)

LEMMA InitQuiet == Init => QuietInv
<1> SUFFICES ASSUME Init PROVE QuietInv
  OBVIOUS
<1>1. ASSUME NEW e \in Entities PROVE QuietEntity(e)
  <2>1. Decodable(e, 0, 0) = {}
    BY DEF Decodable
  <2>2. QuietRows(e)
    BY <2>1, FS_EmptySet DEF Init, QuietRows, AfterCommit
  <2>3. QED
    BY <2>2 DEF Init, QuietEntity, QuietOffsets, QuietConsumer, AfterCommit, InFlight, OnWorker
<1>2. QED
  BY <1>1 DEF Init, QuietInv

(* A step without a fault comes from a state without one.                  *)
LEMMA StillQuiet ==
  ASSUME TypeOK, faults' = 0
  PROVE  ~Fault /\ (UNCHANGED faults => faults = 0)
BY DEF TypeOK, Fault

LEMMA QuietFrame ==
  ASSUME NEW e \in Entities, QuietEntity(e),
         log'[e] = log[e], committed'[e] = committed[e], late'[e] = late[e],
         landed'[e] = landed[e], repeated'[e] = repeated[e],
         status'[e] = status[e], pos'[e] = pos[e], stored'[e] = stored[e],
         held'[e] = held[e], size'[e] = size[e],
         \/ flush'[e] = flush[e]
         \/ flush[e] \in {"none", "queued"} /\ flush'[e] \in {"queued", "writing"} /\ held[e] # {}
         \/ flush[e] = "none" /\ flush'[e] = "none"
  PROVE  QuietEntity(e)'
<1>1. Decodable(e, committed[e], pos[e])' = Decodable(e, committed[e], pos[e])
  BY DEF Decodable
<1>2. QuietRows(e)'
  BY <1>1 DEF QuietEntity, QuietRows, AfterCommit, AfterWrite
<1>3. QED
  BY <1>2 DEF QuietEntity, QuietOffsets, QuietConsumer, AfterCommit, InFlight, OnWorker

LEMMA EnvironmentQuiet ==
  ASSUME DeliveryInv, QuietInv, NEW e \in Entities,
         Produce(e) \/ Age(e) \/ LoseAssignment(e) \/ LateCommit(e)
  PROVE  QuietInv'
<1> SUFFICES ASSUME faults' = 0
             PROVE  main' \in {"loop", "ending", "returned"} /\ \A f \in Entities : QuietEntity(f)'
  BY DEF QuietInv
<1>1. ~Fault /\ (UNCHANGED faults => faults = 0)
  BY StillQuiet DEF DeliveryInv
<1>2. faults = 0 /\ main' = main
  BY <1>1 DEF Produce, Age, LoseAssignment, LateCommit, loop
<1>3. \A f \in Entities : QuietEntity(f)
  BY <1>2 DEF QuietInv
<1>4. ~LoseAssignment(e) /\ ~LateCommit(e)
  BY <1>1, <1>3 DEF LoseAssignment, LateCommit, QuietEntity, QuietOffsets
<1>5. ASSUME NEW f \in Entities PROVE QuietEntity(f)'
  <2>1. CASE Age(e)
    BY <1>3, <2>1, QuietFrame DEF Age, broker, delta, consumer, pool
  <2>2. CASE Produce(e)
    <3>1. UNCHANGED <<committed, late, delta, consumer, records, pool>>
      BY <2>2 DEF Produce
    <3>2. PICK kind \in Kinds : log' = [log EXCEPT ![e] = Append(@, kind)]
      BY <2>2 DEF Produce
    <3>3. log[f] \in Seq(Kinds) /\ log \in [Entities -> Seq(Kinds)]
      BY DEF DeliveryInv, TypeOK, BrokerType
    <3>4. \A o \in 1 .. Len(log[f]) : log'[f][o] = log[f][o]
      BY <3>2, <3>3
    <3>5. /\ pos[f] \in Nat /\ committed[f] \in Nat /\ pos[f] <= Len(log[f])
          /\ Len(log[f]) \in Nat
      BY <3>3 DEF DeliveryInv, TypeOK, BrokerType, ConsumerType, EntityInv, OffsetsExist
    <3>6. Decodable(f, committed[f], pos[f])' = Decodable(f, committed[f], pos[f])
      <4>1. pos'[f] = pos[f] /\ committed'[f] = committed[f]
        BY <3>1 DEF consumer
      <4>2. \A o \in committed[f] + 1 .. pos[f] : log'[f][o] = log[f][o]
        BY <3>4, <3>5
      <4>3. QED
        BY <4>1, <4>2 DEF Decodable
    <3>7. QuietRows(f)'
      BY <1>3, <3>1, <3>6 DEF QuietEntity, QuietRows, delta, consumer, records, pool
    <3>8. QED
      BY <1>3, <3>1, <3>7
      DEF QuietEntity, QuietOffsets, QuietConsumer, delta, consumer, records, pool
  <2>3. QED
    BY <1>4, <2>1, <2>2
<1>6. QED
  BY <1>2, <1>5 DEF QuietInv

(* A poll continues the backlog where it ended.                            *)
LEMMA FetchedQuiet ==
  ASSUME DeliveryInv, NEW e \in Entities, QuietEntity(e), flush[e] = "none",
         NEW k \in Nat, Fetched(e, k),
         log' = log, committed' = committed, UNCHANGED delta,
         flush'[e] \in {"none", "queued"}, flush'[e] = "queued" => held'[e] # {}
  PROVE  QuietEntity(e)'
<1> DEFINE fresh == Decodable(e, pos[e], pos[e] + k)
<1>1. /\ committed[e] \in Nat /\ pos[e] \in Nat
      /\ held \in [Entities -> SUBSET Nat] /\ size \in [Entities -> Nat]
      /\ pos \in [Entities -> Nat] /\ late \in [Entities -> Nat]
      /\ stored \in [Entities -> BOOLEAN]
      /\ status \in [Entities -> {"none", "joining", "assigned", "lost"}]
  BY DEF DeliveryInv, TypeOK, BrokerType, ConsumerType, RecordsType
<1>2. committed[e] <= pos[e] /\ late[e] = 0 /\ held[e] = Decodable(e, committed[e], pos[e])
  BY DEF QuietEntity, QuietOffsets, QuietRows, AfterCommit
<1>3. Buffered(e, pos[e], k) /\ status'[e] = "assigned" /\ late'[e] = 0
  <2>1. CASE PollAssigned(e, k)
    BY <1>2, <2>1 DEF PollAssigned
  <2>2. CASE PollJoins(e, k)
    <3>1. pos[e] = 0 /\ committed[e] = 0
      BY <1>1, <1>2, <2>2 DEF PollJoins, QuietEntity, QuietConsumer
    <3>2. QED
      BY <1>1, <2>2, <3>1 DEF PollJoins
  <2>3. QED
    BY <2>1, <2>2 DEF Fetched
<1>4. /\ IsFiniteSet(fresh)
      /\ Cardinality(fresh) \in Nat
      /\ Cardinality(fresh) <= k
  BY <1>1, DecodableCardinality
<1>5. /\ pos'[e] = pos[e] + k /\ held'[e] = held[e] \cup fresh
      /\ size'[e] = size[e] + Cardinality(fresh)
  BY <1>1, <1>3 DEF Buffered
<1>6. stored'[e] <=> (stored[e] /\ status[e] = "assigned") \/ k > 0
  BY <1>1 DEF Fetched, PollAssigned, PollJoins
<1>7. held[e] \cap fresh = {}
  BY <1>1, <1>2 DEF Decodable
<1>8. IsFiniteSet(held[e]) /\ size[e] = Cardinality(held[e])
  BY DEF QuietEntity, QuietRows
<1>9. IsFiniteSet(held[e] \cup fresh) /\ Cardinality(held[e] \cup fresh) = size'[e]
  <2>1. Cardinality(held[e] \cap fresh) = 0
    BY <1>7, FS_EmptySet
  <2>2. Cardinality(held[e] \cup fresh) = Cardinality(held[e]) + Cardinality(fresh) - 0
    BY <1>4, <1>8, <2>1, FS_Union
  <2>3. size[e] \in Nat
    BY <1>1
  <2>4. IsFiniteSet(held[e] \cup fresh)
    BY <1>4, <1>8, FS_Union
  <2> HIDE DEF fresh
  <2>5. size'[e] = Cardinality(held[e] \cup fresh)
    BY <1>4, <1>5, <1>8, <2>2, <2>3
  <2>6. QED
    BY <2>4, <2>5
<1>10. (Decodable(e, committed[e], pos[e]))' = held[e] \cup fresh
  <2>1. committed'[e] = committed[e] /\ log'[e] = log[e]
    OBVIOUS
  <2>2. committed[e] + 1 .. pos[e] + k = (committed[e] + 1 .. pos[e]) \cup (pos[e] + 1 .. pos[e] + k)
    BY <1>1, <1>2
  <2>3. QED
    BY <1>2, <1>5, <2>1, <2>2 DEF Decodable
<1> HIDE DEF fresh
<1>11. held'[e] # {} => stored'[e]
  <2>1. CASE k > 0
    BY <1>6, <2>1
  <2>2. CASE k = 0
    <3>1. fresh = {}
      BY <1>1, <2>2 DEF fresh, Decodable
    <3>2. held[e] # {} => stored[e] /\ status[e] = "assigned"
      BY DEF QuietEntity, QuietOffsets, QuietConsumer
    <3>3. QED
      BY <1>5, <1>6, <3>1, <3>2
  <2>3. QED
    BY <2>1, <2>2
<1>12. QuietOffsets(e)'
  <2>1. committed'[e] <= pos'[e]
    BY <1>1, <1>2, <1>5
  <2>2. QED
    BY <1>3, <1>11, <2>1 DEF QuietOffsets, AfterCommit
<1>13. QuietConsumer(e)'
  BY <1>3 DEF QuietConsumer, InFlight, OnWorker
<1>14. QuietRows(e)'
  <2>1. \A o \in landed[e] : o <= committed[e]
    BY DEF QuietEntity, QuietRows, AfterWrite
  <2>2. landed' = landed /\ repeated' = repeated
    BY DEF delta
  <2>3. QED
    BY <1>5, <1>9, <1>10, <2>1, <2>2 DEF QuietEntity, QuietRows, AfterCommit, AfterWrite
<1>15. QED
  BY <1>12, <1>13, <1>14 DEF QuietEntity

LEMMA TurnQuiet ==
  ASSUME DeliveryInv, QuietInv, NEW e \in Entities, Turn(e)
  PROVE  QuietInv'
<1> SUFFICES ASSUME faults' = 0
             PROVE  main' \in {"loop", "ending", "returned"} /\ \A f \in Entities : QuietEntity(f)'
  BY DEF QuietInv
<1>1. ~Fault /\ (UNCHANGED faults => faults = 0)
  BY StillQuiet DEF DeliveryInv
<1>2. ~PollRaises(e)
  BY <1>1 DEF PollRaises
<1>3. faults = 0
  BY <1>1, <1>2 DEF Turn, SkipTurn, SurfaceFailure, IdleTurn, FullTurn, DeliveringTurn,
     EmptyTurn, JoiningTurn, NoFault
<1>4. \A f \in Entities : QuietEntity(f)
  BY <1>3 DEF QuietInv
<1>5. ~SurfaceFailure(e)
  BY <1>4 DEF SurfaceFailure, QuietEntity, QuietConsumer
<1>6. main' \in {"loop", "ending"}
  BY <1>2, <1>5 DEF Turn, SkipTurn, IdleTurn, FullTurn, DeliveringTurn, EmptyTurn,
     JoiningTurn, EndTurn, NextTurn, Polls, Ready, MyTurn
<1>7. flush \in [Entities -> FlushStates]
  BY DEF DeliveryInv, TypeOK, PoolType
<1>8. ASSUME Ready(e), EndTurn(e)
      PROVE  /\ flush[e] = "none" /\ flush'[e] \in {"none", "queued"}
             /\ flush'[e] = "queued" => held'[e] # {}
             /\ \A f \in Entities \ {e} : flush'[f] = flush[f]
  <2>1. flush[e] = "none"
    BY <1>7, <1>8 DEF Ready, Busy, FlushStates
  <2>2. CASE IsDue(e)'
    BY <1>7, <1>8, <2>1, <2>2 DEF EndTurn, IsDue
  <2>3. CASE ~IsDue(e)'
    BY <1>8, <2>1, <2>3 DEF EndTurn, pool
  <2>4. QED
    BY <2>2, <2>3
<1>9. CASE SkipTurn(e)
  <2>1. \A f \in Entities : QuietEntity(f)'
    BY <1>4, <1>9, QuietFrame DEF SkipTurn, broker, delta, consumer, records, pool
  <2>2. QED
    BY <1>6, <2>1
<1>10. CASE IdleTurn(e) \/ FullTurn(e)
  <2>1. UNCHANGED <<broker, delta, consumer, records>> /\ Ready(e) /\ EndTurn(e)
    BY <1>10 DEF IdleTurn, FullTurn
  <2>2. ASSUME NEW f \in Entities PROVE QuietEntity(f)'
    <3>1. \/ flush'[f] = flush[f]
          \/ flush[f] = "none" /\ flush'[f] = "queued" /\ held[f] # {}
      BY <1>8, <2>1 DEF records
    <3>2. QED
      BY <1>4, <2>1, <3>1, QuietFrame DEF broker, delta, consumer, records
  <2>3. QED
    BY <1>6, <2>2
<1>11. CASE DeliveringTurn(e) \/ EmptyTurn(e)
  <2>1. PICK k \in Nat : Fetched(e, k)
    BY <1>11, RemainingAvailable DEF DeliveringTurn, EmptyTurn, DeliveryInv
  <2>2. UNCHANGED <<log, committed, delta>> /\ Ready(e) /\ EndTurn(e)
    BY <1>11 DEF DeliveringTurn, EmptyTurn, Polls
  <2>3. QuietEntity(e)'
    BY <1>4, <1>8, <2>1, <2>2, FetchedQuiet
  <2>4. ASSUME NEW f \in Entities \ {e} PROVE QuietEntity(f)'
    <3>1. /\ status'[f] = status[f] /\ pos'[f] = pos[f] /\ stored'[f] = stored[f]
          /\ held'[f] = held[f] /\ size'[f] = size[f] /\ late'[f] = late[f]
      BY <2>1 DEF Fetched, PollAssigned, PollJoins, Buffered, DeliveryInv, TypeOK,
                  BrokerType, ConsumerType, RecordsType
    <3>2. flush'[f] = flush[f]
      BY <1>8, <2>2
    <3>3. QED
      BY <1>4, <2>2, <3>1, <3>2, QuietFrame DEF delta
  <2>5. QED
    BY <1>6, <2>3, <2>4
<1>12. CASE JoiningTurn(e)
  <2>1. /\ status[e] # "assigned" /\ Rejoin(e) /\ UNCHANGED <<broker, delta, records>>
        /\ Ready(e) /\ EndTurn(e)
    BY <1>1, <1>12 DEF JoiningTurn, Polls
  <2>2. /\ status'[e] = "joining" /\ pos'[e] = 0 /\ stored'[e] = FALSE
        /\ \A f \in Entities \ {e} : /\ status'[f] = status[f] /\ pos'[f] = pos[f]
                                     /\ stored'[f] = stored[f]
    BY <2>1 DEF Rejoin, DeliveryInv, TypeOK, ConsumerType
  <2>3. UNCHANGED <<log, committed, late, landed, repeated, held, size>>
    BY <2>1 DEF broker, delta, records
  <2>4. QuietEntity(e)'
    <3>1. pos[e] = 0 /\ held[e] = {}
      BY <1>4, <2>1 DEF QuietEntity, QuietConsumer
    <3>2. flush'[e] = "none" /\ flush[e] = "none"
      BY <1>8, <2>1, <2>3, <3>1
    <3>3. Decodable(e, committed[e], pos[e])' = Decodable(e, committed[e], pos[e])
      BY <2>2, <2>3, <3>1 DEF Decodable
    <3>4. QuietEntity(e)
      BY <1>4
    <3>5. QuietRows(e)'
      BY <2>2, <2>3, <3>1, <3>2, <3>3, <3>4 DEF QuietEntity, QuietRows, AfterCommit, AfterWrite
    <3>6. QED
      BY <2>2, <2>3, <3>1, <3>2, <3>4, <3>5
      DEF QuietEntity, QuietOffsets, QuietConsumer, AfterCommit, InFlight, OnWorker
  <2>5. ASSUME NEW f \in Entities \ {e} PROVE QuietEntity(f)'
    <3>1. flush'[f] = flush[f]
      BY <1>8, <2>1
    <3>2. QED
      BY <1>4, <2>2, <2>3, <3>1, QuietFrame
  <2>6. QED
    BY <1>6, <2>4, <2>5
<1>13. QED
  BY <1>2, <1>5, <1>9, <1>10, <1>11, <1>12 DEF Turn

(* A flush writes what is not in the table yet and commits all it wrote.   *)
LEMMA FlushQuiet ==
  ASSUME DeliveryInv, QuietInv, NEW e \in Entities, FlushStep(e)
  PROVE  QuietInv'
<1> SUFFICES ASSUME faults' = 0
             PROVE  main' \in {"loop", "ending", "returned"} /\ \A f \in Entities : QuietEntity(f)'
  BY DEF QuietInv
<1>1. ~Fault /\ (UNCHANGED faults => faults = 0)
  BY StillQuiet DEF DeliveryInv
<1>2. ~CommitTimesOut(e) /\ ~LagRaises(e)
  BY <1>1 DEF CommitTimesOut, LagRaises
<1>3. faults = 0 /\ main' = main
  BY <1>1, <1>2 DEF FlushStep, Write, WriteFails, BrokerCommits, CommitReturns, CommitFails,
     CommitFindsAssignmentLost, Report, NoFault, loop
<1>4. main' \in {"loop", "ending", "returned"} /\ \A f \in Entities : QuietEntity(f)
  BY <1>3 DEF QuietInv
<1>5. ~CommitFindsAssignmentLost(e)
  BY <1>4 DEF CommitFindsAssignmentLost, QuietEntity, QuietConsumer
<1>6. ~CommitFails(e)
  <2>1. SUFFICES ASSUME CommitFails(e) PROVE FALSE
    OBVIOUS
  <2>2. flush[e] = "committing" /\ ~stored[e]
    BY <1>1, <2>1 DEF CommitFails
  <2>3. held[e] # {}
    BY <1>4, <2>2 DEF QuietEntity, QuietConsumer, InFlight, OnWorker
  <2>4. QED
    BY <1>4, <2>2, <2>3 DEF QuietEntity, QuietOffsets
<1>7. /\ flush \in [Entities -> FlushStates]
      /\ log \in [Entities -> Seq(Kinds)] /\ committed \in [Entities -> Nat]
      /\ late \in [Entities -> Nat] /\ landed \in [Entities -> SUBSET Nat]
      /\ repeated \in [Entities -> BOOLEAN] /\ pos \in [Entities -> Nat]
      /\ stored \in [Entities -> BOOLEAN] /\ held \in [Entities -> SUBSET Nat]
      /\ size \in [Entities -> Nat]
  BY DEF DeliveryInv, TypeOK, PoolType, BrokerType, DeltaType, ConsumerType, RecordsType
<1>8. ASSUME NEW f \in Entities \ {e} PROVE QuietEntity(f)'
  <2>1. /\ flush'[f] = flush[f] /\ log'[f] = log[f] /\ committed'[f] = committed[f]
        /\ late'[f] = late[f] /\ landed'[f] = landed[f] /\ repeated'[f] = repeated[f]
        /\ status'[f] = status[f] /\ pos'[f] = pos[f] /\ stored'[f] = stored[f]
        /\ held'[f] = held[f] /\ size'[f] = size[f]
    BY <1>2, <1>5, <1>6, <1>7 DEF FlushStep, Write, WriteFails, AppendBatch, BrokerCommits,
       CommitReturns, Report, Clear, Goto, broker, delta, consumer, records
  <2>2. QED
    BY <1>4, <2>1, QuietFrame
<1>9. QuietEntity(e) /\ committed[e] \in Nat /\ pos[e] \in Nat
  BY <1>4, <1>7
<1> USE DEF AfterCommit, AfterWrite
<1>10. CASE Write(e)
  <2>1. /\ flush[e] = "writing" /\ AppendBatch(e)
        /\ UNCHANGED <<log, committed, late, status, pos, stored, held, size>>
        /\ flush'[e] = "committing"
    BY <1>7, <1>10 DEF Write, At, Goto, broker, consumer, records
  <2>2. held[e] = Decodable(e, committed[e], pos[e])
    BY <1>9, <2>1 DEF QuietEntity, QuietRows
  <2>3. \A o \in landed[e] : o <= committed[e]
    BY <1>9, <2>1 DEF QuietEntity, QuietRows
  <2>4. \A o \in held[e] : o \in Nat /\ committed[e] < o /\ o <= pos[e]
    BY <1>9, <2>2 DEF Decodable
  <2>5. held[e] \cap landed[e] = {}
    <3>1. SUFFICES ASSUME NEW o \in held[e], o \in landed[e] PROVE FALSE
      OBVIOUS
    <3>2. o <= committed[e]
      BY <2>3, <3>1
    <3>3. o \in Nat /\ committed[e] < o
      BY <2>4, <3>1
    <3>4. QED
      BY <1>9, <3>2, <3>3
  <2>6. size[e] = Cardinality(held[e]) /\ ~repeated[e]
    BY <1>9 DEF QuietEntity, QuietRows
  <2>7. repeated'[e] = FALSE /\ landed'[e] = landed[e] \cup held[e]
    BY <1>7, <2>1, <2>5, <2>6 DEF AppendBatch
  <2>8. \A o \in landed'[e] : o <= pos[e]
    <3>1. \A o \in landed[e] : o \in Nat /\ o <= pos[e]
      BY <1>7, <1>9, <2>3 DEF QuietEntity, QuietOffsets
    <3>2. QED
      BY <2>4, <2>7, <3>1
  <2>9. Decodable(e, committed[e], pos[e])' = Decodable(e, committed[e], pos[e])
    BY <2>1 DEF Decodable
  <2>10. QuietRows(e)'
    BY <1>9, <2>1, <2>2, <2>7, <2>8, <2>9 DEF QuietEntity, QuietRows
  <2>11. QuietOffsets(e)' /\ QuietConsumer(e)'
    BY <1>9, <2>1 DEF QuietEntity, QuietOffsets, QuietConsumer, InFlight, OnWorker
  <2>12. QED
    BY <1>4, <1>8, <2>10, <2>11 DEF QuietEntity
<1>11. CASE WriteFails(e)
  <2>1. /\ flush[e] = "writing" /\ flush'[e] = "none"
        /\ UNCHANGED <<log, committed, late, landed, repeated, status, pos, stored, held, size>>
    BY <1>1, <1>7, <1>11 DEF WriteFails, At, Goto, broker, delta, consumer, records
  <2>2. Decodable(e, committed[e], pos[e])' = Decodable(e, committed[e], pos[e])
    BY <2>1 DEF Decodable
  <2>3. QuietRows(e)'
    BY <1>9, <2>1, <2>2 DEF QuietEntity, QuietRows
  <2>4. QuietOffsets(e)' /\ QuietConsumer(e)'
    BY <1>9, <2>1 DEF QuietEntity, QuietOffsets, QuietConsumer, InFlight, OnWorker
  <2>5. QED
    BY <1>4, <1>8, <2>3, <2>4 DEF QuietEntity
<1>12. CASE BrokerCommits(e)
  <2>1. /\ flush[e] = "committing" /\ flush'[e] = "acknowledged" /\ committed'[e] = pos[e]
        /\ UNCHANGED <<log, late, landed, repeated, status, pos, stored, held, size>>
    BY <1>7, <1>12 DEF BrokerCommits, At, Goto, delta, consumer, records
  <2>2. QuietRows(e)'
    BY <1>9, <2>1 DEF QuietEntity, QuietRows
  <2>3. QuietOffsets(e)' /\ QuietConsumer(e)'
    BY <1>9, <2>1 DEF QuietEntity, QuietOffsets, QuietConsumer, InFlight, OnWorker
  <2>4. QED
    BY <1>4, <1>8, <2>2, <2>3 DEF QuietEntity
<1>13. CASE CommitReturns(e)
  <2>1. /\ flush[e] = "acknowledged" /\ flush'[e] = "reporting"
        /\ UNCHANGED <<log, committed, late, landed, repeated, status, pos, held, size>>
    BY <1>7, <1>13 DEF CommitReturns, At, Goto, broker, delta, records
  <2>2. QuietRows(e)'
    BY <1>9, <2>1 DEF QuietEntity, QuietRows
  <2>3. QuietOffsets(e)' /\ QuietConsumer(e)'
    BY <1>9, <2>1 DEF QuietEntity, QuietOffsets, QuietConsumer, InFlight, OnWorker
  <2>4. QED
    BY <1>4, <1>8, <2>2, <2>3 DEF QuietEntity
<1>14. CASE Report(e)
  <2>1. /\ flush[e] = "reporting" /\ flush'[e] = "none" /\ held'[e] = {} /\ size'[e] = 0
        /\ UNCHANGED <<log, committed, late, landed, repeated, status, pos, stored>>
    BY <1>7, <1>14 DEF Report, Clear, At, Goto, broker, delta, consumer
  <2>2. committed[e] = pos[e]
    BY <1>9, <2>1 DEF QuietEntity, QuietOffsets
  <2>3. Decodable(e, committed[e], pos[e])' = {}
    BY <1>9, <2>1, <2>2 DEF Decodable
  <2>4. IsFiniteSet(held'[e]) /\ size'[e] = Cardinality(held'[e])
    BY <2>1, FS_EmptySet
  <2>5. QuietRows(e)'
    BY <1>9, <2>1, <2>2, <2>3, <2>4 DEF QuietEntity, QuietRows
  <2>6. QuietOffsets(e)' /\ QuietConsumer(e)'
    BY <1>9, <2>1 DEF QuietEntity, QuietOffsets, QuietConsumer, InFlight, OnWorker
  <2>7. QED
    BY <1>4, <1>8, <2>5, <2>6 DEF QuietEntity
<1>15. QED
  BY <1>2, <1>5, <1>6, <1>10, <1>11, <1>12, <1>13, <1>14 DEF FlushStep

LEMMA ProcessQuiet ==
  ASSUME DeliveryInv, QuietInv,
         \/ StartFlush \/ Interrupt \/ Return \/ Exit \/ Crash \/ Restart \/ UNCHANGED vars
  PROVE  QuietInv'
<1> SUFFICES ASSUME faults' = 0
             PROVE  main' \in {"loop", "ending", "returned"} /\ \A f \in Entities : QuietEntity(f)'
  BY DEF QuietInv
<1>1. ~Fault /\ (UNCHANGED faults => faults = 0)
  BY StillQuiet DEF DeliveryInv
<1>2. faults = 0 /\ ~Interrupt /\ ~Crash
  BY <1>1 DEF StartFlush, Interrupt, Return, Exit, Crash, Restart, vars
<1>3. main \in {"loop", "ending", "returned"} /\ \A f \in Entities : QuietEntity(f)
  BY <1>2 DEF QuietInv
<1>4. ~Exit /\ ~Restart
  BY <1>3 DEF Exit, Restart
<1>5. main' \in {"loop", "ending", "returned"}
  BY <1>2, <1>3, <1>4 DEF StartFlush, Return, vars, loop
<1>6. /\ UNCHANGED <<log, committed, late, landed, repeated, status, pos, stored, held, size>>
      /\ flush' = flush \/ StartFlush
  BY <1>2, <1>4 DEF StartFlush, Return, vars, broker, delta, consumer, records, pool
<1>7. CASE flush' = flush
  BY <1>3, <1>5, <1>6, <1>7, QuietFrame
<1>8. CASE StartFlush
  <2>1. /\ flush \in [Entities -> FlushStates] /\ queue \in Seq(Entities) /\ queue # << >>
        /\ flush' = [flush EXCEPT ![Head(queue)] = "writing"]
    BY <1>8 DEF StartFlush, DeliveryInv, TypeOK, PoolType
  <2>2. Head(queue) \in Entities /\ flush[Head(queue)] = "queued"
    BY <2>1 DEF DeliveryInv, QueueOK
  <2>3. ASSUME NEW f \in Entities PROVE QuietEntity(f)'
    <3>1. flush[f] = "queued" => held[f] # {}
      BY <1>3 DEF QuietEntity, QuietConsumer, InFlight
    <3>2. \/ flush'[f] = flush[f]
          \/ flush[f] = "queued" /\ flush'[f] = "writing" /\ held[f] # {}
      BY <2>1, <2>2, <3>1
    <3>3. QED
      BY <1>3, <1>6, <3>2, QuietFrame
  <2>4. QED
    BY <1>5, <2>3
<1>9. QED
  BY <1>6, <1>7, <1>8

LEMMA QuietInvariant == Spec => [](DeliveryInv /\ QuietInv)
<1>1. DeliveryInv /\ QuietInv /\ [Next]_vars => QuietInv'
  BY EnvironmentQuiet, TurnQuiet, FlushQuiet, ProcessQuiet DEF Next
<1>2. QED
  BY <1>1, InitQuiet, DeliveryInvariant, PTL DEF Spec

(* As long as nothing fails, no row is appended to a Bronze table twice:   *)
(* every duplicate of the at-least-once delivery is the trace of a fault.  *)
THEOREM OnceWithoutFault == Spec => []NoRepeatWithoutFault
<1>1. QuietInv => NoRepeatWithoutFault
  BY DEF QuietInv, QuietEntity, QuietRows, NoRepeatWithoutFault
<1>2. QED
  BY <1>1, QuietInvariant, PTL

(* As long as nothing fails, the buffer of an entity is exactly what it    *)
(* has consumed and not committed.                                         *)
THEOREM BufferHoldsBacklog == Spec => []BufferIsBacklog
<1>1. QuietInv => BufferIsBacklog
  BY DEF QuietInv, QuietEntity, QuietRows, AfterCommit, BufferIsBacklog
<1>2. QED
  BY <1>1, QuietInvariant, PTL

-----------------------------------------------------------------------------
(* Refinement.  The Bronze Consumer implements the promise BronzeDelivery  *)
(* states: every one of its steps publishes an event, lands rows, commits  *)
(* forward over landed rows, or changes nothing the promise speaks of.     *)

(* Why a commit never goes back: a member of the group is at or past the   *)
(* committed offset, and so is a late commit, which the broker refuses     *)
(* once another member has taken over.                                     *)
Forward(e) ==
  /\ status[e] \in {"assigned", "lost"} => committed[e] <= pos[e]
  /\ late[e] # 0 => /\ status[e] \in {"none", "joining"}
                    /\ committed[e] <= late[e]

(* Only rows of events of the topic are buffered. *)
HeldIsDecodable(e) == held[e] \subseteq Decodable(e, 0, Len(log[e]))

RefinementInv ==
  DeliveryInv /\ \A e \in Entities : Forward(e) /\ HeldIsDecodable(e)

-----------------------------------------------------------------------------
(* RefinementInv is inductive. *)

LEMMA ForwardFrame ==
  ASSUME TypeOK, NEW f \in Entities, Forward(f), HeldIsDecodable(f),
         log'[f] = log[f],
         committed'[f] = committed[f],
         late'[f] = late[f] \/ late'[f] = 0,
         \/ pos'[f] = pos[f] /\ status'[f] = status[f]
         \/ status'[f] \in {"none", "joining"},
         held'[f] \subseteq held[f]
  PROVE  Forward(f)' /\ HeldIsDecodable(f)'
<1>1. Forward(f)'
  BY DEF Forward
<1>2. HeldIsDecodable(f)'
  BY DEF HeldIsDecodable, Decodable
<1>3. QED
  BY <1>1, <1>2

LEMMA InitRefinement == Init => RefinementInv
<1>1. Init => \A e \in Entities : Forward(e) /\ HeldIsDecodable(e)
  BY DEF Init, Forward, HeldIsDecodable
<1>2. QED
  BY <1>1, InitDelivery DEF RefinementInv

LEMMA EnvironmentForward ==
  ASSUME RefinementInv, NEW e \in Entities, NEW f \in Entities,
         Produce(e) \/ Age(e) \/ LoseAssignment(e) \/ LateCommit(e)
  PROVE  Forward(f)' /\ HeldIsDecodable(f)'
<1> USE DEF RefinementInv, DeliveryInv
<1>1. CASE Produce(e)
  <2>1. /\ UNCHANGED <<committed, late, status, pos, held>>
        /\ \E kind \in Kinds : log' = [log EXCEPT ![e] = Append(@, kind)]
    BY <1>1 DEF Produce, consumer, records
  <2>2. log[f] \in Seq(Kinds) /\ log \in [Entities -> Seq(Kinds)]
    BY DEF TypeOK, BrokerType
  <2>3. /\ Len(log[f]) \in Nat /\ Len(log'[f]) \in Nat
        /\ Len(log'[f]) >= Len(log[f])
        /\ \A o \in 1 .. Len(log[f]) : log'[f][o] = log[f][o]
    BY <2>1, <2>2
  <2>4. HeldIsDecodable(f)'
    BY <2>1, <2>3 DEF HeldIsDecodable, Decodable
  <2>5. QED
    BY <2>1, <2>4 DEF Forward
<1>2. CASE Age(e)
  <2>1. UNCHANGED <<log, committed, late, status, pos, held>>
    BY <1>2 DEF Age, broker, consumer
  <2>2. QED
    BY <2>1, ForwardFrame
<1>3. CASE LoseAssignment(e)
  <2>1. /\ UNCHANGED <<log, committed, late, pos, held>>
        /\ status[e] = "assigned"
        /\ status' = [status EXCEPT ![e] = "lost"]
    BY <1>3 DEF LoseAssignment, broker, records
  <2>2. Forward(f)'
    BY <2>1 DEF Forward, TypeOK, ConsumerType
  <2>3. HeldIsDecodable(f)'
    BY <2>1 DEF HeldIsDecodable, Decodable
  <2>4. QED
    BY <2>2, <2>3
<1>4. CASE LateCommit(e)
  <2>1. /\ UNCHANGED <<log, status, pos, held>>
        /\ late[e] # 0
        /\ committed' = [committed EXCEPT ![e] = late[e]]
        /\ late' = [late EXCEPT ![e] = 0]
    BY <1>4 DEF LateCommit, consumer, records
  <2>2. Forward(f)'
    BY <2>1 DEF Forward, TypeOK, BrokerType
  <2>3. HeldIsDecodable(f)'
    BY <2>1 DEF HeldIsDecodable, Decodable
  <2>4. QED
    BY <2>2, <2>3
<1>5. QED
  BY <1>1, <1>2, <1>3, <1>4

LEMMA FetchedForward ==
  ASSUME RefinementInv, NEW e \in Entities, NEW f \in Entities, NEW k \in Nat,
         k <= Available(e), Fetched(e, k), log' = log, committed' = committed
  PROVE  Forward(f)' /\ HeldIsDecodable(f)'
<1> USE DEF RefinementInv, DeliveryInv
<1>1. CASE f # e
  <2>1. /\ pos'[f] = pos[f] /\ held'[f] = held[f] /\ late'[f] = late[f]
        /\ status'[f] = status[f]
    BY <1>1 DEF Fetched, PollAssigned, PollJoins, Buffered, TypeOK, BrokerType,
                ConsumerType, RecordsType
  <2>2. QED
    BY <2>1, ForwardFrame
<1>2. CASE f = e
  <2> DEFINE start == IF status[e] = "assigned" THEN pos[e] ELSE committed[e]
  <2>1. /\ pos'[e] = start + k
        /\ held'[e] = held[e] \cup Decodable(e, start, start + k)
        /\ late'[e] = IF status[e] = "assigned" THEN late[e] ELSE 0
        /\ status'[e] = "assigned"
    BY DEF Fetched, PollAssigned, PollJoins, Buffered, TypeOK, BrokerType,
           ConsumerType, RecordsType
  <2>2. start \in Nat /\ Len(log[e]) \in Nat /\ committed[e] \in Nat
    BY DEF TypeOK, BrokerType, ConsumerType
  <2>3. start + k <= Len(log[e])
    BY <2>2 DEF Available
  <2>4. committed[e] <= start
    BY <2>2 DEF Forward
  <2>5. late'[e] = 0
    BY <2>1 DEF Forward
  <2>6. Forward(e)'
    BY <2>1, <2>2, <2>4, <2>5 DEF Forward
  <2>7. Decodable(e, start, start + k) \subseteq Decodable(e, 0, Len(log[e]))
    BY <2>2, <2>3 DEF Decodable
  <2>8. held'[e] \subseteq Decodable(e, 0, Len(log[e]))
    BY <2>1, <2>7 DEF HeldIsDecodable
  <2>9. HeldIsDecodable(e)'
    BY <2>8 DEF HeldIsDecodable, Decodable
  <2>10. QED
    BY <1>2, <2>6, <2>9
<1>3. QED
  BY <1>1, <1>2

LEMMA TurnForward ==
  ASSUME RefinementInv, NEW e \in Entities, NEW f \in Entities, Turn(e)
  PROVE  Forward(f)' /\ HeldIsDecodable(f)'
<1> USE DEF RefinementInv, DeliveryInv
<1>1. CASE SkipTurn(e) \/ SurfaceFailure(e) \/ IdleTurn(e) \/ FullTurn(e)
  <2>1. UNCHANGED <<log, committed, late, status, pos, held>>
    BY <1>1 DEF SkipTurn, SurfaceFailure, IdleTurn, FullTurn, broker, consumer,
                records
  <2>2. QED
    BY <2>1, ForwardFrame
<1>2. CASE DeliveringTurn(e)
  <2>1. PICK k \in 1 .. Lesser(Remaining(e), Available(e)) : Fetched(e, k)
    BY <1>2 DEF DeliveringTurn
  <2>2. k \in Nat /\ k <= Available(e)
    BY <2>1, RemainingAvailable
  <2>3. QED
    BY <1>2, <2>1, <2>2, FetchedForward DEF DeliveringTurn
<1>3. CASE EmptyTurn(e)
  <2>1. 0 <= Available(e)
    BY DEF Available, EntityInv, OffsetsExist, TypeOK, BrokerType, ConsumerType
  <2>2. QED
    BY <1>3, <2>1, FetchedForward DEF EmptyTurn
<1>4. CASE JoiningTurn(e)
  <2>1. /\ UNCHANGED <<log, committed, late, held>>
        /\ pos' = [pos EXCEPT ![e] = 0]
        /\ status' = [status EXCEPT ![e] = "joining"]
    BY <1>4 DEF JoiningTurn, Rejoin, broker, records
  <2>2. \/ pos'[f] = pos[f] /\ status'[f] = status[f]
        \/ status'[f] \in {"none", "joining"}
    BY <2>1 DEF TypeOK, ConsumerType
  <2>3. QED
    BY <2>1, <2>2, ForwardFrame
<1>5. CASE PollRaises(e)
  <2>1. UNCHANGED <<log, committed, late, held, status>>
    BY <1>5 DEF PollRaises, broker, records
  <2>2. pos'[f] \in Nat /\ pos[f] \in Nat /\ pos[f] <= pos'[f]
    <3>1. pos \in [Entities -> Nat]
      BY DEF TypeOK, ConsumerType
    <3>2. CASE pos' = pos
      BY <3>1, <3>2
    <3>3. CASE pos' # pos
      <4>1. PICK k \in 0 .. Lesser(Remaining(e), Available(e)) :
                   pos' = [pos EXCEPT ![e] = @ + k]
        BY <1>5, <3>3 DEF PollRaises
      <4>2. k \in Nat
        BY <4>1, RemainingAvailable
      <4>3. QED
        BY <3>1, <4>1, <4>2
    <3>4. QED
      BY <3>2, <3>3
  <2>3. Forward(f)'
    BY <2>1, <2>2 DEF Forward, TypeOK, BrokerType
  <2>4. HeldIsDecodable(f)'
    BY <2>1 DEF HeldIsDecodable, Decodable
  <2>5. QED
    BY <2>3, <2>4
<1>6. QED
  BY <1>1, <1>2, <1>3, <1>4, <1>5 DEF Turn

(* A request left behind commits forward, and its member is gone. *)
LEMMA LeftBehind ==
  ASSUME RefinementInv, NEW f \in Entities, Pending(f),
         log'[f] = log[f], committed'[f] = committed[f], late'[f] = pos[f],
         status'[f] = "none", held'[f] = {}
  PROVE  Forward(f)' /\ HeldIsDecodable(f)'
BY DEF RefinementInv, Forward, HeldIsDecodable, Pending

LEMMA FlushForward ==
  ASSUME RefinementInv, NEW e \in Entities, NEW f \in Entities, FlushStep(e)
  PROVE  Forward(f)' /\ HeldIsDecodable(f)'
<1> USE DEF RefinementInv, DeliveryInv
<1>1. CASE Write(e) \/ WriteFails(e) \/ CommitReturns(e) \/ CommitFails(e)
           \/ LagRaises(e)
  <2>1. UNCHANGED <<log, committed, late, status, pos, held>>
    BY <1>1 DEF Write, WriteFails, CommitReturns, CommitFails, LagRaises,
                broker, consumer, records
  <2>2. QED
    BY <2>1, ForwardFrame
<1>2. CASE BrokerCommits(e)
  <2>1. /\ UNCHANGED <<log, late, status, pos, held>>
        /\ status[e] = "assigned"
        /\ committed' = [committed EXCEPT ![e] = pos[e]]
    BY <1>2 DEF BrokerCommits, consumer, records
  <2>2. Forward(f)'
    BY <2>1 DEF Forward, TypeOK, BrokerType, ConsumerType
  <2>3. HeldIsDecodable(f)'
    BY <2>1 DEF HeldIsDecodable, Decodable
  <2>4. QED
    BY <2>2, <2>3
<1>3. CASE CommitFindsAssignmentLost(e) \/ CommitTimesOut(e) \/ Report(e)
  <2>1. CASE f # e
    <3>1. /\ pos'[f] = pos[f] /\ held'[f] = held[f] /\ late'[f] = late[f]
          /\ status'[f] = status[f] /\ log' = log /\ committed' = committed
      BY <1>3, <2>1 DEF CommitFindsAssignmentLost, CommitTimesOut, Recover,
         Clear, Report, broker, consumer, TypeOK, BrokerType, ConsumerType,
         RecordsType
    <3>2. QED
      BY <3>1, ForwardFrame
  <2>2. CASE f = e
    <3>1. held'[e] = {} /\ log' = log /\ committed' = committed
      BY <1>3 DEF CommitFindsAssignmentLost, CommitTimesOut, Recover, Clear,
         Report, broker, TypeOK, RecordsType
    <3>2. CASE late'[e] = late[e]
      <4>1. \/ pos'[e] = pos[e] /\ status'[e] = status[e]
            \/ status'[e] \in {"none", "joining"}
        BY <1>3 DEF CommitFindsAssignmentLost, CommitTimesOut, Recover, Report,
           consumer, TypeOK, ConsumerType
      <4>2. QED
        BY <2>2, <3>1, <3>2, <4>1, ForwardFrame
    <3>3. CASE late'[e] # late[e]
      <4>1. Pending(e) /\ late'[e] = pos[e] /\ status'[e] = "none"
        BY <1>3, <3>3 DEF CommitFindsAssignmentLost, CommitTimesOut, Recover,
           Report, broker, TypeOK, BrokerType, ConsumerType
      <4>2. QED
        BY <2>2, <3>1, <4>1, LeftBehind
    <3>4. QED
      BY <3>2, <3>3
  <2>3. QED
    BY <2>1, <2>2
<1>4. QED
  BY <1>1, <1>2, <1>3 DEF FlushStep

LEMMA ProcessForward ==
  ASSUME RefinementInv, NEW f \in Entities,
         \/ StartFlush \/ Interrupt \/ Return \/ Exit \/ Crash \/ Restart
         \/ UNCHANGED vars
  PROVE  Forward(f)' /\ HeldIsDecodable(f)'
<1> USE DEF RefinementInv, DeliveryInv
<1>1. CASE \/ StartFlush \/ Interrupt \/ Return \/ Restart \/ UNCHANGED vars
  <2>1. UNCHANGED <<log, committed, late, status, pos, held>>
    BY <1>1 DEF StartFlush, Interrupt, Return, Restart, vars, broker, consumer,
                records
  <2>2. QED
    BY <2>1, ForwardFrame
<1>2. CASE Exit \/ Crash
  <2>1. /\ log' = log /\ committed' = committed
        /\ held'[f] = {} /\ status'[f] = "none"
    BY <1>2 DEF Exit, Crash, LoseMemory, broker
  <2>2. CASE late'[f] = late[f]
    BY <2>1, <2>2, ForwardFrame
  <2>3. CASE late'[f] # late[f]
    <3>1. Pending(f) /\ late'[f] = pos[f]
      BY <1>2, <2>3 DEF Exit, Crash, broker
    <3>2. QED
      BY <2>1, <3>1, LeftBehind
  <2>4. QED
    BY <2>2, <2>3
<1>3. QED
  BY <1>1, <1>2

THEOREM RefinementInvariant == Spec => []RefinementInv
<1>1. RefinementInv /\ [Next]_vars => RefinementInv'
  <2> SUFFICES ASSUME RefinementInv, [Next]_vars PROVE RefinementInv'
    OBVIOUS
  <2>1. DeliveryInv'
    BY EnvironmentDelivery, TurnDelivery, FlushDelivery, ProcessDelivery,
       StutterDelivery DEF Next, RefinementInv
  <2>2. ASSUME NEW f \in Entities PROVE Forward(f)' /\ HeldIsDecodable(f)'
    BY EnvironmentForward, TurnForward, FlushForward, ProcessForward DEF Next
  <2>3. QED
    BY <2>1, <2>2 DEF RefinementInv
<1>2. QED
  BY InitRefinement, <1>1, PTL DEF Spec

-----------------------------------------------------------------------------
(* The steps, one by one. *)

LEMMA DecodableMap ==
  ASSUME NEW e \in Entities, NEW n
  PROVE  Delivery!Decodable(log[e], 0, n) = Decodable(e, 0, n)
BY DEF Delivery!Decodable, Decodable

LEMMA LandStep ==
  ASSUME RefinementInv, NEW e \in Entities, AppendBatch(e),
         log' = log, committed' = committed
  PROVE  Delivery!Land(e)
<1>1. held[e] \in SUBSET Delivery!Decodable(log[e], 0, Len(log[e]))
  BY DecodableMap DEF RefinementInv, HeldIsDecodable
<1>2. landed' = [landed EXCEPT ![e] = @ \cup held[e]]
  BY DEF AppendBatch
<1>3. QED
  BY <1>1, <1>2 DEF Delivery!Land

(* A commit that goes forward, over what has landed. *)
LEMMA CommitStep ==
  ASSUME RefinementInv, NEW e \in Entities, NEW n \in Nat,
         committed' = [committed EXCEPT ![e] = n],
         log' = log, landed' = landed,
         committed[e] <= n, n <= Len(log[e]),
         Decodable(e, 0, n) \subseteq landed[e]
  PROVE  Delivery!Commit(e)
<1>1. n \in committed[e] .. Len(log[e])
  BY DEF RefinementInv, DeliveryInv, TypeOK, BrokerType
<1>2. Delivery!Decodable(log[e], 0, n) \subseteq landed[e]
  BY DecodableMap
<1>3. QED
  BY <1>1, <1>2 DEF Delivery!Commit

LEMMA EnvironmentStep ==
  ASSUME RefinementInv, NEW e \in Entities,
         Produce(e) \/ Age(e) \/ LoseAssignment(e) \/ LateCommit(e)
  PROVE  Delivery!Next \/ UNCHANGED <<log, landed, committed>>
<1>1. CASE Produce(e)
  <2>1. Delivery!Produce(e)
    BY <1>1 DEF Produce, Delivery!Produce, delta
  <2>2. QED
    BY <2>1 DEF Delivery!Next
<1>2. CASE Age(e) \/ LoseAssignment(e)
  BY <1>2 DEF Age, LoseAssignment, broker, delta
<1>3. CASE LateCommit(e)
  <2>1. /\ committed' = [committed EXCEPT ![e] = late[e]]
        /\ log' = log /\ landed' = landed /\ late[e] # 0
    BY <1>3 DEF LateCommit, delta
  <2>2. /\ late[e] \in Nat /\ late[e] <= Len(log[e])
        /\ committed[e] <= late[e]
        /\ Decodable(e, 0, late[e]) \subseteq landed[e]
    BY <2>1 DEF RefinementInv, DeliveryInv, TypeOK, BrokerType, EntityInv,
                OffsetsExist, LateIsLanded, Forward
  <2>3. Delivery!Commit(e)
    BY <2>1, <2>2, CommitStep
  <2>4. QED
    BY <2>3 DEF Delivery!Next
<1>4. QED
  BY <1>1, <1>2, <1>3

LEMMA TurnStep ==
  ASSUME NEW e \in Entities, Turn(e)
  PROVE  UNCHANGED <<log, landed, committed>>
BY DEF Turn, SkipTurn, SurfaceFailure, IdleTurn, FullTurn, DeliveringTurn,
       EmptyTurn, JoiningTurn, PollRaises, broker, delta

LEMMA FlushRefines ==
  ASSUME RefinementInv, NEW e \in Entities, FlushStep(e)
  PROVE  Delivery!Next \/ UNCHANGED <<log, landed, committed>>
<1>1. CASE Write(e) \/ (WriteFails(e) /\ AppendBatch(e))
  <2>1. Delivery!Land(e)
    BY <1>1, LandStep DEF Write, WriteFails, broker
  <2>2. QED
    BY <2>1 DEF Delivery!Next
<1>2. CASE WriteFails(e) /\ ~AppendBatch(e)
  BY <1>2 DEF WriteFails, broker, delta
<1>3. CASE BrokerCommits(e)
  <2>1. /\ committed' = [committed EXCEPT ![e] = pos[e]]
        /\ log' = log /\ landed' = landed
        /\ flush[e] = "committing" /\ status[e] = "assigned"
    BY <1>3 DEF BrokerCommits, At, delta
  <2>2. /\ pos[e] \in Nat /\ pos[e] <= Len(log[e]) /\ committed[e] <= pos[e]
    BY <2>1 DEF RefinementInv, DeliveryInv, TypeOK, ConsumerType, EntityInv,
                OffsetsExist, Forward
  <2>3. Decodable(e, 0, pos[e]) \subseteq landed[e]
    BY <2>1 DEF RefinementInv, DeliveryInv, EntityInv, ConsumedIsKept, Proceeds,
                InFlight, OnWorker, WrittenIsLanded, Written
  <2>4. Delivery!Commit(e)
    BY <2>1, <2>2, <2>3, CommitStep
  <2>5. QED
    BY <2>4 DEF Delivery!Next
<1>4. CASE \/ CommitReturns(e) \/ CommitFails(e)
           \/ CommitFindsAssignmentLost(e) \/ CommitTimesOut(e)
           \/ Report(e) \/ LagRaises(e)
  BY <1>4 DEF CommitReturns, CommitFails, CommitFindsAssignmentLost,
     CommitTimesOut, Report, LagRaises, broker, delta
<1>5. QED
  BY <1>1, <1>2, <1>3, <1>4 DEF FlushStep

LEMMA ProcessStep ==
  ASSUME \/ StartFlush \/ Interrupt \/ Return \/ Exit \/ Crash \/ Restart
         \/ UNCHANGED vars
  PROVE  UNCHANGED <<log, landed, committed>>
BY DEF StartFlush, Interrupt, Return, Exit, Crash, Restart, vars, broker, delta

(* The consumer implements the promise: commits only go forward, and only  *)
(* over rows that are in the Bronze table, in every behaviour.             *)
THEOREM ConsumerDelivers == Spec => Delivers
<1>1. Init => Delivery!Init
  BY DEF Init, Delivery!Init
<1>2. RefinementInv /\ [Next]_vars => [Delivery!Next]_(Delivery!vars)
  <2> SUFFICES ASSUME RefinementInv, [Next]_vars
               PROVE  Delivery!Next \/ UNCHANGED <<log, landed, committed>>
    BY DEF Delivery!vars
  <2>1. QED
    BY EnvironmentStep, TurnStep, FlushRefines, ProcessStep DEF Next
<1>3. QED
  BY <1>1, <1>2, RefinementInvariant, PTL DEF Spec, Delivers, Delivery!Spec
=============================================================================
