--------------------------- MODULE BronzeConsumer ---------------------------
(***************************************************************************)
(* The Bronze Consumer (streaming/consumers/bronze_consumer.py): one       *)
(* round-robin loop polls every entity's topic into that entity's buffer,  *)
(* a pool of worker threads appends due buffers to the Bronze tables and   *)
(* commits the consumed offsets, and KafkaMessagingProvider discards a     *)
(* consumer whose group membership is lost or whose commit hangs.  The     *)
(* broker (topic, committed offset, group membership) and the Delta table  *)
(* are modelled as that code uses them.                                    *)
(*                                                                         *)
(* One topic is one sequence: the code treats the partitions of a topic    *)
(* alike and commits all of them at once.  A buffer is the set of offsets  *)
(* whose rows it holds and the number of its records: the code looks only  *)
(* at the number, and appends all of them in one Delta transaction.        *)
(***************************************************************************)
EXTENDS Naturals, Sequences, FiniteSets

CONSTANTS
  NumEntities,    \* entities, numbered in the order of STREAMING_ENTITIES
  Kinds,          \* "row", "malformed" (does not decode to a row) and
                  \* "poison" (decodes, but does not fit the table's schema)
  MaxBatch,       \* MaxBatch[e]: _MAX_BATCH_SIZE, with its overrides
  PollCap,        \* PollCap[e]: _MAX_POLL_BATCH_SIZE, with its overrides
  IdleAfter,      \* _IDLE_AFTER_EMPTY_POLLS
  PollEvery,      \* _IDLE_POLL_EVERY_N_ROUNDS
  PoolSize,       \* _FLUSH_POOL_SIZE
  MaxIterations,  \* max_iterations, 0 for None (run forever)
  MaxLog,         \* bound: events a topic receives
  MaxFaults       \* bound: failures, rebalances and crashes in a behaviour

Entities == 1 .. NumEntities

ASSUME EntitiesAssumption == NumEntities \in Nat \ {0}
ASSUME KindsAssumption == Kinds \subseteq {"row", "malformed", "poison"}
ASSUME BatchAssumption == /\ MaxBatch \in [Entities -> Nat \ {0}]
                          /\ PollCap \in [Entities -> Nat \ {0}]
ASSUME IdleAssumption == IdleAfter \in Nat /\ PollEvery \in Nat \ {0}
ASSUME BoundsAssumption == /\ PoolSize \in Nat \ {0}
                           /\ MaxIterations \in Nat
                           /\ MaxLog \in Nat
                           /\ MaxFaults \in Nat

VARIABLES
  \* The broker.
  log,         \* log[e]: the events of the entity's topic
  committed,   \* committed[e]: events committed by the group "bronze-consumer"
  late,        \* late[e]: a commit request nobody waits for, or 0
  \* The Bronze Delta tables.
  landed,      \* landed[e]: offsets whose row is in the table
  repeated,    \* repeated[e]: some row was appended more than once
  \* The provider's Consumer of each entity.
  status,      \* "none", "joining", "assigned" or "lost"
  pos,         \* pos[e]: events consumed so far
  stored,      \* stored[e]: it holds an offset it has not committed
  \* _EntityBuffer.
  held,        \* held[e]: offsets of the buffered records
  size,        \* size[e]: len(buffer.records)
  aged,        \* aged[e]: opened_at is _MAX_BATCH_AGE_SECONDS ago
  empties,     \* consecutive_empty_polls, saturating at IdleAfter
  rounds,      \* rounds_since_last_poll
  \* The loop and the pool.
  flush,       \* flush[e]: how far the entity's flush is
  queue,       \* flushes submitted and not started, first submitted first
  main,        \* "loop", "ending", "raising", "returned" or "down"
  turn,        \* the entity whose turn it is
  iterations,  \* completed rounds, when max_iterations bounds them
  faults       \* faults so far

broker == <<log, committed, late>>
delta == <<landed, repeated>>
consumer == <<status, pos, stored>>
records == <<held, size, aged>>
idleness == <<empties, rounds>>
pool == <<flush, queue>>
loop == <<main, turn, iterations>>
vars == <<broker, delta, consumer, records, idleness, pool, loop, faults>>

-----------------------------------------------------------------------------
(* The states of a flush.  "none" stands for no future and for one that is *)
(* done without an exception: the loop treats them alike.                   *)

OnWorker == {"writing", "committing", "acknowledged", "reporting"}
InFlight == OnWorker \cup {"queued"}
FlushStates == InFlight \cup {"none", "raised"}

(* The offsets in (lo, hi] that decode to a row. *)
Decodable(e, lo, hi) == {o \in lo + 1 .. hi : log[e][o] # "malformed"}

Poisoned(e) == \E o \in held[e] : log[e][o] = "poison"

Lesser(m, n) == IF m <= n THEN m ELSE n

Alive == main \in {"loop", "ending", "raising"}

(* A step of the environment that goes wrong; MaxFaults bounds them. *)
Fault == faults < MaxFaults /\ faults' = faults + 1
NoFault == UNCHANGED faults

-----------------------------------------------------------------------------
Init ==
  /\ log = [e \in Entities |-> << >>]
  /\ committed = [e \in Entities |-> 0]
  /\ late = [e \in Entities |-> 0]
  /\ landed = [e \in Entities |-> {}]
  /\ repeated = [e \in Entities |-> FALSE]
  /\ status = [e \in Entities |-> "none"]
  /\ pos = [e \in Entities |-> 0]
  /\ stored = [e \in Entities |-> FALSE]
  /\ held = [e \in Entities |-> {}]
  /\ size = [e \in Entities |-> 0]
  /\ aged = [e \in Entities |-> FALSE]
  /\ empties = [e \in Entities |-> 0]
  /\ rounds = [e \in Entities |-> 0]
  /\ flush = [e \in Entities |-> "none"]
  /\ queue = << >>
  /\ main = "loop"
  /\ turn = 1
  /\ iterations = 0
  /\ faults = 0

(* Debezium publishes a change event. *)
Produce(e) ==
  /\ Len(log[e]) < MaxLog
  /\ \E kind \in Kinds : log' = [log EXCEPT ![e] = Append(@, kind)]
  /\ UNCHANGED <<committed, late, delta, consumer, records, idleness, pool,
                 loop, faults>>

(* _MAX_BATCH_AGE_SECONDS pass since the first buffered record. *)
Age(e) ==
  /\ held[e] # {}
  /\ ~aged[e]
  /\ aged' = [aged EXCEPT ![e] = TRUE]
  /\ UNCHANGED <<broker, delta, consumer, held, size, idleness, pool, loop,
                 faults>>

(* The group coordinator stops counting the consumer as a member.  The     *)
(* client learns of it from its next commit or its next poll.              *)
LoseAssignment(e) ==
  /\ Alive
  /\ status[e] = "assigned"
  /\ Fault
  /\ status' = [status EXCEPT ![e] = "lost"]
  /\ UNCHANGED <<broker, delta, pos, stored, records, idleness, pool, loop>>

(* A commit request its caller gave up on, or that a killed process had    *)
(* sent, reaches the broker.  Once the entity's next consumer has joined   *)
(* the group, the broker refuses the request: see Joined.                  *)
LateCommit(e) ==
  /\ late[e] # 0
  /\ committed' = [committed EXCEPT ![e] = late[e]]
  /\ late' = [late EXCEPT ![e] = 0]
  /\ UNCHANGED <<log, delta, consumer, records, idleness, pool, loop, faults>>

-----------------------------------------------------------------------------
(* The round-robin loop.  One turn of an entity is one action: what it     *)
(* reads and writes belongs to an entity no worker is flushing.            *)

MyTurn(e) == main = "loop" /\ turn = e

(* Mutant: the future of a running flush is not looked at. *)
BusyIgnored(e) == FALSE

Busy(e) == flush[e] \in InFlight

(* future.result() of a finished flush did not raise, or there is none. *)
Ready(e) == MyTurn(e) /\ ~Busy(e) /\ flush[e] # "raised"

Idle(e) == empties[e] >= IdleAfter

SkipPoll(e) == Idle(e) /\ rounds[e] < PollEvery - 1

(* Mutants: the room left in the buffer does not count; a full buffer is   *)
(* polled too.                                                             *)
RemainingOfCap(e) == PollCap[e]
RemainingAtLeastOne(e) ==
  IF size[e] >= MaxBatch[e] THEN 1 ELSE Lesser(MaxBatch[e] - size[e], PollCap[e])

(* How many events the turn may ask for. *)
Remaining(e) == Lesser(MaxBatch[e] - size[e], PollCap[e])

IsDue(e) == held[e] # {} /\ (size[e] >= MaxBatch[e] \/ aged[e])

(* The turn passes on; after the last entity a round is complete. *)
NextTurn ==
  IF turn < NumEntities
  THEN turn' = turn + 1 /\ UNCHANGED <<main, iterations>>
  ELSE /\ turn' = 1
       /\ IF MaxIterations = 0
          THEN UNCHANGED <<main, iterations>>
          ELSE /\ iterations' = iterations + 1
               /\ main' = IF iterations' >= MaxIterations THEN "ending"
                                                          ELSE main

(* The end of every turn that found the entity idle of flushes: submit a   *)
(* flush of the buffer, as the turn leaves it, when it is due.             *)
EndTurn(e) ==
  /\ IF IsDue(e)'
     THEN /\ flush' = [flush EXCEPT ![e] = "queued"]
          /\ queue' = Append(queue, e)
     ELSE UNCHANGED pool
  /\ NextTurn

(* A flush of the entity is still running: it forfeits its turn. *)
SkipTurn(e) ==
  /\ MyTurn(e)
  /\ Busy(e)
  /\ NextTurn
  /\ UNCHANGED <<broker, delta, consumer, records, idleness, pool, faults>>

(* future.result() re-raises what the flush raised and leaves the loop. *)
SurfaceFailure(e) ==
  /\ MyTurn(e)
  /\ flush[e] = "raised"
  /\ main' = "raising"
  /\ UNCHANGED <<broker, delta, consumer, records, idleness, pool, turn,
                 iterations, faults>>

(* An idle entity whose turn to be polled has not come. *)
IdleTurn(e) ==
  /\ Ready(e)
  /\ SkipPoll(e)
  /\ rounds' = [rounds EXCEPT ![e] = @ + 1]
  /\ UNCHANGED <<broker, delta, consumer, records, empties, faults>>
  /\ EndTurn(e)

(* The buffer is full: no poll, only the flush. *)
FullTurn(e) ==
  /\ Ready(e)
  /\ ~SkipPoll(e)
  /\ Remaining(e) = 0
  /\ rounds' = [rounds EXCEPT ![e] = 0]
  /\ UNCHANGED <<broker, delta, consumer, records, empties, faults>>
  /\ EndTurn(e)

Polls(e) ==
  /\ Ready(e)
  /\ ~SkipPoll(e)
  /\ Remaining(e) > 0
  /\ rounds' = [rounds EXCEPT ![e] = 0]

(* The next k events after offset start reach the loop, which buffers      *)
(* those that decode (_buffer_message).                                    *)
Buffered(e, start, k) ==
  LET fresh == Decodable(e, start, start + k)
  IN  /\ pos' = [pos EXCEPT ![e] = start + k]
      /\ held' = [held EXCEPT ![e] = @ \cup fresh]
      /\ size' = [size EXCEPT ![e] = @ + Cardinality(fresh)]

(* A poll on an assigned consumer returns the next k events, possibly 0. *)
PollAssigned(e, k) ==
  /\ status[e] = "assigned"
  /\ Buffered(e, pos[e], k)
  /\ stored' = [stored EXCEPT ![e] = @ \/ k > 0]
  /\ UNCHANGED <<status, late>>

(* A poll creates the consumer if there is none and drives it through the  *)
(* (re)join, which puts it back at the committed offset and makes the      *)
(* broker refuse the commits of the member it replaces.                    *)
PollJoins(e, k) ==
  /\ status[e] # "assigned"
  /\ status' = [status EXCEPT ![e] = "assigned"]
  /\ Buffered(e, committed[e], k)
  /\ stored' = [stored EXCEPT ![e] = k > 0]
  /\ late' = [late EXCEPT ![e] = 0]

(* The events past the offset the next poll starts from. *)
Available(e) ==
  Len(log[e]) - (IF status[e] = "assigned" THEN pos[e] ELSE committed[e])

Fetched(e, k) == PollAssigned(e, k) \/ PollJoins(e, k)

(* consume_batch() returns k >= 1 events: the entity is active again. *)
DeliveringTurn(e) ==
  /\ Polls(e)
  /\ \E k \in 1 .. Lesser(Remaining(e), Available(e)) : Fetched(e, k)
  /\ empties' = [empties EXCEPT ![e] = 0]
  /\ UNCHANGED <<log, committed, delta, aged, faults>>
  /\ EndTurn(e)

CountEmptyPoll(e) ==
  empties' = [empties EXCEPT ![e] = Lesser(@ + 1, IdleAfter)]

(* consume_batch() returns nothing within _POLL_TIMEOUT_SECONDS. *)
EmptyTurn(e) ==
  /\ Polls(e)
  /\ Fetched(e, 0)
  /\ CountEmptyPoll(e)
  /\ UNCHANGED <<log, committed, delta, aged, faults>>
  /\ EndTurn(e)

(* The poll gives up the assignment, and the join takes longer than the    *)
(* poll.                                                                   *)
Rejoin(e) ==
  /\ status' = [status EXCEPT ![e] = "joining"]
  /\ pos' = [pos EXCEPT ![e] = 0]
  /\ stored' = [stored EXCEPT ![e] = FALSE]

JoiningTurn(e) ==
  /\ Polls(e)
  /\ \/ status[e] # "assigned" /\ NoFault
     \/ status[e] = "assigned" /\ Fault   \* a rebalance of the group
  /\ Rejoin(e)
  /\ CountEmptyPoll(e)
  /\ UNCHANGED <<broker, delta, records>>
  /\ EndTurn(e)

(* Mutant: the loop survives the exception. *)
PollRaisesSwallowed(e) ==
  /\ Polls(e)
  /\ Fault
  /\ \/ status[e] # "assigned" /\ UNCHANGED <<pos, stored>>
     \/ /\ status[e] = "assigned"
        /\ \E k \in 0 .. Lesser(Remaining(e), Available(e)) :
             /\ pos' = [pos EXCEPT ![e] = @ + k]
             /\ stored' = [stored EXCEPT ![e] = @ \/ k > 0]
  /\ NextTurn
  /\ UNCHANGED <<broker, delta, status, records, empties, pool>>

(* consume_batch() meets an error record and raises: the events before it  *)
(* are consumed but not buffered, and the exception leaves the loop.       *)
PollRaises(e) ==
  /\ Polls(e)
  /\ Fault
  /\ \/ status[e] # "assigned" /\ UNCHANGED <<pos, stored>>
     \/ /\ status[e] = "assigned"
        /\ \E k \in 0 .. Lesser(Remaining(e), Available(e)) :
             /\ pos' = [pos EXCEPT ![e] = @ + k]
             /\ stored' = [stored EXCEPT ![e] = @ \/ k > 0]
  /\ main' = "raising"
  /\ UNCHANGED <<broker, delta, status, records, empties, pool, turn,
                 iterations>>

(* KeyboardInterrupt in the main thread. *)
Interrupt ==
  /\ main = "loop"
  /\ Fault
  /\ main' = "raising"
  /\ UNCHANGED <<broker, delta, consumer, records, idleness, pool, turn,
                 iterations>>

Turn(e) == \/ SkipTurn(e)    \/ SurfaceFailure(e) \/ IdleTurn(e)
           \/ FullTurn(e)    \/ DeliveringTurn(e) \/ EmptyTurn(e)
           \/ JoiningTurn(e) \/ PollRaises(e)

-----------------------------------------------------------------------------
(* _flush(), on a worker thread of the pool. *)

StartFlush ==
  /\ Alive
  /\ queue # << >>
  /\ Cardinality({e \in Entities : flush[e] \in OnWorker}) < PoolSize
  /\ flush' = [flush EXCEPT ![Head(queue)] = "writing"]
  /\ queue' = Tail(queue)
  /\ UNCHANGED <<broker, delta, consumer, records, idleness, loop, faults>>

At(e, state) == Alive /\ flush[e] = state

Goto(e, state) == flush' = [flush EXCEPT ![e] = state] /\ UNCHANGED queue

(* buffer.clear() *)
Clear(e) ==
  /\ held' = [held EXCEPT ![e] = {}]
  /\ size' = [size EXCEPT ![e] = 0]
  /\ aged' = [aged EXCEPT ![e] = FALSE]

(* write_deltalake() appends the whole buffer in one transaction. *)
AppendBatch(e) ==
  /\ landed' = [landed EXCEPT ![e] = @ \cup held[e]]
  /\ repeated' = [repeated EXCEPT ![e] = \/ @
                                         \/ held[e] \cap landed[e] # {}
                                         \/ size[e] # Cardinality(held[e])]

Write(e) ==
  /\ At(e, "writing")
  /\ ~Poisoned(e)
  /\ AppendBatch(e)
  /\ Goto(e, "committing")
  /\ UNCHANGED <<broker, consumer, records, idleness, loop, faults>>

(* Mutants: the commit follows a failed write; a failed write clears the   *)
(* buffer.                                                                 *)
WriteFailsUnnoticed(e) ==
  /\ At(e, "writing")
  /\ Fault
  /\ Goto(e, "committing")
  /\ UNCHANGED <<broker, delta, consumer, records, idleness, loop>>
WriteFailsClears(e) ==
  /\ At(e, "writing")
  /\ Fault
  /\ Clear(e)
  /\ Goto(e, "none")
  /\ UNCHANGED <<broker, delta, consumer, idleness, loop>>

(* The table cannot be built from a poison record, or the write fails --   *)
(* possibly after the transaction landed.  The buffer stays as it is.      *)
WriteFails(e) ==
  /\ At(e, "writing")
  /\ \/ Poisoned(e) /\ NoFault /\ UNCHANGED delta
     \/ ~Poisoned(e) /\ Fault /\ (UNCHANGED delta \/ AppendBatch(e))
  /\ Goto(e, "none")
  /\ UNCHANGED <<broker, consumer, records, idleness, loop>>

(* The broker accepts the commit of a member with something to commit. *)
BrokerCommits(e) ==
  /\ At(e, "committing")
  /\ status[e] = "assigned"
  /\ stored[e]
  /\ committed' = [committed EXCEPT ![e] = pos[e]]
  /\ Goto(e, "acknowledged")
  /\ UNCHANGED <<log, late, delta, consumer, records, idleness, loop, faults>>

CommitReturns(e) ==
  /\ At(e, "acknowledged")
  /\ stored' = [stored EXCEPT ![e] = FALSE]
  /\ Goto(e, "reporting")
  /\ UNCHANGED <<broker, delta, status, pos, records, idleness, loop, faults>>

InCommit(e) == At(e, "committing") \/ At(e, "acknowledged")

(* Any other commit error, among them that no offset is stored since the   *)
(* last rejoin: the buffer stays, and the next due turn retries.           *)
CommitFails(e) ==
  /\ InCommit(e)
  /\ IF flush[e] = "committing" /\ status[e] # "lost" /\ ~stored[e]
     THEN NoFault
     ELSE Fault
  /\ Goto(e, "none")
  /\ UNCHANGED <<broker, delta, consumer, records, idleness, loop>>

(* recover_from_lost_assignment() returns True and the batch is dropped:   *)
(* the next poll creates a consumer at the committed offset.               *)
Recover(e) ==
  /\ status' = [status EXCEPT ![e] = "none"]
  /\ pos' = [pos EXCEPT ![e] = 0]
  /\ stored' = [stored EXCEPT ![e] = FALSE]
  /\ Clear(e)
  /\ Goto(e, "none")

(* Mutant: the code before recover_from_lost_assignment() existed. *)
AssignmentLostRetried(e) ==
  /\ InCommit(e)
  /\ status[e] = "lost"
  /\ Goto(e, "none")
  /\ UNCHANGED <<broker, delta, consumer, records, idleness, loop, faults>>

CommitFindsAssignmentLost(e) ==
  /\ InCommit(e)
  /\ status[e] = "lost"
  /\ Recover(e)
  /\ UNCHANGED <<broker, delta, idleness, loop, faults>>

(* A request of e's consumer the broker may still apply. *)
Pending(e) == /\ flush[e] = "committing"
              /\ status[e] = "assigned"
              /\ stored[e]

(* Mutant: the batch is dropped but the consumer is kept. *)
TimeoutKeepsConsumer(e) ==
  /\ InCommit(e)
  /\ Fault
  /\ late' = [late EXCEPT ![e] = IF Pending(e) THEN pos[e] ELSE @]
  /\ Clear(e)
  /\ Goto(e, "none")
  /\ UNCHANGED <<log, committed, delta, consumer, idleness, loop>>

(* commit() does not return within _COMMIT_TIMEOUT_SECONDS.  Its thread    *)
(* goes on, so the request may reach the broker later.                     *)
CommitTimesOut(e) ==
  /\ InCommit(e)
  /\ Fault
  /\ late' = [late EXCEPT ![e] = IF Pending(e) THEN pos[e] ELSE @]
  /\ Recover(e)
  /\ UNCHANGED <<log, committed, delta, idleness, loop>>

(* Mutant: the buffer is not cleared. *)
ReportOnly(e) ==
  /\ At(e, "reporting")
  /\ Goto(e, "none")
  /\ UNCHANGED <<broker, delta, consumer, records, idleness, loop, faults>>

(* The lag is read and published, and the flush is over. *)
Report(e) ==
  /\ At(e, "reporting")
  /\ Clear(e)
  /\ Goto(e, "none")
  /\ UNCHANGED <<broker, delta, consumer, idleness, loop, faults>>

(* consumer_lag() raises outside _flush()'s try statement. *)
LagRaises(e) ==
  /\ At(e, "reporting")
  /\ Fault
  /\ Goto(e, "raised")
  /\ UNCHANGED <<broker, delta, consumer, records, idleness, loop>>

FlushStep(e) == \/ Write(e)         \/ WriteFails(e)
                \/ BrokerCommits(e) \/ CommitReturns(e)
                \/ CommitFails(e)   \/ CommitFindsAssignmentLost(e)
                \/ CommitTimesOut(e)
                \/ Report(e)        \/ LagRaises(e)

-----------------------------------------------------------------------------
(* The process. *)

Drained == \A e \in Entities : flush[e] \notin InFlight

(* Everything the process keeps in memory is lost. *)
LoseMemory ==
  /\ status' = [e \in Entities |-> "none"]
  /\ pos' = [e \in Entities |-> 0]
  /\ stored' = [e \in Entities |-> FALSE]
  /\ held' = [e \in Entities |-> {}]
  /\ size' = [e \in Entities |-> 0]
  /\ aged' = [e \in Entities |-> FALSE]
  /\ empties' = [e \in Entities |-> 0]
  /\ rounds' = [e \in Entities |-> 0]
  /\ flush' = [e \in Entities |-> "none"]
  /\ queue' = << >>
  /\ turn' = 1
  /\ iterations' = 0

(* The executor's __exit__ has waited for every submitted flush; then      *)
(* run_bronze_consumer() returns, or its exception ends the process.       *)
Return ==
  /\ main = "ending"
  /\ Drained
  /\ main' = "returned"
  /\ UNCHANGED <<broker, delta, consumer, records, idleness, pool, turn,
                 iterations, faults>>

Exit ==
  /\ main = "raising"
  /\ Drained
  /\ main' = "down"
  /\ LoseMemory
  /\ UNCHANGED <<broker, delta, faults>>

(* The process is killed (the kernel's OOM killer, docker restart); a      *)
(* commit request it has sent may still reach the broker.                  *)
Crash ==
  /\ Alive
  /\ Fault
  /\ late' = [e \in Entities |-> IF Pending(e) THEN pos[e] ELSE late[e]]
  /\ main' = "down"
  /\ LoseMemory
  /\ UNCHANGED <<log, committed, delta>>

(* docker compose: restart: unless-stopped. *)
Restart ==
  /\ main = "down"
  /\ main' = "loop"
  /\ UNCHANGED <<broker, delta, consumer, records, idleness, pool, turn,
                 iterations, faults>>

-----------------------------------------------------------------------------
Next ==
  \/ \E e \in Entities : \/ Produce(e)
                         \/ Age(e)
                         \/ LoseAssignment(e)
                         \/ LateCommit(e)
                         \/ Turn(e)
                         \/ FlushStep(e)
  \/ StartFlush
  \/ Interrupt
  \/ Return
  \/ Exit
  \/ Crash
  \/ Restart

Spec == Init /\ [][Next]_vars

(* The main thread, the pool's threads and the clock keep going, docker    *)
(* restarts the process, and a consumer that is polled again and again     *)
(* while events wait for it is handed some of them again and again.        *)
(* Nothing is assumed of the producer, and no failure is prevented.        *)
Fairness ==
  /\ \A e \in Entities : /\ WF_vars(Turn(e))
                         /\ WF_vars(FlushStep(e))
                         /\ WF_vars(Age(e))
                         /\ SF_vars(DeliveringTurn(e))
  /\ WF_vars(StartFlush)
  /\ WF_vars(Exit)
  /\ WF_vars(Restart)

FairSpec == Spec /\ Fairness

-----------------------------------------------------------------------------
(* Properties *)

BrokerType == /\ log \in [Entities -> Seq(Kinds)]
              /\ committed \in [Entities -> Nat]
              /\ late \in [Entities -> Nat]

DeltaType == /\ landed \in [Entities -> SUBSET Nat]
             /\ repeated \in [Entities -> BOOLEAN]

ConsumerType ==
  /\ status \in [Entities -> {"none", "joining", "assigned", "lost"}]
  /\ pos \in [Entities -> Nat]
  /\ stored \in [Entities -> BOOLEAN]

RecordsType == /\ held \in [Entities -> SUBSET Nat]
               /\ size \in [Entities -> Nat]
               /\ \A e \in Entities : size[e] <= MaxBatch[e]
               /\ aged \in [Entities -> BOOLEAN]

IdlenessType == /\ empties \in [Entities -> 0 .. IdleAfter]
                /\ rounds \in [Entities -> 0 .. PollEvery - 1]

PoolType == /\ flush \in [Entities -> FlushStates]
            /\ queue \in Seq(Entities)

LoopType == /\ main \in {"loop", "ending", "raising", "returned", "down"}
            /\ turn \in Entities
            /\ iterations \in Nat

(* The type invariant; a buffer never outgrows its flush threshold, which  *)
(* is what the memory budget of the consumer was computed from.            *)
TypeOK == /\ BrokerType
          /\ DeltaType
          /\ ConsumerType
          /\ RecordsType
          /\ IdlenessType
          /\ PoolType
          /\ LoopType
          /\ faults \in 0 .. MaxFaults

(* At-least-once delivery, and why it holds.  What a consumer has consumed *)
(* and the loop goes on with is in the buffer or in the table; what a      *)
(* flush commits is in the table; and so is what a late commit may still   *)
(* commit.                                                                 *)
OffsetsExist(e) == /\ committed[e] <= Len(log[e])
                   /\ pos[e] <= Len(log[e])
                   /\ late[e] <= Len(log[e])

CommittedIsLanded(e) == Decodable(e, 0, committed[e]) \subseteq landed[e]

(* At-least-once delivery, the reason why offsets are committed only after *)
(* the write: every event below the committed offset that decodes to a row *)
(* is in the Bronze table, through rebalances, hung commits and crashes.   *)
NoLoss == \A e \in Entities : CommittedIsLanded(e)

Proceeds(e) == main \in {"loop", "down"} \/ flush[e] \in InFlight

ConsumedIsKept(e) ==
  Proceeds(e) => Decodable(e, 0, pos[e]) \subseteq held[e] \cup landed[e]

Written == {"committing", "acknowledged", "reporting", "raised"}

WrittenIsLanded(e) == flush[e] \in Written => held[e] \subseteq landed[e]

LateIsLanded(e) == Decodable(e, 0, late[e]) \subseteq landed[e]

EntityInv(e) == /\ OffsetsExist(e)
                /\ CommittedIsLanded(e)
                /\ ConsumedIsKept(e)
                /\ WrittenIsLanded(e)
                /\ LateIsLanded(e)

(* The pool's queue holds exactly one entry per submitted flush. *)
QueueOK ==
  /\ \A i \in 1 .. Len(queue) : flush[queue[i]] = "queued"
  /\ \A i, j \in 1 .. Len(queue) : queue[i] = queue[j] => i = j

DeliveryInv == TypeOK /\ QueueOK /\ \A e \in Entities : EntityInv(e)

(* A full buffer is never polled again before it is flushed, so a flush of *)
(* one whose consumer had nothing to commit would fail in the same way     *)
(* forever: a full buffer always comes with an offset to commit.           *)
FullBufferCanCommit ==
  \A e \in Entities :
    size[e] >= MaxBatch[e] /\ flush[e] \notin {"reporting", "raised"}
      => stored[e]

(* Exactly-once as long as nothing goes wrong: a row is appended again     *)
(* only after a failure, a rebalance or a crash.                           *)
NoRepeatWithoutFault == faults = 0 => \A e \in Entities : ~repeated[e]

(* Nothing falls between the buffer and the table: as long as nothing goes *)
(* wrong, an entity whose flush is over buffers exactly the rows it has    *)
(* consumed and not committed.                                             *)
BufferIsBacklog ==
  faults = 0 =>
    \A e \in Entities : flush[e] = "none" /\ status[e] = "assigned" =>
      /\ held[e] = Decodable(e, committed[e], pos[e])
      /\ size[e] = Cardinality(held[e])

(* "already durably written": a batch leaves the memory of a process that  *)
(* lives on only when its rows are in the table.                           *)
DropsOnlyLanded ==
  [][main' # "down" =>
       \A e \in Entities : held[e] \ held'[e] \subseteq landed'[e]]_vars

(* The buffer a worker flushes is not touched before the flush is over:    *)
(* what is committed is what was written.                                  *)
FlushOwnsBuffer ==
  [][\A e \in Entities : flush[e] \in InFlight /\ flush'[e] \in InFlight
        => held'[e] = held[e] /\ pos'[e] = pos[e]]_vars

(* Every event that decodes to a row is eventually committed (hence in the *)
(* table): no entity is starved by the others, idles forever, or is stuck  *)
(* behind a commit that cannot succeed.                                    *)
EventuallyCommitted ==
  \A e \in Entities, o \in 1 .. MaxLog :
    (o <= Len(log[e]) /\ o \in Decodable(e, 0, o)) ~> o <= committed[e]

(* The abstract promise. *)
Delivery == INSTANCE BronzeDelivery

Delivers == Delivery!Spec

(* "_flush() catches and logs every write/commit failure internally and    *)
(* never raises" (the comment at future.result()).                         *)
FlushNeverRaises == \A e \in Entities : flush[e] # "raised"

(* "callers -- tests included -- always see a fully flushed, quiescent     *)
(* state once it does" (the docstring of run_bronze_consumer).             *)
FullyFlushedOnReturn ==
  main = "returned" => \A e \in Entities : held[e] = {}
=============================================================================
