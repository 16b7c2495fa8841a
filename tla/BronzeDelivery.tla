--------------------------- MODULE BronzeDelivery ---------------------------
(***************************************************************************)
(* What the streaming half of the platform promises, whatever its          *)
(* implementation: every change event of an entity that can be decoded     *)
(* lands in the entity's Bronze table before its offset is committed, so   *)
(* that a restarted consumer, which resumes at the committed offset, has   *)
(* nothing left to recover.  Rows may land more than once and in any       *)
(* order.                                                                  *)
(***************************************************************************)
EXTENDS Naturals, Sequences

CONSTANTS Entities,   \* the streamed tables, one Kafka topic each
          Kinds       \* what a change event can be

VARIABLES log,        \* log[e]: the topic, a sequence of kinds of events
          landed,     \* landed[e]: offsets whose row is in the Bronze table
          committed   \* committed[e]: events the consumer group has committed

vars == <<log, landed, committed>>

(* The offsets in (lo, hi] whose event decodes to a row. *)
Decodable(events, lo, hi) ==
  {o \in lo + 1 .. hi : events[o] # "malformed"}

Init ==
  /\ log = [e \in Entities |-> << >>]
  /\ landed = [e \in Entities |-> {}]
  /\ committed = [e \in Entities |-> 0]

Produce(e) ==
  /\ \E kind \in Kinds : log' = [log EXCEPT ![e] = Append(@, kind)]
  /\ UNCHANGED <<landed, committed>>

Land(e) ==
  /\ \E rows \in SUBSET Decodable(log[e], 0, Len(log[e])) :
       landed' = [landed EXCEPT ![e] = @ \cup rows]
  /\ UNCHANGED <<log, committed>>

Commit(e) ==
  /\ \E n \in committed[e] .. Len(log[e]) :
       /\ Decodable(log[e], 0, n) \subseteq landed[e]
       /\ committed' = [committed EXCEPT ![e] = n]
  /\ UNCHANGED <<log, landed>>

Next == \E e \in Entities : Produce(e) \/ Land(e) \/ Commit(e)

Spec == Init /\ [][Next]_vars
=============================================================================
