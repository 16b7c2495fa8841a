-------------------------- MODULE MCBronzeConsumer --------------------------
(* Small instances of BronzeConsumer for TLC. *)
EXTENDS BronzeConsumer

MCMaxBatch == [e \in Entities |-> 2]
MCPollCap == [e \in Entities |-> IF e = 1 THEN 1 ELSE 2]
=============================================================================
