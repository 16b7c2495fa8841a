----------------------------- MODULE MCPlatform -----------------------------
(* Small instances of the parts of Platform.                               *)
EXTENDS Platform

CONSTANTS s1, s2, o1, o2

MCSettings ==
  {[size |-> 1, threshold |-> 8, stocked |-> 2, running |-> {s1, s2}],
   [size |-> 1, threshold |-> 3, stocked |-> 1, running |-> {s1, s2}],
   [size |-> 2, threshold |-> 5, stocked |-> 1, running |-> {s1}]}

(* Two processes on one order; one process that takes one of two at a time.*)
MCPlans ==
  {Idle, [walkers |-> {s1, s2}, orders |-> {o1}, limit |-> 1],
   [walkers |-> {s1}, orders |-> {o1, o2}, limit |-> 1]}

MCConnections == <<"aws_default", "kafka_default">>
MCConnectionInputs ==
  [c \in {"aws_default", "kafka_default"} |->
     {"environment"} \cup IF c = "aws_default" THEN {"terraform_outputs.json"} ELSE {}]
MCOutputVariables == <<"environment">>
MCConfigVariables == <<"environment">>
MCPools == <<"ingestion">>
=============================================================================
