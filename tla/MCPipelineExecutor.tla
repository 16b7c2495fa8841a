------------------------- MODULE MCPipelineExecutor -------------------------
(* A small instance of PipelineExecutor for TLC: a group of two stages, a  *)
(* lone stage and another group of two.                                    *)
EXTENDS PipelineExecutor

MCGroupOf == [s \in Stages |-> IF s <= 2 THEN 1 ELSE IF s = 3 THEN 2 ELSE 3]
MCMaxAttempts == [s \in Stages |-> IF s \in {1, 4} THEN 2 ELSE 1]
MCPolicySets == SUBSET {"failfast", "retry", "timeout"}
=============================================================================
