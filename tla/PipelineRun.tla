----------------------------- MODULE PipelineRun -----------------------------
(***************************************************************************)
(* What an execution of a Pipeline promises, whichever executor runs it:   *)
(* a group of stages starts only when every stage of the groups before it  *)
(* has answered (with fail_fast: has answered well), the result is only    *)
(* given once nothing is running any more, and it says COMPLETED only when *)
(* every stage completed.                                                  *)
(***************************************************************************)
EXTENDS Naturals

CONSTANTS Stages,    \* the stages of the pipeline
          GroupOf    \* GroupOf[s]: the position of the group s belongs to

VARIABLES failFast,  \* FailurePolicy(fail_fast=True) is registered
          outcome,   \* outcome[s]: "waiting", "running", "completed",
                     \* "failed" or "raised"
          verdict    \* status of the PipelineResult, "none" before

vars == <<failFast, outcome, verdict>>

Over(s) == outcome[s] \in (IF failFast THEN {"completed"}
                                       ELSE {"completed", "failed"})

Init == /\ failFast \in BOOLEAN
        /\ outcome = [s \in Stages |-> "waiting"]
        /\ verdict = "none"

Begin(s) ==
  /\ verdict = "none"
  /\ outcome[s] = "waiting"
  /\ \A t \in Stages : GroupOf[t] < GroupOf[s] => Over(t)
  /\ outcome' = [outcome EXCEPT ![s] = "running"]
  /\ UNCHANGED <<failFast, verdict>>

End(s) ==
  /\ verdict = "none"
  /\ outcome[s] = "running"
  /\ \E o \in {"completed", "failed", "raised"} :
       outcome' = [outcome EXCEPT ![s] = o]
  /\ UNCHANGED <<failFast, verdict>>

Conclude ==
  /\ verdict = "none"
  /\ \A s \in Stages : outcome[s] # "running"
  /\ \/ verdict' = "FAILED"
     \/ /\ \A s \in Stages : outcome[s] = "completed"
        /\ verdict' = "COMPLETED"
  /\ UNCHANGED <<failFast, outcome>>

Next == Conclude \/ \E s \in Stages : Begin(s) \/ End(s)

Spec == Init /\ [][Next]_vars
=============================================================================
