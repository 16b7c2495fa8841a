------------------------ MODULE MCEventDrivenBatch ------------------------
(* Small instances of EventDrivenBatch for TLC: NoStorm bounds the runs by *)
(* the flushes, so as many runs are enough.                                *)
EXTENDS EventDrivenBatch

MCRuns == 1..MaxFlushes
=============================================================================
