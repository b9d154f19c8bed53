--------------------------- MODULE OrderExecutionMC ---------------------------
(* The concurrency run tells states apart without the journal, which no     *)
(* action of OrderExecution reads and no property of that run mentions.    *)
EXTENDS OrderExecution

AllButJournal == <<lockVars, supVars, bookVars, handVars, orch, failures, local, faults>>
=============================================================================
