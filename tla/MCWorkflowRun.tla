--------------------------- MODULE MCWorkflowRun ---------------------------
(* Small instances of WorkflowRun for TLC.  The executions of a run are      *)
(* interchangeable: no property names one.                                   *)
EXTENDS WorkflowRun, TLC

AnyWorker == Permutations(Workers)
=============================================================================
