------------------------ MODULE MCWorkflowSchedule ------------------------
(* Small instances of WorkflowSchedule for TLC.                              *)
EXTENDS WorkflowSchedule, TLC

AnyWorker == Permutations(Workers)
=============================================================================
