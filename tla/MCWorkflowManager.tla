-------------------------- MODULE MCWorkflowManager --------------------------
(* Instances of WorkflowManager for TLC.                                   *)
EXTENDS WorkflowManager

CONSTANTS w1, w2, alice, bob

Alices     == [r \in Runs |-> IF r = w1 THEN alice ELSE bob]
EnrolStep  == [r \in Runs |-> IF r = w1 THEN "ENROL" ELSE "STEP-UP"]
=============================================================================
