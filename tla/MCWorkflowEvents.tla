---------------------------- MODULE MCWorkflowEvents ----------------------------
(* WorkflowEvents on workers and on organizations that are alike.            *)
EXTENDS WorkflowEvents, TLC

Alike == Permutations(Workers) \cup Permutations(Orgs)
=================================================================================
