------------------------ MODULE MCWorkflowScheduler ------------------------
(* A small instance of WorkflowScheduler: one definition that is saved again *)
(* with the other of two opposite policies, and one that shares its source.  *)
EXTENDS WorkflowScheduler

CONSTANTS a1, a2

Strict == [overlap |-> "skip", misfire |-> "skip", approval |-> TRUE, isolated |-> TRUE]
Loose == [overlap |-> "allow", misfire |-> "run_latest", approval |-> FALSE,
          isolated |-> FALSE]
Patch == [overlap |-> "skip", misfire |-> "skip", approval |-> FALSE, isolated |-> TRUE]

Both == {a1, a2}
SmallPolicies == [a \in Both |-> IF a = a1 THEN <<Strict, Loose>> ELSE <<Patch>>]
SmallRequests == [a \in Both |-> IF a = a1 THEN 1 ELSE 0]
============================================================================
