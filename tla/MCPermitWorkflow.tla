---------------------------- MODULE MCPermitWorkflow ----------------------------
(* Instances of PermitWorkflow for TLC. *)
EXTENDS PermitWorkflow

CONSTANTS eo, other

\* An Executive Officer with a planner or an administrator.
EoAndPlanner   == [u \in {eo, other} |-> IF u = eo THEN "eo" ELSE "planner"]
EoAndAdmin     == [u \in {eo, other} |-> IF u = eo THEN "eo" ELSE "admin"]
=============================================================================
