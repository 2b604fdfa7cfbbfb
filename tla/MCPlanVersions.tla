--------------------------- MODULE MCPlanVersions ---------------------------
(* Instances of PlanVersions for TLC. *)
EXTENDS PlanVersions, TLC

\* Requests are interchangeable, and so are decisions and codes.
Symmetry == Permutations(Requests) \union Permutations(Decisions) \union Permutations(Codes)
=============================================================================
