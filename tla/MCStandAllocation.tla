------------------------- MODULE MCStandAllocation -------------------------
(* Instance of StandAllocation for TLC: a stand on two plots, the two stands  *)
(* it would be split into, and the one they would be merged into again.       *)
EXTENDS StandAllocation, TLC

CONSTANTS whole, left, right, again

MCGround == [s \in {whole, left, right, again} |->
               CASE s = left -> {1} [] s = right -> {2} [] OTHER -> {1, 2}]

\* Officers are interchangeable, and so are citizens.
Symmetry == Permutations(Officers) \union Permutations(Citizens)
=============================================================================
