--------------------------- MODULE MCTimeBilling ---------------------------
(***************************************************************************)
(* TimeBilling for TLC: the sets that a .cfg cannot write.                 *)
(***************************************************************************)
EXTENDS TimeBilling, TLC

\* A PATCH that asks for anything, and one that asks for a higher rate.
AnyChange == Change
Raises == {[minutes |-> None, rate |-> r] : r \in Rates \ {1}}

Alike == Permutations(Entries) \union Permutations(Generations) \union Permutations(LineEdits)
=============================================================================
