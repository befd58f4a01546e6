--------------------------- MODULE MCMemberships ---------------------------
(* Memberships with small sets. *)
EXTENDS Memberships, TLC

\* Rows, users and the requests of one kind are interchangeable.
Symmetry ==
  Permutations(Users) \union Permutations(Members) \union
  Permutations(Changes)
=============================================================================
