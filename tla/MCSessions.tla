----------------------------- MODULE MCSessions -----------------------------
(***************************************************************************)
(* Sessions for TLC: the sets that a .cfg cannot write.                    *)
(***************************************************************************)
EXTENDS Sessions, TLC

Alike == Permutations(Sessions) \union Permutations(Requests)
=============================================================================
