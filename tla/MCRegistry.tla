----------------------------- MODULE MCRegistry -----------------------------
(* Registry on a small instance: rows, files and requests are alike. *)
EXTENDS Registry, TLC

Symmetry == Permutations(Ids) \cup Permutations(Files) \cup Permutations(Requests)

=============================================================================
