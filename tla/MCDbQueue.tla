----------------------------- MODULE MCDbQueue -----------------------------
(* Instances of DbQueue for TLC. *)
EXTENDS DbQueue, TLC

(* The calls are alike until they are made. *)
Symmetry == Permutations(Calls)
=============================================================================
