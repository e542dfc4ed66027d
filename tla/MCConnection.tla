---------------------------- MODULE MCConnection ----------------------------
(* Instances of Connection for TLC. *)
EXTENDS Connection, TLC

(* Places and numbers are alike. *)
Symmetry == Permutations(Conns) \cup Permutations(Objs) \cup Permutations(Works)
              \cup Permutations(Dbcs) \cup Permutations(Stmts)
=============================================================================
