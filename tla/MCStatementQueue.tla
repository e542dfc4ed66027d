-------------------------- MODULE MCStatementQueue --------------------------
(* Instances of StatementQueue for TLC. *)
EXTENDS StatementQueue, TLC

(* Calls are alike until they are made. *)
Symmetry == Permutations(Calls)
=============================================================================
