-------------------------- MODULE MCConnectionPool --------------------------
(* Instances of ConnectionPool for TLC. *)
EXTENDS ConnectionPool, TLC

CONSTANTS c1, c2, c3, c4, d1, d2, d3, d4, s1, s2

(* One connection string for all connections. *)
OneStr == {s1}
AllToOne == [d \in Conns |-> s1]

(* Two connection strings, half of the connections each. *)
TwoStrs == {s1, s2}
HalfEach == [d \in Conns |-> IF d \in {d1, d3} THEN s1 ELSE s2]

(* Clients are alike; with one string connections are alike as well, and    *)
(* with two strings the connections of one string are.                      *)
SymmetryOne == Permutations(Clients) \cup Permutations(Conns)
SymmetryTwo == Permutations(Clients)
=============================================================================
