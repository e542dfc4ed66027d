------------------------------ MODULE FairPool ------------------------------
(***************************************************************************)
(* What a connection pool with a limit promises to its clients: at most    *)
(* Limit of them are inside, one that finds the pool full joins the end of *)
(* the line, and whoever leaves lets the first in line in.  Nobody joins a *)
(* line that a free place would spare him, and nobody enters past a line.  *)
(* ConnectionPool implements this.                                         *)
(***************************************************************************)
EXTENDS Naturals, Sequences, FiniteSets

CONSTANTS Clients, Limit   \* a Limit of 0 is no limit

VARIABLES
    line,     \* the clients that wait, in the order in which they came
    inside    \* the clients that have a connection, or get a new one

vars == <<line, inside>>

Init == line = <<>> /\ inside = {}

Outside(c) == c \notin inside /\ \A i \in DOMAIN line : line[i] # c

Room == Limit = 0 \/ Cardinality(inside) < Limit

Enter(c) ==
    /\ Outside(c)
    /\ line = <<>>
    /\ Room
    /\ inside' = inside \cup {c}
    /\ UNCHANGED line

Wait(c) ==
    /\ Outside(c)
    /\ ~Room
    /\ line' = Append(line, c)
    /\ UNCHANGED inside

Leave(c) ==
    /\ c \in inside
    /\ line = <<>>
    /\ inside' = inside \ {c}
    /\ UNCHANGED line

(* Client c leaves, and the first in line takes its place. *)
MakeWay(c) ==
    /\ c \in inside
    /\ line # <<>>
    /\ inside' = (inside \ {c}) \cup {Head(line)}
    /\ line' = Tail(line)

Next == \E c \in Clients : Enter(c) \/ Wait(c) \/ Leave(c) \/ MakeWay(c)

Spec ==
    /\ Init
    /\ [][Next]_vars
    /\ \A c \in Clients : WF_vars(Leave(c) \/ MakeWay(c))
=============================================================================
