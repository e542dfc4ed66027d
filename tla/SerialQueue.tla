---------------------------- MODULE SerialQueue ----------------------------
(***************************************************************************)
(* What the queue of a connection is there for: the calls an application   *)
(* makes on one connection are carried out one at a time, in the order     *)
(* they were made, and each is answered once.  DbQueue implements this.    *)
(***************************************************************************)
EXTENDS Sequences

CONSTANTS Calls, Nobody

VARIABLES
    waiting,   \* calls made and not started
    current,   \* the call that is being carried out, or Nobody
    answered   \* answered[c]: how often the callback of c was called

vars == <<waiting, current, answered>>

Init ==
    /\ waiting = <<>>
    /\ current = Nobody
    /\ answered = [c \in Calls |-> 0]

Submit(c) ==
    /\ answered[c] = 0
    /\ c # current
    /\ \A i \in DOMAIN waiting : waiting[i] # c
    /\ waiting' = Append(waiting, c)
    /\ UNCHANGED <<current, answered>>

Serve ==
    /\ current = Nobody
    /\ waiting # <<>>
    /\ current' = Head(waiting)
    /\ waiting' = Tail(waiting)
    /\ UNCHANGED answered

Answer ==
    /\ current # Nobody
    /\ answered' = [answered EXCEPT ![current] = 1]
    /\ current' = Nobody
    /\ UNCHANGED waiting

(* A call that needs no work is answered when its turn comes. *)
ServeAtOnce ==
    /\ current = Nobody
    /\ waiting # <<>>
    /\ answered' = [answered EXCEPT ![Head(waiting)] = 1]
    /\ waiting' = Tail(waiting)
    /\ UNCHANGED current

Next ==
    \/ \E c \in Calls : Submit(c)
    \/ Serve
    \/ Answer
    \/ ServeAtOnce

Spec ==
    /\ Init
    /\ [][Next]_vars
    /\ WF_vars(Serve \/ ServeAtOnce)
    /\ WF_vars(Answer)
=============================================================================
