---------------------------- MODULE Transactions ----------------------------
(* Transactions on one pooled connection: beginTransaction, endTransaction  *)
(* and close of lib/odbc.js, and what they do to the CLI driver             *)
(* (src/odbc_connection.cpp).                                               *)
(*                                                                          *)
(* The transaction calls do not wait in the connection's queue, queries do; *)
(* a thread of the pool runs each of them, and any two that are under way   *)
(* may run in either order.  Ending a transaction is two calls of the       *)
(* driver.  A client gets the connection from the pool, makes calls, and    *)
(* closes it; the pool is ConnectionPool's subject, the queue is DbQueue's. *)
(* Every query writes something of its own.                                 *)
EXTENDS Naturals, Sequences

CONSTANTS
    Clients,    \* who gets the connection from the pool
    Nobody,     \* none of them
    MaxCalls    \* bound on the calls made

ASSUME NobodyAssumption == Nobody \notin Clients
ASSUME MaxCallsAssumption == MaxCalls \in Nat

VARIABLES
    calls,      \* the calls made, in this order
    auto,       \* SQL_ATTR_AUTOCOMMIT is on
    pending,    \* what is written in the open transaction
    committed,  \* what is committed
    alive,      \* the server has not dropped the connection
    holder,     \* the client that has the connection
    inTransaction,  \* conn.inTransaction
    js,         \* the synchronous call that blocks the JavaScript thread
    unit,       \* the transaction each client takes itself to be in, 0: none
    told,       \* what a client has been told of each of its writes
    mishaps,    \* what has happened that the clients cannot know
    obeyed      \* the driver did what conn.inTransaction was last set for

vars == <<calls, auto, pending, committed, alive, holder, inTransaction, js,
          unit, told, mishaps, obeyed>>

Ids == 1..MaxCalls

Init ==
    /\ calls = <<>>
    /\ auto = TRUE /\ pending = {} /\ committed = {} /\ alive = TRUE
    /\ holder = Nobody /\ inTransaction = FALSE /\ js = 0
    /\ unit = [c \in Clients |-> 0]
    /\ told = [i \in Ids |-> "nothing"]
    /\ mishaps = {} /\ obeyed = TRUE

-----------------------------------------------------------------------------
UnderWay(i) == calls[i].phase # "over"

Waiting == {i \in DOMAIN calls : UnderWay(i)}

(* The connection is handed to the next client while the rollback of the    *)
(* last is under way; a failure is reported to nobody, or as success; the   *)
(* driver refuses to end a transaction by turning autocommit on.            *)
Mishaps == {"early", "swallowed", "refused"}

Kinds == {"begin", "commit", "rollback", "write"}

(* how: with a callback, synchronous, or by the pool when a client closes.  *)
Call(c, k, h) ==
    /\ js = 0 /\ Len(calls) < MaxCalls
    /\ calls' = Append(calls, [by |-> c, kind |-> k, how |-> h, in |-> unit[c],
                               phase |-> "queued", ret |-> "ok"])
    /\ js' = IF h \in {"sync", "closeSync"} THEN Len(calls) + 1 ELSE 0
    /\ UNCHANGED obeyed

(* Clients wait for each call before they make the next. *)
ByHolder(c) ==
    /\ holder = c
    /\ \A i \in Waiting : calls[i].by # c
    /\ UNCHANGED mishaps

(* The pool does not keep a connection it knows to be lost. *)
Take(c) ==
    /\ js = 0 /\ alive /\ holder = Nobody
    /\ holder' = c
    /\ mishaps' = mishaps \cup IF Waiting # {} THEN {"early"} ELSE {}
    /\ UNCHANGED <<calls, auto, pending, committed, alive, inTransaction, js,
                   unit, told, obeyed>>

(* conn.inTransaction is set before the worker has run; a synchronous call  *)
(* sets it when it has succeeded.                                           *)
BeginTransaction(c, h) ==
    /\ ByHolder(c) /\ Call(c, "begin", h)
    /\ inTransaction' = IF h = "async" THEN TRUE ELSE inTransaction
    /\ UNCHANGED <<auto, pending, committed, alive, holder, unit, told>>

EndTransaction(c, k, h) ==
    /\ ByHolder(c) /\ Call(c, k, h)
    /\ inTransaction' = FALSE
    /\ UNCHANGED <<auto, pending, committed, alive, holder, unit, told>>

Query(c) ==
    /\ ByHolder(c) /\ Call(c, "write", "async")
    /\ UNCHANGED <<auto, pending, committed, alive, holder, inTransaction, unit,
                   told>>

(* A client that closes within a transaction takes it to be rolled back. *)
LeavesUnit(c) ==
    /\ told' = [i \in Ids |->
          IF i \in DOMAIN calls /\ calls[i].by = c /\ told[i] = "unit"
          THEN "undone" ELSE told[i]]
    /\ unit' = [unit EXCEPT ![c] = 0]

(* The pool rolls back a transaction it finds open, asynchronously in       *)
(* close, and makes the connection available at once.                       *)
PoolClose(c, h) ==
    /\ ByHolder(c) /\ js = 0
    /\ IF inTransaction
       THEN Call(c, "rollback", h)
       ELSE UNCHANGED <<calls, js, obeyed>>
    /\ LeavesUnit(c)
    /\ inTransaction' = FALSE
    /\ holder' = Nobody
    /\ UNCHANGED <<auto, pending, committed, alive>>

-----------------------------------------------------------------------------
(* The driver, called by a thread of the pool or by the JavaScript thread.  *)

Returns(i, r) == calls' = [calls EXCEPT ![i].phase = "done", ![i].ret = r]

AtWork(i, kinds) == calls[i].kind \in kinds /\ calls[i].phase = "queued"

(* The handlers of the asynchronous transaction calls read the result       *)
(* through another struct: whatever happened, they find SQL_SUCCESS.  The   *)
(* pool ignores what becomes of its rollbacks.                              *)
Failure(i) == IF calls[i].how = "sync" THEN {} ELSE {"swallowed"}

Unchanged == UNCHANGED <<holder, inTransaction, js, unit, told>>

(* SQL_AUTOCOMMIT_OFF, which the driver may refuse.  The asynchronous call  *)
(* has set conn.inTransaction already and does not take it back.            *)
UV_BeginTransaction(i) ==
    /\ AtWork(i, {"begin"})
    /\ \/ /\ alive
          /\ auto' = FALSE /\ obeyed' = TRUE
          /\ Returns(i, "ok")
          /\ UNCHANGED mishaps
       \/ /\ Returns(i, "error")
          /\ mishaps' = mishaps \cup Failure(i)
          /\ obeyed' = (obeyed /\ calls[i].how = "sync")
          /\ UNCHANGED auto
    /\ UNCHANGED <<pending, committed, alive>> /\ Unchanged

(* Mutant: the work waits for the event loop, which a synchronous call holds. *)
UV_EndTran_InLoop(i) ==
    /\ AtWork(i, {"commit", "rollback"}) /\ js = 0
    /\ \/ /\ alive
          /\ calls' = [calls EXCEPT ![i].phase = "ended"]
          /\ committed' = IF calls[i].kind = "commit"
                          THEN committed \cup pending ELSE committed
          /\ pending' = {}
          /\ UNCHANGED mishaps
       \/ /\ calls' = [calls EXCEPT ![i].phase = "ended", ![i].ret = "error"]
          /\ mishaps' = mishaps \cup Failure(i)
          /\ pending' \in {pending, {}}
          /\ UNCHANGED committed
    /\ UNCHANGED <<auto, alive, obeyed>> /\ Unchanged

(* SQLEndTran.  A commit that fails leaves the transaction open or has been *)
(* rolled back by the server.                                               *)
UV_EndTran(i) ==
    /\ AtWork(i, {"commit", "rollback"})
    /\ \/ /\ alive
          /\ calls' = [calls EXCEPT ![i].phase = "ended"]
          /\ committed' = IF calls[i].kind = "commit"
                          THEN committed \cup pending ELSE committed
          /\ pending' = {}
          /\ UNCHANGED mishaps
       \/ /\ calls' = [calls EXCEPT ![i].phase = "ended", ![i].ret = "error"]
          /\ mishaps' = mishaps \cup Failure(i)
          /\ pending' \in {pending, {}}
          /\ UNCHANGED committed
    /\ UNCHANGED <<auto, alive, obeyed>> /\ Unchanged

(* The driver turns autocommit on and commits what is still open. *)
AutocommitIsOn ==
    /\ alive
    /\ auto' = TRUE /\ obeyed' = TRUE
    /\ committed' = committed \cup pending /\ pending' = {}
    /\ UNCHANGED mishaps

(* It refuses, and the transaction stays open. *)
AutocommitRefused(i) ==
    /\ obeyed' = FALSE
    /\ mishaps' = mishaps \cup Failure(i) \cup IF alive THEN {"refused"} ELSE {}
    /\ UNCHANGED <<auto, pending, committed>>

(* Mutant: autocommit stays off after a failure. *)
UV_AutocommitOn_IfEnded(i) ==
    /\ calls[i].phase = "ended"
    /\ \/ calls[i].ret = "ok" /\ AutocommitIsOn /\ Returns(i, "ok")
       \/ calls[i].ret = "ok" /\ AutocommitRefused(i) /\ Returns(i, "error")
       \/ /\ calls[i].ret = "error" /\ Returns(i, "error")
          /\ UNCHANGED <<auto, pending, committed, mishaps, obeyed>>
    /\ UNCHANGED alive /\ Unchanged

(* Mutant: the second call's result replaces the first's. *)
UV_AutocommitOn_LastResult(i) ==
    /\ calls[i].phase = "ended"
    /\ \/ AutocommitIsOn /\ Returns(i, "ok")
       \/ AutocommitRefused(i) /\ Returns(i, "error")
    /\ UNCHANGED alive /\ Unchanged

(* SQL_AUTOCOMMIT_ON, whether the transaction has ended or not. *)
UV_AutocommitOn(i) ==
    /\ calls[i].phase = "ended"
    /\ \/ AutocommitIsOn /\ Returns(i, calls[i].ret)
       \/ AutocommitRefused(i) /\ Returns(i, "error")
    /\ UNCHANGED alive /\ Unchanged

(* Queries wait for each other in the connection's queue. *)
UV_Query(i) ==
    /\ AtWork(i, {"write"})
    /\ \A j \in 1..(i - 1) : calls[j].kind = "write" => ~UnderWay(j)
    /\ \/ /\ alive
          /\ committed' = IF auto THEN committed \cup pending \cup {i}
                          ELSE committed
          /\ pending' = IF auto THEN {} ELSE pending \cup {i}
          /\ Returns(i, "ok")
       \/ Returns(i, "error") /\ UNCHANGED <<pending, committed>>
    /\ UNCHANGED <<auto, alive, mishaps, obeyed>> /\ Unchanged

(* The server rolls back. *)
ConnectionLost ==
    /\ alive
    /\ alive' = FALSE
    /\ pending' = {}
    /\ UNCHANGED <<calls, auto, committed, mishaps, obeyed>> /\ Unchanged

-----------------------------------------------------------------------------
(* The calls return. *)

(* Only what has been written is remembered, and in which transaction. *)
Over(i) ==
    calls' = [calls EXCEPT ![i] =
        IF @.kind = "write" THEN [@ EXCEPT !.phase = "over", !.ret = "ok"]
        ELSE [by |-> Nobody, kind |-> "past", how |-> "none", in |-> 0,
              phase |-> "over", ret |-> "ok"]]

(* What client c is told: its open unit has this outcome. *)
UnitIs(c, outcome) ==
    told' = [i \in Ids |->
        IF i \in DOMAIN calls /\ calls[i].by = c /\ told[i] = "unit"
        THEN outcome ELSE told[i]]

Delivered(i) ==
    /\ calls[i].phase = "done" /\ js \in {0, i}
    /\ Over(i)
    /\ js' = 0
    /\ UNCHANGED <<auto, pending, committed, alive, holder, mishaps, obeyed>>

ReportedOk(i) == calls[i].how = "async" \/ calls[i].ret = "ok"

UV_AfterBeginTransaction(i) ==
    /\ calls[i].kind = "begin" /\ Delivered(i)
    /\ unit' = [unit EXCEPT ![calls[i].by] = IF ReportedOk(i) THEN i ELSE @]
    /\ inTransaction' =
          (inTransaction \/ (calls[i].how = "sync" /\ calls[i].ret = "ok"))
    /\ UNCHANGED told

UV_AfterEndTransaction(i) ==
    /\ calls[i].kind \in {"commit", "rollback"} /\ Delivered(i)
    /\ IF calls[i].how \in {"async", "sync"}
       THEN /\ UnitIs(calls[i].by,
                  IF ~ReportedOk(i) THEN "unknown"
                  ELSE IF calls[i].kind = "commit" THEN "committed"
                  ELSE "undone")
            /\ unit' = [unit EXCEPT ![calls[i].by] = 0]
       ELSE UNCHANGED <<told, unit>>
    /\ UNCHANGED inTransaction

(* A query's result is the true one. *)
UV_AfterQuery(i) ==
    /\ calls[i].kind = "write" /\ Delivered(i)
    /\ told' = [told EXCEPT ![i] =
          IF calls[i].ret = "error" THEN "unknown"
          ELSE IF calls[i].in = 0 THEN "committed" ELSE "unit"]
    /\ UNCHANGED <<inTransaction, unit>>

-----------------------------------------------------------------------------
Client(c) ==
    \/ Take(c)
    \/ \E h \in {"async", "sync"} :
          \/ BeginTransaction(c, h)
          \/ \E k \in {"commit", "rollback"} : EndTransaction(c, k, h)
    \/ Query(c)
    \/ \E h \in {"close", "closeSync"} : PoolClose(c, h)

Worker(i) ==
    \/ UV_BeginTransaction(i) \/ UV_EndTran(i) \/ UV_AutocommitOn(i)
    \/ UV_Query(i)

After(i) ==
    UV_AfterBeginTransaction(i) \/ UV_AfterEndTransaction(i) \/ UV_AfterQuery(i)

Next ==
    \/ \E c \in Clients : Client(c)
    \/ \E i \in DOMAIN calls : Worker(i) \/ After(i)
    \/ ConnectionLost

(* The thread pool runs all work, the event loop every handler. *)
Fairness ==
    \A i \in Ids : WF_vars(i \in DOMAIN calls /\ (Worker(i) \/ After(i)))

Spec == Init /\ [][Next]_vars /\ Fairness

-----------------------------------------------------------------------------
(* Properties. *)

Outcomes == {"nothing", "unit", "committed", "undone", "unknown"}

CallRecords ==
    [by : Clients \cup {Nobody}, kind : Kinds \cup {"past"},
     how : {"async", "sync", "close", "closeSync", "none"},
     in : 0..MaxCalls, phase : {"queued", "ended", "done", "over"},
     ret : {"ok", "error"}]

(* The variables hold what the code's fields can hold. *)
TypeOK ==
    /\ calls \in Seq(CallRecords) /\ Len(calls) <= MaxCalls
    /\ auto \in BOOLEAN /\ alive \in BOOLEAN /\ inTransaction \in BOOLEAN
    /\ pending \subseteq DOMAIN calls /\ committed \subseteq DOMAIN calls
    /\ holder \in Clients \cup {Nobody}
    /\ js \in 0..MaxCalls
    /\ unit \in [Clients -> 0..MaxCalls]
    /\ told \in [Ids -> Outcomes]
    /\ mishaps \subseteq Mishaps
    /\ obeyed \in BOOLEAN

(* A client that has been told of a commit, or of a rollback, has been told *)
(* the truth, as long as the pool hands out no connection that is still     *)
(* rolling back, no failure is swallowed and no transaction is left open    *)
(* because the driver refuses to turn autocommit on.                        *)
ToldIsTrue ==
    mishaps = {} =>
        \A i \in Ids : /\ told[i] = "committed" => i \in committed
                       /\ told[i] = "undone" => i \notin committed

(* When nothing is under way conn.inTransaction says what the driver does:  *)
(* close rolls back exactly the transactions that are open.  Except after   *)
(* the driver has refused what conn.inTransaction was set for, until it     *)
(* next obeys, and once a connection was handed over while it rolled back.  *)
FlagIsAutocommit ==
    "early" \notin mishaps /\ Waiting = {} /\ obeyed => inTransaction = ~auto

(* What a client has left open when it closed does not stay open for ever,  *)
(* unless the driver has refused to turn autocommit on.                     *)
LeftWorkEnds ==
    \A i \in Ids :
        (i \in pending /\ calls[i].by # holder)
            ~> i \notin pending \/ "refused" \in mishaps

(* A client that has been told that its transaction is committed finds it   *)
(* committed.                                                               *)
CommitIsHonest ==
    \A i \in Ids : told[i] = "committed" => i \in committed
=============================================================================
