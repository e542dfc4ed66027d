----------------------------- MODULE Connection -----------------------------
(* The native objects of src/odbc_connection.cpp, odbc_statement.cpp and    *)
(* odbc_result.cpp and the CLI handles they hold: who allocates a handle,   *)
(* who shares it and who frees it, on which thread.                         *)
(*                                                                          *)
(* An object's handle is a number.  The driver gives a number out again     *)
(* once its handle is freed, and frees a connection's statements when it    *)
(* disconnects.  Asynchronous methods read the object's numbers on a thread *)
(* of the pool, synchronous ones and destructors run on the JavaScript      *)
(* thread at any time in between.                                           *)
(*                                                                          *)
(* What is executed is left out, and that the driver lets one call at a     *)
(* time into a connection: Statement has that.  Works, Conns and Objs are   *)
(* places for what exists at a time, and bound it.                          *)
EXTENDS Integers, FiniteSets

CONSTANTS
    Conns,      \* connection objects
    Objs,       \* statement and result objects
    Works,      \* pieces of work under way
    Dbcs,       \* numbers of connection handles
    Stmts,      \* numbers of statement handles
    Null        \* no number, no object

ASSUME NullAssumption == Null \notin Conns \cup Objs \cup Works \cup Dbcs \cup Stmts
ASSUME WorksAssumption == IsFiniteSet(Works)
ASSUME NumbersAssumption == Dbcs \cap Stmts = {}

VARIABLES
    conn,       \* the connection objects: m_hDBC, connected, references
    obj,        \* the statement and result objects: m_hSTMT, m_canFreeHandle
    work,       \* the work under way
    dbc,        \* the driver's connection handles
    handle,     \* the driver's statement handles: each one's connection
    refused,    \* those it has refused to free
    careless    \* the application has closed what was in use, see below

vars == <<conn, obj, work, dbc, handle, refused, careless>>

NoConn == [there |-> FALSE, dbc |-> Null, connected |-> FALSE, refs |-> 0,
           held |-> FALSE]
NoObj == [type |-> "none", h |-> Null, canFree |-> FALSE, held |-> FALSE]
NoWork == [op |-> "none", phase |-> "idle", conn |-> Null, obj |-> Null,
           got |-> Null, ok |-> TRUE]

Init ==
    /\ conn = [c \in Conns |-> NoConn]
    /\ obj = [o \in Objs |-> NoObj]
    /\ work = [w \in Works |-> NoWork]
    /\ dbc = [d \in Dbcs |-> "free"]
    /\ handle = [h \in Stmts |-> Null]
    /\ refused = {}
    /\ careless = FALSE

-----------------------------------------------------------------------------
(* Careless: to close or drop a connection with statements, results or work *)
(* on it, to drop a statement or result that other objects or work use, to  *)
(* call what is being closed or dropped, to use createDbSync, dropDbSync or *)
(* a closed connection's synchronous calls.                                 *)
Careless(b) == careless' = (careless \/ b)

ConnInUse(c, w) ==
    \/ \E h \in Stmts : conn[c].dbc # Null /\ handle[h] = conn[c].dbc
    \/ \E v \in Works \ {w} : work[v].conn = c

BeingClosed(c) == \E v \in Works : work[v].conn = c /\ work[v].op = "close"

BeingDropped(h) ==
    \E v \in Works : work[v].obj # Null /\ h # Null /\ obj[work[v].obj].h = h

ObjInUse(o, w) ==
    \/ \E p \in Objs \ {o} : obj[o].h # Null /\ obj[p].h = obj[o].h
    \/ \E v \in Works \ {w} :
          \/ work[v].obj = o
          \/ obj[o].h # Null /\ work[v].got = obj[o].h

-----------------------------------------------------------------------------
(* Work: queued, between two calls of the driver, done; late is the call of *)
(* the driver that follows the callback in UV_AfterGetTypeInfo.             *)

Idle(w) == work[w].phase = "idle"

(* No handler is in the middle of its work; the callback it runs may make   *)
(* synchronous calls and queue work.                                        *)
InLoop == \A w \in Works : work[w].phase # "late"

At(w, op, phase) == work[w].op = op /\ work[w].phase = phase

Queues(w, op, c, o, h) ==
    /\ Idle(w)
    /\ work' = [work EXCEPT ![w] = [op |-> op, phase |-> "queued", conn |-> c,
                                    obj |-> o, got |-> h, ok |-> TRUE]]

(* Mutant: no Ref. *)
QueuesWithRef_NoRef(w, op, c, h) ==
    /\ conn[c].held
    /\ Queues(w, op, c, Null, h)
    /\ Careless(BeingClosed(c) \/ BeingDropped(h))
    /\ UNCHANGED <<conn, obj, dbc, handle, refused>>

(* uv_queue_work, and Ref for as long as the work is under way. *)
QueuesWithRef(w, op, c, h) ==
    /\ conn[c].held
    /\ Queues(w, op, c, Null, h)
    /\ conn' = [conn EXCEPT ![c].refs = @ + 1]
    /\ Careless(BeingClosed(c) \/ BeingDropped(h))
    /\ UNCHANGED <<obj, dbc, handle, refused>>

Done(w, ok) == work' = [work EXCEPT ![w].phase = "done", ![w].ok = ok]

(* The handler is through: Unref. *)
Ends(w) == work' = [work EXCEPT ![w] = NoWork]
Unref(w) == conn' = [conn EXCEPT ![work[w].conn].refs = @ - 1]

Dbc(w) == conn[work[w].conn].dbc

-----------------------------------------------------------------------------
(* The driver. *)

Connected(d) == d # Null /\ dbc[d] \in {"auto", "manual", "tx"}

ValidStmt(h) == h # Null /\ handle[h] # Null

(* SQLAllocHandle for a statement: a free number, or none. *)
AllocStmt(d, h) ==
    IF h = Null THEN UNCHANGED handle
    ELSE /\ Connected(d) /\ handle[h] = Null
         /\ handle' = [handle EXCEPT ![h] = d]

FreedStmt(h) == IF h = Null THEN handle ELSE [handle EXCEPT ![h] = Null]

(* SQLFreeHandle for a statement.  It refuses one that may wait, and does,  *)
(* for the data of a parameter: that has to be given first, or cancelled.   *)
(* Statement has when it happens.  No caller looks at the answer.           *)
FreesStmt(h, mayWait) ==
    \/ /\ handle' = FreedStmt(h)
       /\ refused' = refused \ {h}
    \/ /\ mayWait /\ ValidStmt(h)
       /\ refused' = refused \cup {h}
       /\ UNCHANGED handle

(* SQLDisconnect refuses while a transaction is open; else it frees the     *)
(* connection's statements.                                                 *)
Disconnects(d) == d # Null /\ dbc[d] \in {"auto", "manual"}

FreedStmts(d) == [h \in Stmts |-> IF handle[h] = d THEN Null ELSE handle[h]]

FreesStmts(d) ==
    /\ handle' = FreedStmts(d)
    /\ refused' = {h \in refused : handle[h] # d}

(* SQLFreeHandle refuses while the handle is connected. *)
FreedDbc(d) ==
    IF d # Null /\ dbc[d] = "allocated" THEN [dbc EXCEPT ![d] = "free"] ELSE dbc

(* A statement that runs without autocommit opens a transaction. *)
Touched(h) ==
    {dbc} \cup IF ValidStmt(h) /\ dbc[handle[h]] = "manual"
               THEN {[dbc EXCEPT ![handle[h]] = "tx"]} ELSE {}

-----------------------------------------------------------------------------
(* Connections. *)

NewConn(c, d) ==
    /\ ~conn[c].there
    /\ conn' = [conn EXCEPT ![c] = [there |-> TRUE, dbc |-> d, refs |-> 0,
                                    connected |-> FALSE, held |-> TRUE]]

AllocDbc(d) ==
    IF d = Null THEN UNCHANGED dbc
    ELSE dbc[d] = "free" /\ dbc' = [dbc EXCEPT ![d] = "allocated"]

CreateConnection(w) ==
    /\ Queues(w, "createConnection", Null, Null, Null)
    /\ UNCHANGED <<conn, obj, dbc, handle, refused, careless>>

UV_CreateConnection(w) ==
    /\ At(w, "createConnection", "queued")
    /\ \E d \in Dbcs \cup {Null} :
          /\ AllocDbc(d)
          /\ work' = [work EXCEPT ![w].phase = "done", ![w].got = d]
    /\ UNCHANGED <<conn, obj, handle, refused, careless>>

UV_AfterCreateConnection(w) ==
    /\ At(w, "createConnection", "done") /\ InLoop
    /\ IF work[w].got = Null THEN UNCHANGED conn
       ELSE \E c \in Conns : NewConn(c, work[w].got)
    /\ Ends(w)
    /\ UNCHANGED <<obj, dbc, handle, refused, careless>>

(* Makes an object whether it has a handle or not. *)
CreateConnectionSync(c) ==
    /\ \E d \in Dbcs \cup {Null} : AllocDbc(d) /\ NewConn(c, d)
    /\ UNCHANGED <<obj, work, handle, refused, careless>>

Open(w, c) == QueuesWithRef(w, "open", c, Null)

(* SQLDriverConnect succeeds on an allocated handle, or fails. *)
Connects(d, ok) ==
    dbc' = IF ok THEN [dbc EXCEPT ![d] = "auto"] ELSE dbc

MayConnect(d) ==
    IF d # Null /\ dbc[d] = "allocated" THEN BOOLEAN ELSE {FALSE}

UV_Open(w) ==
    /\ At(w, "open", "queued")
    /\ \E ok \in MayConnect(Dbc(w)) : Connects(Dbc(w), ok) /\ Done(w, ok)
    /\ UNCHANGED <<conn, obj, handle, refused, careless>>

(* Mutant: connected whatever the driver has answered. *)
UV_AfterOpen_Always(w) ==
    /\ At(w, "open", "done") /\ InLoop
    /\ conn' = [conn EXCEPT ![work[w].conn].refs = @ - 1,
                            ![work[w].conn].connected = TRUE]
    /\ Ends(w)
    /\ UNCHANGED <<obj, dbc, handle, refused, careless>>

UV_AfterOpen(w) ==
    /\ At(w, "open", "done") /\ InLoop
    /\ conn' = [conn EXCEPT ![work[w].conn].refs = @ - 1,
                            ![work[w].conn].connected = @ \/ work[w].ok]
    /\ Ends(w)
    /\ UNCHANGED <<obj, dbc, handle, refused, careless>>

OpenSync(c) ==
    /\ conn[c].held
    /\ \E ok \in MayConnect(conn[c].dbc) :
          /\ Connects(conn[c].dbc, ok)
          /\ conn' = [conn EXCEPT ![c].connected = @ \/ ok]
    /\ Careless(BeingClosed(c))
    /\ UNCHANGED <<obj, work, handle, refused>>

Close(w, c) == QueuesWithRef(w, "close", c, Null)

(* Free: SQLDisconnect, SQLFreeHandle, and m_hDBC is NULL whether they have *)
(* succeeded or not.                                                        *)
UV_CloseDisconnects(w) ==
    /\ At(w, "close", "queued")
    /\ Careless(ConnInUse(work[w].conn, w))
    /\ IF Disconnects(Dbc(w))
       THEN /\ dbc' = [dbc EXCEPT ![Dbc(w)] = "allocated"]
            /\ FreesStmts(Dbc(w))
       ELSE UNCHANGED <<dbc, handle, refused>>
    /\ work' = [work EXCEPT ![w].phase = "between"]
    /\ UNCHANGED <<conn, obj>>

UV_Close(w) ==
    /\ At(w, "close", "between")
    /\ dbc' = FreedDbc(Dbc(w))
    /\ conn' = [conn EXCEPT ![work[w].conn].dbc = Null,
                            ![work[w].conn].connected = FALSE]
    /\ Done(w, TRUE)
    /\ UNCHANGED <<obj, handle, refused, careless>>

UV_AfterClose(w) ==
    /\ At(w, "close", "done") /\ InLoop
    /\ Unref(w) /\ Ends(w)
    /\ UNCHANGED <<obj, dbc, handle, refused, careless>>

(* Free, on the JavaScript thread. *)
Free(d) ==
    IF Disconnects(d)
    THEN /\ dbc' = [dbc EXCEPT ![d] = "free"]
         /\ FreesStmts(d)
    ELSE /\ dbc' = FreedDbc(d)
         /\ UNCHANGED <<handle, refused>>

CloseSync(c) ==
    /\ conn[c].held
    /\ Careless(ConnInUse(c, Null))
    /\ Free(conn[c].dbc)
    /\ conn' = [conn EXCEPT ![c].dbc = Null, ![c].connected = FALSE]
    /\ UNCHANGED <<obj, work>>

(* The destructor, once nothing refers to the object. *)
CollectConnection(c) ==
    /\ conn[c].there /\ ~conn[c].held /\ conn[c].refs = 0
    /\ Careless(ConnInUse(c, Null))
    /\ Free(conn[c].dbc)
    /\ conn' = [conn EXCEPT ![c] = NoConn]
    /\ UNCHANGED <<obj, work>>

(* Frees the handle and keeps its number; fails, and then keeps both. *)
FreesDbcOnly(c) ==
    /\ conn[c].held
    /\ \/ Free(conn[c].dbc) /\ Careless(TRUE)
       \/ UNCHANGED <<dbc, handle, refused, careless>>
    /\ UNCHANGED <<conn, obj, work>>

CreateDbSync(c) == FreesDbcOnly(c)
DropDbSync(c) == FreesDbcOnly(c)

-----------------------------------------------------------------------------
(* Statements and results. *)

NewObj(o, type, h, canFree) ==
    /\ obj[o].type = "none"
    /\ obj' = [obj EXCEPT ![o] = [type |-> type, h |-> h, canFree |-> canFree,
                                  held |-> TRUE]]

(* A worker allocates a statement handle. *)
Allocates(w, phase) ==
    /\ \E h \in Stmts \cup {Null} :
          /\ AllocStmt(Dbc(w), h)
          /\ work' = [work EXCEPT ![w].phase = phase, ![w].got = h]
    /\ UNCHANGED <<conn, obj, dbc, refused, careless>>

CreateStatement(w, c) == QueuesWithRef(w, "createStatement", c, Null)

UV_CreateStatement(w) ==
    At(w, "createStatement", "queued") /\ Allocates(w, "done")

(* Makes an object whether it has a handle or not. *)
UV_AfterCreateStatement(w) ==
    /\ At(w, "createStatement", "done") /\ InLoop
    /\ \E o \in Objs : NewObj(o, "statement", work[w].got, TRUE)
    /\ Unref(w) /\ Ends(w)
    /\ UNCHANGED <<dbc, handle, refused, careless>>

(* hSTMT is not initialized: without a connection handle it is any number.  *)
AnyNumber(d) == IF d = Null THEN Stmts \cup {Null} ELSE {}

CreateStatementSync(c, o) ==
    /\ conn[c].held
    /\ \E h \in Stmts \cup {Null} :
          /\ \/ AllocStmt(conn[c].dbc, h)
             \/ h \in AnyNumber(conn[c].dbc) /\ UNCHANGED handle
          /\ NewObj(o, "statement", h, TRUE)
    /\ Careless(conn[c].dbc = Null \/ BeingClosed(c))
    /\ UNCHANGED <<conn, work, dbc, refused>>

Query(w, c) == QueuesWithRef(w, "query", c, Null)
Tables(w, c) == QueuesWithRef(w, "catalog", c, Null)
Columns(w, c) == QueuesWithRef(w, "catalog", c, Null)
GetTypeInfo(w, c) == QueuesWithRef(w, "typeInfo", c, Null)

(* The worker allocates a handle and executes on it. *)
Executes(w) ==
    /\ work[w].phase = "between"
    /\ \E ok \in IF ValidStmt(work[w].got) THEN BOOLEAN ELSE {FALSE} : Done(w, ok)
    /\ dbc' \in Touched(work[w].got)
    /\ UNCHANGED <<conn, obj, handle, refused, careless>>

UV_QueryAllocates(w) == At(w, "query", "queued") /\ Allocates(w, "between")
UV_Query(w) == work[w].op = "query" /\ Executes(w)

UV_TablesAllocates(w) == At(w, "catalog", "queued") /\ Allocates(w, "between")
UV_Tables(w) == work[w].op = "catalog" /\ Executes(w)

UV_GetTypeInfoAllocates(w) ==
    At(w, "typeInfo", "queued") /\ Allocates(w, "between")
UV_GetTypeInfo(w) == work[w].op = "typeInfo" /\ Executes(w)

(* Mutant: an error leaves the handle allocated. *)
FreesGot_IfOk(w) ==
    /\ IF work[w].ok THEN FreesStmt(work[w].got, FALSE)
       ELSE UNCHANGED <<handle, refused>>
    /\ UNCHANGED obj

(* A failed query may leave its handle waiting for data it has not got.     *)
FreesGot(w) ==
    /\ FreesStmt(work[w].got, work[w].op = "query" /\ ~work[w].ok)
    /\ UNCHANGED obj

(* An error frees the handle, and so does a query that wants no result.     *)
UV_AfterQuery(w) ==
    /\ work[w].op \in {"query", "catalog"} /\ work[w].phase = "done" /\ InLoop
    /\ \/ /\ work[w].ok
          /\ \E o \in Objs : NewObj(o, "result", work[w].got, TRUE)
          /\ UNCHANGED <<handle, refused>>
       \/ ~work[w].ok /\ FreesGot(w)
       \/ work[w].op = "query" /\ FreesGot(w)
    /\ Unref(w) /\ Ends(w)
    /\ UNCHANGED <<dbc, careless>>

UV_AfterGetTypeInfo(w) ==
    /\ At(w, "typeInfo", "done") /\ InLoop
    /\ IF work[w].ok
       THEN /\ \E o \in Objs : NewObj(o, "result", work[w].got, TRUE)
            /\ Unref(w) /\ Ends(w)
       ELSE /\ work' = [work EXCEPT ![w].phase = "late"]
            /\ UNCHANGED <<conn, obj>>
    /\ UNCHANGED <<dbc, handle, refused, careless>>

(* Frees the handle after the callback has reported the error. *)
AfterGetTypeInfoFrees(w) ==
    /\ At(w, "typeInfo", "late")
    /\ FreesGot(w)
    /\ Unref(w) /\ Ends(w)
    /\ UNCHANGED <<dbc, careless>>

(* A synchronous query allocates, executes, and makes a result or frees.    *)
(* The freeing may be refused; without a connection handle it frees         *)
(* whatever number hSTMT holds.                                             *)
QueriesSync(c, o) ==
    /\ conn[c].held
    /\ \/ \E h \in Stmts : /\ AllocStmt(conn[c].dbc, h)
                           /\ NewObj(o, "result", h, TRUE)
                           /\ UNCHANGED refused
       \/ \E h \in Stmts : /\ AllocStmt(conn[c].dbc, h)
                           /\ refused' = refused \cup {h}
                           /\ UNCHANGED obj
       \/ \E h \in AnyNumber(conn[c].dbc) : FreesStmt(h, TRUE) /\ UNCHANGED obj
       \/ conn[c].dbc # Null /\ UNCHANGED <<obj, handle, refused>>
    /\ Careless(conn[c].dbc = Null \/ BeingClosed(c))
    /\ dbc' \in {dbc} \cup IF conn[c].dbc # Null /\ dbc[conn[c].dbc] = "manual"
                           THEN {[dbc EXCEPT ![conn[c].dbc] = "tx"]} ELSE {}
    /\ UNCHANGED <<conn, work>>

QuerySync(c, o) == QueriesSync(c, o)
GetTypeInfoSync(c, o) == QueriesSync(c, o)

(* Mutant: the result frees its statement's handle. *)
Execute_Owns(o, p) ==
    /\ obj[o].type = "statement" /\ obj[o].held
    /\ NewObj(p, "result", obj[o].h, TRUE)
    /\ dbc' \in Touched(obj[o].h)
    /\ Careless(BeingDropped(obj[o].h))
    /\ UNCHANGED <<conn, work, handle, refused>>

(* A statement executes, here in one step: the result shares its handle.    *)
Execute(o, p) ==
    /\ obj[o].type = "statement" /\ obj[o].held
    /\ NewObj(p, "result", obj[o].h, FALSE)
    /\ dbc' \in Touched(obj[o].h)
    /\ Careless(BeingDropped(obj[o].h))
    /\ UNCHANGED <<conn, work, handle, refused>>

(* Closing with SQL_DROP.  Free frees the handle and then forgets it,       *)
(* whatever the driver has answered.  A result that shares its handle only  *)
(* closes the cursor, and what it could still do with its number afterwards *)
(* is left out.                                                             *)
CloseObject(w, o) ==
    /\ obj[o].held
    /\ Queues(w, "closeObject", Null, o, Null)
    /\ UNCHANGED <<conn, obj, dbc, handle, refused, careless>>

Drops(o) == obj[o].h # Null /\ obj[o].canFree

(* A statement may wait for data, a query's result does not. *)
FreesOf(o) == FreesStmt(obj[o].h, obj[o].type = "statement")

UV_CloseFrees(w) ==
    /\ At(w, "closeObject", "queued")
    /\ LET o == work[w].obj IN
       /\ IF Drops(o)
          THEN /\ FreesOf(o)
               /\ Careless(ObjInUse(o, w))
          ELSE UNCHANGED <<handle, refused, careless>>
    /\ work' = [work EXCEPT ![w].phase = "between"]
    /\ UNCHANGED <<conn, obj, dbc>>

UV_CloseForgets(w) ==
    /\ At(w, "closeObject", "between")
    /\ obj' = [obj EXCEPT ![work[w].obj].h = Null,
                          ![work[w].obj].canFree = FALSE]
    /\ Done(w, TRUE)
    /\ UNCHANGED <<conn, dbc, handle, refused, careless>>

UV_AfterCloseObject(w) ==
    /\ At(w, "closeObject", "done") /\ InLoop
    /\ Ends(w)
    /\ UNCHANGED <<conn, obj, dbc, handle, refused, careless>>

CloseObjectSync(o) ==
    /\ obj[o].held
    /\ IF Drops(o)
       THEN /\ FreesOf(o)
            /\ Careless(ObjInUse(o, Null))
       ELSE UNCHANGED <<handle, refused, careless>>
    /\ obj' = [obj EXCEPT ![o].h = Null, ![o].canFree = FALSE]
    /\ UNCHANGED <<conn, work, dbc>>

(* The destructor, once nothing refers to the object. *)
CollectObject(o) ==
    /\ obj[o].type # "none" /\ ~obj[o].held
    /\ \A w \in Works : work[w].obj # o
    /\ IF Drops(o)
       THEN /\ FreesOf(o)
            /\ Careless(ObjInUse(o, Null))
       ELSE UNCHANGED <<handle, refused, careless>>
    /\ obj' = [obj EXCEPT ![o] = NoObj]
    /\ UNCHANGED <<conn, work, dbc>>

(* The application lets go of an object. *)
Forget ==
    /\ \/ \E c \in Conns : /\ conn[c].held
                            /\ conn' = [conn EXCEPT ![c].held = FALSE]
                            /\ UNCHANGED obj
       \/ \E o \in Objs : /\ obj[o].held
                           /\ obj' = [obj EXCEPT ![o].held = FALSE]
                           /\ UNCHANGED conn
    /\ UNCHANGED <<work, dbc, handle, refused, careless>>

-----------------------------------------------------------------------------
(* Cancelling: SQLCancel gets the number the statement had when the call    *)
(* was made, and nothing keeps the statement until then.                    *)
Cancel(w, c, o) ==
    /\ obj[o].type = "statement" /\ obj[o].held /\ obj[o].h # Null
    /\ QueuesWithRef(w, "cancel", c, obj[o].h)

UV_Cancel(w) ==
    /\ At(w, "cancel", "queued")
    /\ Done(w, TRUE)
    /\ UNCHANGED <<conn, obj, dbc, handle, refused, careless>>

UV_AfterCancel(w) ==
    /\ At(w, "cancel", "done") /\ InLoop
    /\ Unref(w) /\ Ends(w)
    /\ UNCHANGED <<obj, dbc, handle, refused, careless>>

-----------------------------------------------------------------------------
(* Information and attributes.  One of the attributes is autocommit: to     *)
(* turn it on commits.  The driver may refuse.                              *)
GetInfo(w, c) == QueuesWithRef(w, "info", c, Null)
GetFunctions(w, c) == QueuesWithRef(w, "info", c, Null)
SetAttr(w, c) == QueuesWithRef(w, "setAttr", c, Null)

Asks(w) ==
    /\ At(w, "info", "queued")
    /\ Done(w, TRUE)
    /\ UNCHANGED <<conn, obj, dbc, handle, refused, careless>>

UV_GetInfo(w) == Asks(w)
UV_GetFunctions(w) == Asks(w)

Autocommit(d, on) ==
    dbc' = IF ~Connected(d) THEN dbc
           ELSE [dbc EXCEPT ![d] = IF on THEN "auto"
                                   ELSE IF @ = "tx" THEN "tx" ELSE "manual"]

UV_SetAttr(w) ==
    /\ At(w, "setAttr", "queued")
    /\ \/ \E on \in BOOLEAN : Autocommit(Dbc(w), on)
       \/ UNCHANGED dbc
    /\ Done(w, TRUE)
    /\ UNCHANGED <<conn, obj, handle, refused, careless>>

(* SQLEndTran, then autocommit; either may be refused. *)
EndsTran(d) ==
    \/ Autocommit(d, TRUE)
    \/ /\ Connected(d) /\ dbc[d] = "tx"
       /\ dbc' = [dbc EXCEPT ![d] = "manual"]
    \/ UNCHANGED dbc

(* SetAttrSync, BeginTransactionSync, EndTransactionSync. *)
SetAttrSync(c) ==
    /\ conn[c].held
    /\ Autocommit(conn[c].dbc, FALSE) \/ EndsTran(conn[c].dbc)
    /\ Careless(BeingClosed(c))
    /\ UNCHANGED <<conn, obj, work, handle, refused>>

Answers(w, op) ==
    /\ At(w, op, "done") /\ InLoop
    /\ Unref(w) /\ Ends(w)
    /\ UNCHANGED <<obj, dbc, handle, refused, careless>>

UV_AfterGetInfo(w) == Answers(w, "info")
UV_AfterGetFunctions(w) == Answers(w, "info")
UV_AfterSetAttr(w) == Answers(w, "setAttr")

(* These take no reference: the object may be gone when they run. *)
BeginTransaction(w, c) ==
    /\ conn[c].held
    /\ Queues(w, "begin", c, Null, Null)
    /\ Careless(BeingClosed(c))
    /\ UNCHANGED <<conn, obj, dbc, handle, refused>>

EndTransaction(w, c) ==
    /\ conn[c].held
    /\ Queues(w, "end", c, Null, Null)
    /\ Careless(BeingClosed(c))
    /\ UNCHANGED <<conn, obj, dbc, handle, refused>>

UV_BeginTransaction(w) ==
    /\ At(w, "begin", "queued")
    /\ Autocommit(Dbc(w), FALSE) \/ UNCHANGED dbc
    /\ Done(w, TRUE)
    /\ UNCHANGED <<conn, obj, handle, refused, careless>>

UV_EndTransaction(w) ==
    /\ At(w, "end", "queued")
    /\ EndsTran(Dbc(w))
    /\ Done(w, TRUE)
    /\ UNCHANGED <<conn, obj, handle, refused, careless>>

UV_AfterTransaction(w) ==
    /\ work[w].op \in {"begin", "end"} /\ work[w].phase = "done" /\ InLoop
    /\ Ends(w)
    /\ UNCHANGED <<conn, obj, dbc, handle, refused, careless>>

-----------------------------------------------------------------------------
Application(w, c) ==
    \/ Open(w, c) \/ Close(w, c) \/ CreateStatement(w, c)
    \/ Query(w, c) \/ Tables(w, c) \/ Columns(w, c) \/ GetTypeInfo(w, c)
    \/ GetInfo(w, c) \/ GetFunctions(w, c) \/ SetAttr(w, c)
    \/ BeginTransaction(w, c) \/ EndTransaction(w, c)
    \/ \E o \in Objs : Cancel(w, c, o)

Sync(c) ==
    \/ CreateConnectionSync(c) \/ OpenSync(c) \/ CloseSync(c)
    \/ CreateDbSync(c) \/ DropDbSync(c) \/ SetAttrSync(c)
    \/ \E o \in Objs : \/ CreateStatementSync(c, o) \/ QuerySync(c, o)
                       \/ GetTypeInfoSync(c, o)

Objects(o) ==
    \/ \E p \in Objs : Execute(o, p)
    \/ CloseObjectSync(o) \/ \E w \in Works : CloseObject(w, o)

Worker(w) ==
    \/ UV_CreateConnection(w) \/ UV_Open(w)
    \/ UV_CloseDisconnects(w) \/ UV_Close(w)
    \/ UV_CreateStatement(w) \/ UV_QueryAllocates(w) \/ UV_Query(w)
    \/ UV_TablesAllocates(w) \/ UV_Tables(w)
    \/ UV_GetTypeInfoAllocates(w) \/ UV_GetTypeInfo(w)
    \/ UV_CloseFrees(w) \/ UV_CloseForgets(w) \/ UV_Cancel(w)
    \/ UV_GetInfo(w) \/ UV_GetFunctions(w) \/ UV_SetAttr(w)
    \/ UV_BeginTransaction(w) \/ UV_EndTransaction(w)

Handler(w) ==
    \/ UV_AfterCreateConnection(w) \/ UV_AfterOpen(w) \/ UV_AfterClose(w)
    \/ UV_AfterCreateStatement(w) \/ UV_AfterQuery(w)
    \/ UV_AfterGetTypeInfo(w) \/ AfterGetTypeInfoFrees(w)
    \/ UV_AfterCloseObject(w) \/ UV_AfterCancel(w)
    \/ UV_AfterGetInfo(w) \/ UV_AfterGetFunctions(w) \/ UV_AfterSetAttr(w)
    \/ UV_AfterTransaction(w)

Calls ==
    \/ \E w \in Works : \/ CreateConnection(w)
                        \/ \E c \in Conns : Application(w, c)
    \/ \E c \in Conns : Sync(c)
    \/ \E o \in Objs : Objects(o)

(* Once it has been careless the application makes no more calls; what is   *)
(* under way goes on.  This bounds the model: nothing is claimed of an      *)
(* application that goes on.                                                *)
Next ==
    \/ ~careless /\ (Calls \/ Forget)
    \/ \E w \in Works : Worker(w) \/ Handler(w)
    \/ \E c \in Conns : CollectConnection(c)
    \/ \E o \in Objs : CollectObject(o)

Spec == Init /\ [][Next]_vars

-----------------------------------------------------------------------------
(* Properties. *)

ConnRecords ==
    [there : BOOLEAN, dbc : Dbcs \cup {Null}, connected : BOOLEAN, refs : Int,
     held : BOOLEAN]
ObjRecords ==
    [type : {"none", "statement", "result"}, h : Stmts \cup {Null},
     canFree : BOOLEAN, held : BOOLEAN]
ConnOps ==
    {"open", "close", "createStatement", "query", "catalog", "typeInfo",
     "cancel", "info", "setAttr", "begin", "end"}
WorkRecords ==
    [op : ConnOps \cup {"none", "createConnection", "closeObject"},
     phase : {"idle", "queued", "between", "done", "late"},
     conn : Conns \cup {Null}, obj : Objs \cup {Null},
     got : Dbcs \cup Stmts \cup {Null}, ok : BOOLEAN]

(* The variables hold what the code's fields can hold. *)
TypeOK ==
    /\ conn \in [Conns -> ConnRecords]
    /\ obj \in [Objs -> ObjRecords]
    /\ work \in [Works -> WorkRecords]
    /\ dbc \in [Dbcs -> {"free", "allocated", "auto", "manual", "tx"}]
    /\ handle \in [Stmts -> Dbcs \cup {Null}]
    /\ refused \subseteq Stmts
    /\ careless \in BOOLEAN

Closing(o) ==
    \E w \in Works : work[w].obj = o /\ work[w].phase = "between"

(* Who frees a statement handle, and who uses it. *)
Owners(h) ==
    {o \in Objs : obj[o].h = h /\ obj[o].canFree /\ ~Closing(o)}
        \cup {w \in Works : work[w].got = h /\ work[w].op # "cancel"}

Users(h) ==
    {o \in Objs : obj[o].h = h /\ ~Closing(o)}
        \cup {w \in Works : work[w].got = h}

DbcOwners(d) ==
    {c \in Conns : conn[c].dbc = d} \cup {w \in Works : work[w].got = d}

(* Unless the application is careless no handle is used after it has been   *)
(* freed, and none is freed twice: a number in use has one owner.           *)
OwnHandles ==
    ~careless =>
        /\ \A h \in Stmts : /\ Users(h) # {} => handle[h] # Null
                           /\ \A x, y \in Owners(h) : x = y
        /\ \A d \in Dbcs : \A x, y \in DbcOwners(d) : x = y

(* Every handle of the driver has somebody who will free it, but for a      *)
(* statement whose freeing it has refused, and for a connection that was    *)
(* closed within a transaction: Free forgets both, and the driver keeps     *)
(* them, with the transaction's locks.                                      *)
NoLeak ==
    /\ \A h \in Stmts : handle[h] # Null => Owners(h) # {} \/ h \in refused
    /\ \A d \in Dbcs :
          dbc[d] # "free" => DbcOwners(d) # {} \/ dbc[d] = "tx" \/ careless

(* The connection object is there while work that has a reference runs.     *)
WorkHasItsConnection ==
    \A w \in Works :
        work[w].conn # Null /\ work[w].op \notin {"begin", "end"} =>
            conn[work[w].conn].there

(* Unless the application is careless an object that says it is connected   *)
(* is, or is just being closed.                                             *)
ConnectedIsTrue ==
    \A c \in Conns : conn[c].connected /\ ~careless =>
        Connected(conn[c].dbc) \/ BeingClosed(c)
=============================================================================
