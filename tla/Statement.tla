----------------------------- MODULE Statement -----------------------------
(* ODBCStatement, the native half of a prepared statement                   *)
(* (src/odbc_statement.cpp), with the part of the CLI driver it relies on.  *)
(*                                                                          *)
(* An asynchronous method queues work (X), a thread of the pool calls the   *)
(* driver (UV_X) and the JavaScript thread delivers the result              *)
(* (UV_AfterX); a synchronous one does everything on the JavaScript thread. *)
(* Nothing here keeps two calls on one statement apart: the driver lets one *)
(* call at a time into a connection (SQLCancel excepted), but the object's  *)
(* fields are read and freed by whichever thread comes first.               *)
(*                                                                          *)
(* An array of parameters is named after the call that made it.  What the   *)
(* parameters hold is left out, and whether the driver has a cursor open:   *)
(* BlockFetch has that.  executeDirect's text is taken to have no markers.  *)
EXTENDS Naturals

CONSTANTS
    Calls,      \* calls the application makes
    Nobody,     \* none of them
    Shapes      \* kinds of parameter arrays, see below

(* plain: every value is in the buffers; chunked: one parameter's data is   *)
(* sent at execution, from chunks kept in the array; streaming: one         *)
(* parameter's data is sent at execution and the application has it.        *)
ASSUME ShapesAssumption == Shapes \subseteq {"plain", "chunked", "streaming"}
ASSUME NobodyAssumption == Nobody \notin Calls

VARIABLES
    stmt,       \* the object: m_hSTMT is not NULL; params (and paramCount);
                \*   the call whose handler has still to call SQLFreeStmt
    shape,      \* the kind of array each call makes
    cli,        \* the driver's statement
    work,       \* the work of each call
    js,         \* the call that keeps the JavaScript thread from its loop
    faults      \* what has gone wrong so far

nativeVars == <<stmt, shape, cli, work, js, faults>>

Someone == Calls \cup {Nobody}

(* Phases: nothing to do; waiting for a thread; in the driver; dropped its  *)
(* parameters and waiting for the driver; waiting for the JavaScript        *)
(* thread.  A synchronous call is blocked, or never comes back.             *)
NoWork == [op |-> "none", phase |-> "idle", ret |-> "ok", read |-> Nobody]

(* needs follows SQLExecute with data to be sent at execution: SQLExecute   *)
(* asked for data, SQLParamData said for which parameter, SQLPutData        *)
(* brought some.                                                            *)
NativeInit ==
    /\ stmt = [open |-> TRUE, params |-> Nobody, late |-> Nobody]
    /\ shape = [c \in Calls |-> "plain"]
    /\ cli = [alive |-> TRUE, bound |-> Nobody, needs |-> "no",
              diag |-> Nobody]
    /\ work = [c \in Calls |-> NoWork]
    /\ js = Nobody
    /\ faults = {}

-----------------------------------------------------------------------------
(* The driver and the thread pool. *)

Running == {c \in Calls : work[c].phase = "running"}

DriverFree == Running = {}

(* m_hSTMT is a handle the driver knows. *)
Valid == stmt.open /\ cli.alive

(* What the driver answers: SQL_INVALID_HANDLE, a function sequence error   *)
(* while it waits for data, or one of the outcomes given.                   *)
Outcomes(normal) ==
    IF ~Valid THEN {"invalid"}
    ELSE IF cli.needs # "no" THEN {"error"} ELSE normal

(* A call of the driver replaces the handle's diagnostic records. *)
Diagnosed(c) == [cli EXCEPT !.diag = IF Valid THEN c ELSE @]

Idle(c) == work[c].phase = "idle"

AtWork(c, o) == work[c].op = o /\ work[c].phase = "queued"

Return(c, r) == work' = [work EXCEPT ![c].phase = "done", ![c].ret = r]

(* What every asynchronous method does: uv_queue_work. *)
Queues(c, o) ==
    /\ js = Nobody /\ Idle(c)
    /\ work' = [work EXCEPT ![c] = [NoWork EXCEPT !.op = o, !.phase = "queued"]]
    /\ UNCHANGED <<stmt, shape, cli, js, faults>>

(* A worker that only calls the driver. *)
WorkerCalls(c, o, normal) ==
    /\ AtWork(c, o) /\ DriverFree
    /\ \E r \in Outcomes(normal) : Return(c, r)
    /\ cli' = Diagnosed(c)
    /\ UNCHANGED <<stmt, shape, js, faults>>

(* The handler of finished work. *)
Delivers(c, o) ==
    /\ js = Nobody
    /\ work[c].op = o /\ work[c].phase = "done"
    /\ work' = [work EXCEPT ![c] = NoWork]

(* GetSQLError reads the handle's records when the callback runs, not when  *)
(* the call failed: they may be another call's by then, or gone because the *)
(* JavaScript thread has called the driver.                                 *)
ErrorRead(c) ==
    IF work[c].ret # "error" \/ ~Valid \/ cli.diag = c THEN {}
    ELSE IF cli.diag = Nobody THEN {"wipedError"} ELSE {"foreignError"}

(* A handler that reports the error or a value, and leaves the statement.   *)
Reports(c, o) ==
    /\ Delivers(c, o)
    /\ faults' = faults \cup ErrorRead(c)
    /\ UNCHANGED <<stmt, shape, cli, js>>

(* Some handlers call back first, and close the cursor when JavaScript      *)
(* returns, whatever the callback has started in the meantime.              *)
ClosesLater(c) == stmt' = [stmt EXCEPT !.late = c]

LateFreeStmt ==
    /\ js = Nobody /\ stmt.late # Nobody /\ DriverFree
    /\ stmt' = [stmt EXCEPT !.late = Nobody]
    /\ cli' = Diagnosed(Nobody)
    /\ UNCHANGED <<shape, work, js, faults>>

(* A synchronous method that calls the driver once. *)
SyncCalls(c) ==
    /\ js = Nobody /\ Idle(c) /\ DriverFree
    /\ cli' = Diagnosed(Nobody)
    /\ UNCHANGED <<stmt, shape, work, js, faults>>

-----------------------------------------------------------------------------
(* Parameter arrays. *)

(* FREE_PARAMS, while a thread is in the driver with these buffers. *)
FreeFaults ==
    IF /\ stmt.params # Nobody
       /\ \E d \in Running : work[d].read = stmt.params
    THEN {"freedInUse"} ELSE {}

(* The driver reads the buffers it was told of; nobody told it that they    *)
(* have been freed.                                                         *)
ReadFaults ==
    IF /\ Valid /\ cli.needs = "no"
       /\ cli.bound \notin {Nobody, stmt.params}
    THEN {"freedRead"} ELSE {}

(* Output values are taken from the array the object has now. *)
OutputFaults(c) ==
    IF /\ work[c].ret \in {"ok", "info"}
       /\ stmt.params \notin {Nobody, work[c].read}
    THEN {"foreignOutputs"} ELSE {}

(* GetParametersFromArray *)
Makes(c) ==
    /\ stmt' = [stmt EXCEPT !.params = c]
    /\ \E s \in Shapes : shape' = [shape EXCEPT ![c] = s]
    /\ faults' = faults \cup FreeFaults

Bind(c) ==
    /\ js = Nobody /\ Idle(c)
    /\ Makes(c)
    /\ work' = [work EXCEPT ![c] = [NoWork EXCEPT !.op = "bind",
                                                  !.phase = "queued"]]
    /\ UNCHANGED <<cli, js>>

(* BindParameters walks through the array, and stops at an error. *)
UV_BindEnters(c) ==
    /\ AtWork(c, "bind") /\ DriverFree
    /\ work' = [work EXCEPT ![c].phase = "running", ![c].read = stmt.params]
    /\ UNCHANGED <<stmt, shape, cli, js, faults>>

UV_BindReturns(c) ==
    /\ work[c].op = "bind" /\ work[c].phase = "running"
    /\ \E r \in Outcomes({"ok", "error"}) : Return(c, r)
    /\ cli' = IF Valid /\ cli.needs = "no" /\ work[c].read # Nobody
              THEN [Diagnosed(c) EXCEPT !.bound = work[c].read]
              ELSE Diagnosed(c)
    /\ UNCHANGED <<stmt, shape, js, faults>>

(* Mutant: frees the array the driver has just been told of. *)
UV_AfterBind_Frees(c) ==
    /\ Delivers(c, "bind")
    /\ stmt' = [stmt EXCEPT !.params = Nobody]
    /\ UNCHANGED <<shape, cli, js, faults>>

UV_AfterBind(c) == Reports(c, "bind")

(* On the JavaScript thread, which waits for the driver after it has freed  *)
(* the old array.                                                           *)
BindSync(c) ==
    /\ js = Nobody /\ Idle(c)
    /\ Makes(c)
    /\ js' = c
    /\ work' = [work EXCEPT ![c] = [NoWork EXCEPT !.op = "bindSync",
                                                  !.phase = "blocked"]]
    /\ UNCHANGED cli

BindSyncReturns(c) ==
    /\ work[c].op = "bindSync" /\ work[c].phase = "blocked"
    /\ DriverFree
    /\ cli' = IF Valid /\ cli.needs = "no"
              THEN [Diagnosed(Nobody) EXCEPT !.bound = stmt.params]
              ELSE Diagnosed(Nobody)
    /\ work' = [work EXCEPT ![c] = NoWork]
    /\ js' = Nobody
    /\ UNCHANGED <<stmt, shape, faults>>

-----------------------------------------------------------------------------
(* Execution.  SQLExecute reads the bound buffers while it runs. *)

Succeeds == {"ok", "info"}

Results == {"ok", "info", "noData", "error"}

(* SQLExecute asks for data to be sent. *)
AsksForData == cli.bound # Nobody /\ shape[cli.bound] # "plain"

(* PutDataLoop finds the chunks of the parameter the driver asks for. *)
HasChunks == stmt.params # Nobody /\ shape[stmt.params] = "chunked"

Enters(c, o) ==
    /\ AtWork(c, o) /\ DriverFree
    /\ work' = [work EXCEPT
         ![c].phase = "running",
         ![c].read = IF o = "direct" THEN Nobody ELSE cli.bound]
    /\ faults' = faults \cup IF o = "direct" THEN {} ELSE ReadFaults
    /\ UNCHANGED <<stmt, shape, cli, js>>

(* Without chunks PutDataLoop gives up and leaves the driver waiting. *)
LoopOutcomes ==
    IF HasChunks THEN {<<r, "no">> : r \in Results} ELSE {<<"error", "token">>}

(* SQLExecute may fail before it asks for data. *)
ExecuteOutcomes ==
    IF Valid /\ cli.needs = "no"
    THEN {<<r, "no">> : r \in IF AsksForData THEN {"error"} ELSE Results}
         \cup IF AsksForData THEN LoopOutcomes ELSE {}
    ELSE {<<r, cli.needs>> : r \in Outcomes({})}

StreamingOutcomes ==
    IF Valid /\ cli.needs = "no" /\ AsksForData
    THEN {<<"error", "no">>, <<"need", "asked">>}
    ELSE {<<r, cli.needs>> : r \in Outcomes(Results)}

Leaves(c, o, outcomes) ==
    /\ work[c].op = o /\ work[c].phase = "running"
    /\ \E x \in outcomes :
          Return(c, x[1]) /\ cli' = [Diagnosed(c) EXCEPT !.needs = x[2]]
    /\ UNCHANGED <<stmt, shape, js, faults>>

Execute(c) == Queues(c, "execute")
UV_ExecuteEnters(c) == Enters(c, "execute")
UV_Execute(c) == Leaves(c, "execute", ExecuteOutcomes)

(* Mutant: closes the cursor before the error is read. *)
UV_AfterExecute_ClosesFirst(c) ==
    /\ Delivers(c, "execute") /\ DriverFree
    /\ stmt' = [stmt EXCEPT !.params = Nobody]
    /\ cli' = Diagnosed(Nobody)
    /\ faults' = faults \cup OutputFaults(c) \cup FreeFaults \cup
          IF work[c].ret = "error" /\ Valid THEN {"wipedError"} ELSE {}
    /\ UNCHANGED <<shape, js>>

(* The output values, and the end of the parameters: params is NULL, while  *)
(* the driver keeps its bindings.                                           *)
UV_AfterExecute(c) ==
    /\ Delivers(c, "execute")
    /\ stmt' = [stmt EXCEPT !.params = Nobody]
    /\ faults' = faults \cup OutputFaults(c) \cup FreeFaults \cup ErrorRead(c)
    /\ UNCHANGED <<shape, cli, js>>

(* SQLExecute and PutDataLoop on the JavaScript thread. *)
ExecuteSync(c) ==
    /\ js = Nobody /\ Idle(c) /\ DriverFree
    /\ \E x \in ExecuteOutcomes :
          /\ cli' = [Diagnosed(Nobody) EXCEPT !.needs = x[2]]
          /\ faults' = faults \cup ReadFaults \cup
                IF /\ x[1] \in Succeeds /\ Valid
                   /\ stmt.params \notin {Nobody, cli.bound}
                THEN {"foreignOutputs"} ELSE {}
    /\ stmt' = [stmt EXCEPT !.params = Nobody]
    /\ UNCHANGED <<shape, work, js>>

ExecuteNonQuery(c) == Queues(c, "nonQuery")
UV_ExecuteNonQueryEnters(c) == Enters(c, "nonQuery")
UV_ExecuteNonQuery(c) == Leaves(c, "nonQuery", ExecuteOutcomes)

(* SQLRowCount, the callback, and then SQLFreeStmt; the parameters stay.    *)
UV_AfterExecuteNonQuery(c) ==
    /\ Delivers(c, "nonQuery")
    /\ faults' = faults \cup ErrorRead(c)
    /\ IF work[c].ret \in Succeeds
       THEN DriverFree /\ cli' = Diagnosed(Nobody)
       ELSE UNCHANGED cli
    /\ ClosesLater(c)
    /\ UNCHANGED <<shape, js>>

ExecuteNonQuerySync(c) ==
    /\ js = Nobody /\ Idle(c) /\ DriverFree
    /\ \E x \in ExecuteOutcomes :
          cli' = [Diagnosed(Nobody) EXCEPT !.needs = x[2]]
    /\ faults' = faults \cup ReadFaults
    /\ UNCHANGED <<stmt, shape, work, js>>

ExecuteDirect(c) == Queues(c, "direct")
UV_ExecuteDirectEnters(c) == Enters(c, "direct")
UV_ExecuteDirect(c) ==
    Leaves(c, "direct", {<<r, cli.needs>> : r \in Outcomes(Results)})
UV_AfterExecuteDirect(c) == Reports(c, "direct")
ExecuteDirectSync(c) == SyncCalls(c)

ExecuteForStreaming(c) == Queues(c, "streaming")
UV_ExecuteForStreamingEnters(c) == Enters(c, "streaming")
UV_ExecuteForStreaming(c) == Leaves(c, "streaming", StreamingOutcomes)
UV_AfterExecuteForStreaming(c) == Reports(c, "streaming")

ExecuteForStreamingSync(c) ==
    /\ js = Nobody /\ Idle(c) /\ DriverFree
    /\ \E x \in StreamingOutcomes :
          cli' = [Diagnosed(Nobody) EXCEPT !.needs = x[2]]
    /\ faults' = faults \cup ReadFaults
    /\ UNCHANGED <<stmt, shape, work, js>>

(* SQLParamData, then SQLPutData, then SQLParamData, which executes. *)
ParamOutcomes ==
    IF ~Valid THEN {<<"invalid", cli.needs>>}
    ELSE CASE cli.needs = "asked" -> {<<"need", "token">>}
           [] cli.needs = "data" -> {<<r, "no">> : r \in Results}
           [] OTHER -> {<<"error", cli.needs>>}

PutOutcomes ==
    IF ~Valid THEN {<<"invalid", cli.needs>>}
    ELSE IF cli.needs \in {"token", "data"}
         THEN {<<"ok", "data">>, <<"error", "no">>}
         ELSE {<<"error", cli.needs>>}

Sends(c, o, outcomes) ==
    /\ AtWork(c, o) /\ DriverFree
    /\ \E x \in outcomes :
          Return(c, x[1]) /\ cli' = [Diagnosed(c) EXCEPT !.needs = x[2]]
    /\ UNCHANGED <<stmt, shape, js, faults>>

SendsSync(c, outcomes) ==
    /\ js = Nobody /\ Idle(c) /\ DriverFree
    /\ \E x \in outcomes : cli' = [Diagnosed(Nobody) EXCEPT !.needs = x[2]]
    /\ UNCHANGED <<stmt, shape, work, js, faults>>

ParamData(c) == Queues(c, "paramData")
UV_ParamData(c) == Sends(c, "paramData", ParamOutcomes)
UV_AfterParamData(c) == Reports(c, "paramData")
ParamDataSync(c) == SendsSync(c, ParamOutcomes)

PutData(c) == Queues(c, "putData")
UV_PutData(c) == Sends(c, "putData", PutOutcomes)
UV_AfterPutData(c) == Reports(c, "putData")
PutDataSync(c) == SendsSync(c, PutOutcomes)

-----------------------------------------------------------------------------
(* Preparing and attributes. *)

Prepare(c) == Queues(c, "prepare")
UV_Prepare(c) == WorkerCalls(c, "prepare", {"ok", "error"})
UV_AfterPrepare(c) == Reports(c, "prepare")
PrepareSync(c) == SyncCalls(c)

SetAttr(c) == Queues(c, "setAttr")
UV_SetAttr(c) == WorkerCalls(c, "setAttr", {"ok", "error"})
UV_AfterSetAttr(c) == Reports(c, "setAttr")
SetAttrSync(c) == SyncCalls(c)

-----------------------------------------------------------------------------
(* Catalog functions: the worker calls the driver, and the handler fetches  *)
(* every row on the JavaScript thread.                                      *)

(* Mutant: fetches after an error as well. *)
FetchesAll_AfterError(c, o) ==
    /\ js = Nobody
    /\ work[c].op = o /\ work[c].phase = "done"
    /\ DriverFree
    /\ IF work[c].ret = "error" \/ ~Valid
       THEN /\ js' = c
            /\ work' = [work EXCEPT ![c].phase = "endless"]
       ELSE /\ js' = Nobody
            /\ work' = [work EXCEPT ![c] = NoWork]
    /\ cli' = Diagnosed(Nobody)
    /\ UNCHANGED <<stmt, shape, faults>>

(* After an error the callback comes before SQLFreeStmt, else after it.     *)
(* GetAllRecordsSync stops at SQL_ERROR and SQL_NO_DATA only: on a handle   *)
(* the driver does not know SQLFetch returns neither, for ever.             *)
FetchesAll(c, o) ==
    \/ /\ Delivers(c, o) /\ work[c].ret = "error"
       /\ faults' = faults \cup ErrorRead(c)
       /\ ClosesLater(c)
       /\ UNCHANGED <<shape, cli, js>>
    \/ /\ js = Nobody /\ DriverFree
       /\ work[c].op = o /\ work[c].phase = "done" /\ work[c].ret # "error"
       /\ IF Valid
          THEN work' = [work EXCEPT ![c] = NoWork] /\ UNCHANGED js
          ELSE js' = c /\ work' = [work EXCEPT ![c].phase = "endless"]
       /\ cli' = Diagnosed(Nobody)
       /\ UNCHANGED <<stmt, shape, faults>>

FetchesAllSync(c, o) ==
    /\ js = Nobody /\ Idle(c) /\ DriverFree
    /\ \E r \in Outcomes({"ok", "error"}) :
          IF r = "invalid"
          THEN /\ js' = c
               /\ work' = [work EXCEPT ![c] = [NoWork EXCEPT
                                                 !.op = o, !.phase = "endless"]]
          ELSE UNCHANGED <<js, work>>
    /\ cli' = Diagnosed(Nobody)
    /\ UNCHANGED <<stmt, shape, faults>>

Catalog(c, o) == WorkerCalls(c, o, {"ok", "error"})

PrimaryKeys(c) == Queues(c, "primaryKeys")
UV_PrimaryKeys(c) == Catalog(c, "primaryKeys")
UV_AfterPrimaryKeys(c) == FetchesAll(c, "primaryKeys")
PrimaryKeysSync(c) == FetchesAllSync(c, "primaryKeysSync")

ForeignKeys(c) == Queues(c, "foreignKeys")
UV_ForeignKeys(c) == Catalog(c, "foreignKeys")
UV_AfterForeignKeys(c) == FetchesAll(c, "foreignKeys")
ForeignKeysSync(c) == FetchesAllSync(c, "foreignKeysSync")

Procedures(c) == Queues(c, "procedures")
UV_Procedures(c) == Catalog(c, "procedures")
UV_AfterProcedures(c) == FetchesAll(c, "procedures")
ProceduresSync(c) == FetchesAllSync(c, "proceduresSync")

ProcedureColumns(c) == Queues(c, "procedureColumns")
UV_ProcedureColumns(c) == Catalog(c, "procedureColumns")
UV_AfterProcedureColumns(c) == FetchesAll(c, "procedureColumns")
ProcedureColumnsSync(c) == FetchesAllSync(c, "procedureColumnsSync")

-----------------------------------------------------------------------------
(* Closing.  SQL_DROP is Free(): the parameters first, then the handle,     *)
(* which the driver refuses to free while it waits for data.  The other     *)
(* options are SQLFreeStmt's; SQL_RESET_PARAMS makes it forget bindings.    *)

Options == {"drop", "closeCursor", "resetParams"}

(* Mutant: forgets the handle before it is freed. *)
FreeHandle_Forgets ==
    /\ stmt' = [stmt EXCEPT !.open = FALSE]
    /\ UNCHANGED cli

FreeHandle ==
    /\ stmt' = [stmt EXCEPT !.open = FALSE]
    /\ cli' = IF Valid /\ cli.needs = "no"
              THEN [cli EXCEPT !.alive = FALSE, !.bound = Nobody] ELSE cli

FreeStmt(c, o) ==
    IF o = "resetParams" /\ Valid /\ cli.needs = "no"
    THEN [Diagnosed(c) EXCEPT !.bound = Nobody] ELSE Diagnosed(c)

Close(c, o) == Queues(c, o)

UV_CloseFreesParams(c) ==
    /\ AtWork(c, "drop")
    /\ stmt' = [stmt EXCEPT !.params = Nobody]
    /\ faults' = faults \cup FreeFaults
    /\ work' = [work EXCEPT ![c].phase = "dropping"]
    /\ UNCHANGED <<shape, cli, js>>

UV_Close(c) ==
    /\ DriverFree
    /\ \/ /\ work[c].op = "drop" /\ work[c].phase = "dropping"
          /\ FreeHandle
          /\ Return(c, "ok")
       \/ \E o \in {"closeCursor", "resetParams"} :
             /\ AtWork(c, o)
             /\ \E r \in Outcomes({"ok"}) : Return(c, r)
             /\ cli' = FreeStmt(c, o)
             /\ UNCHANGED stmt
    /\ UNCHANGED <<shape, js, faults>>

UV_AfterClose(c, o) == Reports(c, o)

CloseSync(c, o) ==
    /\ js = Nobody /\ Idle(c)
    /\ IF o = "drop"
       THEN /\ stmt' = [stmt EXCEPT !.params = Nobody]
            /\ faults' = faults \cup FreeFaults
            /\ js' = c
            /\ work' = [work EXCEPT ![c] = [NoWork EXCEPT
                                      !.op = "closeSync", !.phase = "blocked"]]
            /\ UNCHANGED cli
       ELSE /\ DriverFree
            /\ cli' = FreeStmt(Nobody, o)
            /\ UNCHANGED <<stmt, faults, js, work>>
    /\ UNCHANGED shape

CloseSyncDrops(c) ==
    /\ work[c].op = "closeSync" /\ work[c].phase = "blocked"
    /\ DriverFree
    /\ FreeHandle
    /\ work' = [work EXCEPT ![c] = NoWork]
    /\ js' = Nobody
    /\ UNCHANGED <<shape, faults>>

-----------------------------------------------------------------------------
(* Cancelling, which the driver allows at any time: it ends the wait for    *)
(* data, and asks the execution that runs to stop.                          *)

Cancelled(c) == [Diagnosed(c) EXCEPT !.needs = IF Valid THEN "no" ELSE @]

Cancel(c) == Queues(c, "cancel")

UV_Cancel(c) ==
    /\ AtWork(c, "cancel")
    /\ Return(c, IF Valid THEN "ok" ELSE "invalid")
    /\ cli' = Cancelled(c)
    /\ UNCHANGED <<stmt, shape, js, faults>>

UV_AfterCancel(c) == Reports(c, "cancel")

CancelSync(c) ==
    /\ js = Nobody /\ Idle(c)
    /\ cli' = Cancelled(Nobody)
    /\ UNCHANGED <<stmt, shape, work, js, faults>>

-----------------------------------------------------------------------------
(* The connection is closed: SQLDisconnect frees the driver's statements,   *)
(* the object is not told.                                                  *)
Disconnect ==
    /\ cli.alive /\ DriverFree
    /\ cli' = [cli EXCEPT !.alive = FALSE, !.bound = Nobody]
    /\ UNCHANGED <<stmt, shape, work, js, faults>>

-----------------------------------------------------------------------------
(* What threads of the pool do. *)
Worker(c) ==
    \/ UV_BindEnters(c) \/ UV_BindReturns(c)
    \/ UV_ExecuteEnters(c) \/ UV_Execute(c)
    \/ UV_ExecuteNonQueryEnters(c) \/ UV_ExecuteNonQuery(c)
    \/ UV_ExecuteDirectEnters(c) \/ UV_ExecuteDirect(c)
    \/ UV_ExecuteForStreamingEnters(c) \/ UV_ExecuteForStreaming(c)
    \/ UV_ParamData(c) \/ UV_PutData(c)
    \/ UV_Prepare(c) \/ UV_SetAttr(c)
    \/ UV_PrimaryKeys(c) \/ UV_ForeignKeys(c)
    \/ UV_Procedures(c) \/ UV_ProcedureColumns(c)
    \/ UV_CloseFreesParams(c) \/ UV_Close(c) \/ UV_Cancel(c)

(* What ends a blocking synchronous call. *)
Unblock(c) == BindSyncReturns(c) \/ CloseSyncDrops(c)

(* The synchronous methods, by what they can do to the others. *)
SyncExecution(c) ==
    ExecuteSync(c) \/ ExecuteNonQuerySync(c) \/ ExecuteForStreamingSync(c)

SyncCatalog(c) ==
    \/ PrimaryKeysSync(c) \/ ForeignKeysSync(c)
    \/ ProceduresSync(c) \/ ProcedureColumnsSync(c)

SyncOther(c) ==
    \/ ExecuteDirectSync(c) \/ PrepareSync(c) \/ SetAttrSync(c)
    \/ ParamDataSync(c) \/ PutDataSync(c)
=============================================================================
