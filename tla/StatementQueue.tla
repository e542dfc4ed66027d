--------------------------- MODULE StatementQueue ---------------------------
(* The JavaScript half of a prepared statement (lib/odbc.js): every         *)
(* asynchronous method waits in one of three queues before it calls the     *)
(* native method of Statement, the synchronous ones call it at once.        *)
(*                                                                          *)
(* queue is a SimpleQueue whose functions call next() when they are done.   *)
(* bindQueue and setAttrQueue are SimpleQueues whose functions never do:    *)
(* bindQueue is moved on by an execution without parameters, setAttrQueue   *)
(* by nothing.                                                              *)
EXTENDS Statement, Sequences, FiniteSets

CONSTANTS
    Kinds,          \* kinds of calls the application makes
    Core,           \* those of which it makes any number
    MaxRare,        \* bound on the number of the others
    BadParams,      \* parseParams may find an error
    MaxChunks       \* chunks a stream brings, for executeWithStream

ASSUME ChunksAssumption == MaxChunks \in Nat

VARIABLES
    kind,           \* the kind of each call, "none" before it is made
    stage,          \* the native method a call of queue starts next, or
                    \*   where it is in a handler that calls back
    chunks,         \* chunks each stream still has
    fifo, executing,\* queue
    turn,           \* queue.next() is due in the handler that runs
    then,           \* the call the handler goes on with
    binds, bindBusy, bindTurn,  \* bindQueue
    attrs, attrBusy,            \* setAttrQueue
    answered        \* times each call has been answered

queueVars == <<kind, stage, chunks, fifo, executing, turn, then, binds,
               bindBusy, bindTurn, attrs, attrBusy, answered>>
vars == <<nativeVars, queueVars>>

(* Kinds whose queue function binds its own parameters first. *)
WithParams == {"executeParams", "nonQueryParams"}

(* Kinds whose queue function starts one native method. *)
Plain == {"execute", "nonQuery", "direct", "prepare", "primaryKeys",
          "foreignKeys", "procedures", "procedureColumns", "cancel",
          "drop", "closeCursor", "resetParams"}

Queued == WithParams \cup Plain \cup {"stream"}

Init ==
    /\ NativeInit
    /\ kind = [c \in Calls |-> "none"]
    /\ stage = [c \in Calls |-> "none"]
    /\ chunks = [c \in Calls |-> 0]
    /\ fifo = <<>> /\ executing = FALSE /\ turn = FALSE /\ then = Nobody
    /\ binds = <<>> /\ bindBusy = FALSE /\ bindTurn = FALSE
    /\ attrs = <<>> /\ attrBusy = FALSE
    /\ answered = [c \in Calls |-> 0]

-----------------------------------------------------------------------------
(* The JavaScript thread runs one handler at a time. *)
InLoop ==
    js = Nobody /\ ~turn /\ ~bindTurn /\ then = Nobody /\ stmt.late = Nobody

(* The application's callback runs, in a handler that has more to do. *)
InCallback ==
    /\ js = Nobody /\ ~turn /\ ~bindTurn
    /\ then # Nobody /\ stage[then] = "callback"

Rare(k) == k \notin Core

MayMake(c, k) ==
    /\ kind[c] = "none"
    /\ InLoop \/ InCallback
    /\ k \in Kinds
    /\ Rare(k) => Cardinality({d \in Calls : kind[d] # "none" /\ Rare(kind[d])})
                      < MaxRare

Answer(c) == answered' = [answered EXCEPT ![c] = @ + 1]

(* parseParams found an error: the callback is called, and the call goes on. *)
ParseParams(c, k) ==
    \E n \in IF BadParams /\ k \in WithParams \cup {"bind"} THEN {0, 1} ELSE {0} :
        answered' = [answered EXCEPT ![c] = @ + n]

FirstStage(k) ==
    CASE k \in WithParams -> "bind"
      [] k = "stream" -> "streaming"
      [] OTHER -> k

-----------------------------------------------------------------------------
(* The application makes a call. *)

(* Mutant: push does not look at executing. *)
Push_RunsAtOnce(c, k) ==
    /\ MayMake(c, k) /\ k \in Queued
    /\ kind' = [kind EXCEPT ![c] = k]
    /\ stage' = [stage EXCEPT ![c] = FirstStage(k)]
    /\ chunks' = [chunks EXCEPT ![c] = IF k = "stream" THEN MaxChunks ELSE 0]
    /\ fifo' = Append(fifo, c)
    /\ turn' = TRUE
    /\ UNCHANGED <<nativeVars, executing, then, binds, bindBusy, bindTurn,
                   attrs, attrBusy, answered>>

(* Mutant: waits for a chunk more than the stream has. *)
Push_ChunkMore(c, k) ==
    /\ MayMake(c, k) /\ k \in Queued
    /\ kind' = [kind EXCEPT ![c] = k]
    /\ stage' = [stage EXCEPT ![c] = FirstStage(k)]
    /\ chunks' = [chunks EXCEPT ![c] = IF k = "stream" THEN MaxChunks + 1 ELSE 0]
    /\ fifo' = Append(fifo, c)
    /\ turn' = ~executing
    /\ UNCHANGED <<nativeVars, executing, then, binds, bindBusy, bindTurn,
                   attrs, attrBusy, answered>>

(* queue.push *)
Push(c, k) ==
    /\ MayMake(c, k) /\ k \in Queued
    /\ kind' = [kind EXCEPT ![c] = k]
    /\ stage' = [stage EXCEPT ![c] = FirstStage(k)]
    /\ chunks' = [chunks EXCEPT ![c] = IF k = "stream" THEN MaxChunks ELSE 0]
    /\ fifo' = Append(fifo, c)
    /\ turn' = ~executing
    /\ UNCHANGED <<nativeVars, executing, then, binds, bindBusy, bindTurn,
                   attrs, attrBusy, answered>>

(* stmt.bind *)
PushBind(c) ==
    /\ MayMake(c, "bind")
    /\ kind' = [kind EXCEPT ![c] = "bind"]
    /\ binds' = Append(binds, c)
    /\ bindTurn' = ~bindBusy
    /\ UNCHANGED <<nativeVars, stage, chunks, fifo, executing, turn, then,
                   bindBusy, attrs, attrBusy, answered>>

(* stmt.setAttr; the first one finds its queue idle, and no other does. *)
PushSetAttr(c) ==
    /\ MayMake(c, "setAttr")
    /\ kind' = [kind EXCEPT ![c] = "setAttr"]
    /\ IF attrBusy
       THEN /\ attrs' = Append(attrs, c)
            /\ UNCHANGED <<nativeVars, attrBusy>>
       ELSE /\ attrBusy' = TRUE
            /\ SetAttr(c)
            /\ UNCHANGED attrs
    /\ UNCHANGED <<stage, chunks, fifo, executing, turn, then, binds, bindBusy,
                   bindTurn, answered>>

(* The synchronous methods; executeSync(params) is bindSync, executeSync.   *)
CallSync(c, k) ==
    /\ MayMake(c, k)
    /\ \/ k = "bindSync" /\ BindSync(c)
       \/ k = "executeSync" /\ SyncExecution(c)
       \/ k = "closeSync" /\ \E o \in Options : CloseSync(c, o)
       \/ k = "cancelSync" /\ CancelSync(c)
       \/ k = "catalogSync" /\ SyncCatalog(c)
       \/ k = "sync" /\ SyncOther(c)
    /\ kind' = [kind EXCEPT ![c] = k]
    /\ UNCHANGED <<stage, chunks, fifo, executing, turn, then, binds, bindBusy,
                   bindTurn, attrs, attrBusy, answered>>

-----------------------------------------------------------------------------
(* The queues run their functions. *)

BindTurn ==
    /\ js = Nobody /\ bindTurn
    /\ bindTurn' = FALSE
    /\ IF binds = <<>>
       THEN UNCHANGED <<nativeVars, binds, bindBusy, answered>>
       ELSE LET c == Head(binds) IN
            /\ Bind(c)
            /\ ParseParams(c, "bind")
            /\ binds' = Tail(binds)
            /\ bindBusy' = TRUE
    /\ UNCHANGED <<kind, stage, chunks, fifo, executing, turn, then, attrs,
                   attrBusy>>

QueueEmpty ==
    /\ js = Nobody /\ turn /\ ~bindTurn /\ fifo = <<>>
    /\ turn' = FALSE
    /\ UNCHANGED <<nativeVars, kind, stage, chunks, fifo, executing, then,
                   binds, bindBusy, bindTurn, attrs, attrBusy, answered>>

Starts(c, o) ==
    \/ o = "bind" /\ Bind(c)
    \/ o = "execute" /\ Execute(c)
    \/ o = "nonQuery" /\ ExecuteNonQuery(c)
    \/ o = "direct" /\ ExecuteDirect(c)
    \/ o = "streaming" /\ ExecuteForStreaming(c)
    \/ o \in {"paramData", "lastParamData"} /\ ParamData(c)
    \/ o \in {"putData", "lastPutData"} /\ PutData(c)
    \/ o = "prepare" /\ Prepare(c)
    \/ o = "primaryKeys" /\ PrimaryKeys(c)
    \/ o = "foreignKeys" /\ ForeignKeys(c)
    \/ o = "procedures" /\ Procedures(c)
    \/ o = "procedureColumns" /\ ProcedureColumns(c)
    \/ o = "cancel" /\ Cancel(c)
    \/ o \in Options /\ Close(c, o)

(* queue.next: the function of the first call starts its work.  prepare's   *)
(* calls next() at once.                                                    *)
Turn ==
    /\ js = Nobody /\ turn /\ ~bindTurn /\ fifo # <<>>
    /\ LET c == Head(fifo) IN
       /\ Starts(c, stage[c])
       /\ ParseParams(c, kind[c])
       /\ executing' = (stage[c] # "prepare")
       /\ turn' = (stage[c] = "prepare")
    /\ fifo' = Tail(fifo)
    /\ UNCHANGED <<kind, stage, chunks, then, binds, bindBusy, bindTurn, attrs,
                   attrBusy>>

(* The second native method of a call with parameters. *)
GoOn ==
    /\ js = Nobody /\ then # Nobody
    /\ \/ stage[then] = "execute" /\ Execute(then)
       \/ stage[then] = "nonQuery" /\ ExecuteNonQuery(then)
    /\ then' = Nobody
    /\ UNCHANGED <<kind, stage, chunks, fifo, executing, turn, binds, bindBusy,
                   bindTurn, attrs, attrBusy, answered>>

-----------------------------------------------------------------------------
(* The callbacks. *)

Failed(c) == work[c].ret = "error"

(* putData and cancel report whatever is no success. *)
FailedAtAll(c) == work[c].ret \notin {"ok", "info"}

NextCall == executing' = FALSE /\ turn' = TRUE

(* Mutant: an error is returned without next(). *)
Ends_NoNext(c) ==
    /\ Answer(c)
    /\ IF Failed(c) THEN executing' = TRUE /\ turn' = turn ELSE NextCall
    /\ UNCHANGED <<kind, stage, chunks, fifo, then, binds, bindBusy, attrs,
                   attrBusy>>

(* The handler answers the call and calls next(). *)
Ends(c) ==
    /\ Answer(c) /\ NextCall
    /\ UNCHANGED <<kind, stage, chunks, fifo, then, binds, bindBusy, attrs,
                   attrBusy>>

(* The application's callback is called; what follows it is still to come.  *)
CallsBack(c) ==
    /\ Answer(c)
    /\ stage' = [stage EXCEPT ![c] = "callback"]
    /\ then' = c
    /\ UNCHANGED <<kind, chunks, fifo, executing, turn, binds, bindBusy,
                   bindTurn, attrs, attrBusy>>

(* It has returned, next() is called. *)
CallbackReturns ==
    /\ InCallback
    /\ then' = Nobody
    /\ NextCall
    /\ bindTurn' = (kind[then] = "nonQuery" /\ bindBusy)
    /\ UNCHANGED <<nativeVars, kind, stage, chunks, fifo, binds, bindBusy,
                   attrs, attrBusy, answered>>

(* All of JavaScript has returned, the native handler ends. *)
HandlerEnds ==
    /\ ~turn /\ ~bindTurn /\ then = Nobody
    /\ LateFreeStmt
    /\ UNCHANGED queueVars

AfterBindOfParams(c) ==
    /\ InLoop /\ kind[c] \in WithParams /\ UV_AfterBind(c)
    /\ IF Failed(c)
       THEN Ends(c) /\ UNCHANGED bindTurn
       ELSE /\ stage' = [stage EXCEPT ![c] =
                  IF kind[c] = "executeParams" THEN "execute" ELSE "nonQuery"]
            /\ then' = c
            /\ UNCHANGED <<kind, chunks, fifo, executing, turn, binds,
                           bindBusy, bindTurn, attrs, attrBusy, answered>>

(* Mutant: every execution lets the next bind go on. *)
AfterExecution_AnyBind(c) ==
    /\ InLoop
    /\ \/ UV_AfterExecute(c) /\ Ends(c) /\ bindTurn' = bindBusy
       \/ UV_AfterExecuteNonQuery(c) /\ CallsBack(c)

(* An execution without parameters lets the next bind go on. *)
AfterExecution(c) ==
    /\ InLoop
    /\ \/ /\ UV_AfterExecute(c) /\ Ends(c)
          /\ bindTurn' = (kind[c] = "execute" /\ bindBusy)
       \/ UV_AfterExecuteNonQuery(c) /\ CallsBack(c)

AfterOther(c) ==
    /\ InLoop
    /\ \/ UV_AfterExecuteDirect(c) \/ UV_AfterCancel(c)
       \/ UV_AfterPrimaryKeys(c) \/ UV_AfterForeignKeys(c)
       \/ UV_AfterProcedures(c) \/ UV_AfterProcedureColumns(c)
       \/ \E o \in Options : UV_AfterClose(c, o)
    /\ \/ stmt'.late = c /\ CallsBack(c)
       \/ stmt'.late # c /\ js' = Nobody /\ Ends(c) /\ UNCHANGED bindTurn
       \/ js' = c /\ UNCHANGED queueVars

(* These have given up their place in their queue already, or never do. *)
AfterUnqueued(c) ==
    /\ InLoop
    /\ \/ UV_AfterPrepare(c) \/ UV_AfterSetAttr(c)
       \/ kind[c] = "bind" /\ UV_AfterBind(c)
    /\ Answer(c)
    /\ UNCHANGED <<kind, stage, chunks, fifo, executing, turn, then, binds,
                   bindBusy, bindTurn, attrs, attrBusy>>

-----------------------------------------------------------------------------
(* executeWithStream: executeForStreaming, paramData, putData for each      *)
(* chunk of the stream, paramData; each one a call of its own to queue.     *)

(* The callback pushes the next native method before it calls next(). *)
Again(c, o) ==
    /\ stage' = [stage EXCEPT ![c] = o]
    /\ fifo' = Append(fifo, c)
    /\ UNCHANGED answered

(* The helper is done with the call. *)
Done(c) ==
    /\ stage' = [stage EXCEPT ![c] = "none"]
    /\ Answer(c)
    /\ UNCHANGED fifo

(* The stream has failed in the meantime. *)
GivesUp(c) ==
    /\ stage' = [stage EXCEPT ![c] = "none"]
    /\ UNCHANGED <<fifo, answered>>

Reads(c) ==
    /\ stage' = [stage EXCEPT ![c] = "reading"]
    /\ UNCHANGED <<fifo, answered>>

AfterStreaming(c) ==
    /\ InLoop /\ kind[c] = "stream" /\ NextCall
    /\ \/ /\ UV_AfterExecuteForStreaming(c)
          /\ IF work[c].ret = "need" THEN Again(c, "paramData") ELSE Done(c)
       \/ /\ UV_AfterParamData(c)
          /\ IF work[c].ret = "need" /\ stage[c] = "paramData"
             THEN Reads(c) ELSE Done(c)
       \/ /\ UV_AfterPutData(c)
          /\ IF FailedAtAll(c) THEN Done(c)
             ELSE IF stage[c] = "putData" THEN Reads(c) ELSE GivesUp(c)
    /\ UNCHANGED <<kind, chunks, then, binds, bindBusy, bindTurn, attrs,
                   attrBusy>>

(* The stream brings a chunk, which is sent before the next is asked for.   *)
StreamData(c) ==
    /\ InLoop /\ stage[c] = "reading" /\ chunks[c] > 0
    /\ chunks' = [chunks EXCEPT ![c] = @ - 1]
    /\ Again(c, "putData")
    /\ turn' = ~executing
    /\ UNCHANGED <<nativeVars, kind, executing, then, binds, bindBusy,
                   bindTurn, attrs, attrBusy>>

StreamEnd(c) ==
    /\ InLoop /\ stage[c] = "reading" /\ chunks[c] = 0
    /\ Again(c, "lastParamData")
    /\ turn' = ~executing
    /\ UNCHANGED <<nativeVars, kind, chunks, executing, then, binds, bindBusy,
                   bindTurn, attrs, attrBusy>>

(* The stream fails, perhaps while a chunk is on its way: the helper        *)
(* reports the error and leaves the statement as it is.                     *)
StreamError(c) ==
    /\ InLoop /\ stage[c] \in {"reading", "putData"}
    /\ stage' = [stage EXCEPT ![c] =
                    IF @ = "putData" THEN "lastPutData" ELSE "none"]
    /\ Answer(c)
    /\ UNCHANGED <<nativeVars, kind, chunks, fifo, executing, turn, then,
                   binds, bindBusy, bindTurn, attrs, attrBusy>>

-----------------------------------------------------------------------------
Application(c) ==
    \/ (\E k \in Kinds : Push(c, k) \/ CallSync(c, k))
    \/ PushBind(c) \/ PushSetAttr(c)

Handler(c) ==
    \/ AfterBindOfParams(c) \/ AfterExecution(c) \/ AfterOther(c)
    \/ AfterUnqueued(c) \/ AfterStreaming(c)
    \/ StreamData(c) \/ StreamEnd(c) \/ StreamError(c)

Thread ==
    \/ BindTurn \/ QueueEmpty \/ Turn \/ GoOn
    \/ CallbackReturns \/ HandlerEnds
    \/ \E c \in Calls : Handler(c) \/ (Unblock(c) /\ UNCHANGED queueVars)

Works(c) == Worker(c) /\ UNCHANGED queueVars

Next ==
    \/ \E c \in Calls : Application(c) \/ Works(c)
    \/ Thread
    \/ Disconnect /\ UNCHANGED queueVars

(* The thread pool gets to every piece of work, the event loop to every     *)
(* callback, and a stream that is read goes on.                             *)
Fairness == WF_vars(Thread) /\ \A c \in Calls : WF_vars(Works(c))

Spec == Init /\ [][Next]_vars /\ Fairness

-----------------------------------------------------------------------------
(* Properties. *)

Stages == {"none", "bind", "execute", "nonQuery", "direct", "prepare",
           "primaryKeys", "foreignKeys", "procedures", "procedureColumns",
           "cancel", "streaming", "paramData", "reading", "putData",
           "lastParamData", "lastPutData", "callback"} \cup Options

Ops == {"none", "bind", "execute", "nonQuery", "direct", "prepare", "setAttr",
        "streaming", "paramData", "putData", "cancel",
        "primaryKeys", "foreignKeys", "procedures", "procedureColumns",
        "bindSync", "closeSync", "primaryKeysSync", "foreignKeysSync",
        "proceduresSync", "procedureColumnsSync"} \cup Options

(* The variables hold what the code's fields can hold. *)
NativeTypeOK ==
    /\ stmt \in [open : BOOLEAN, params : Someone, late : Someone]
    /\ shape \in [Calls -> {"plain", "chunked", "streaming"}]
    /\ cli \in [alive : BOOLEAN, bound : Someone,
                needs : {"no", "asked", "token", "data"}, diag : Someone]
    /\ work \in [Calls ->
          [op : Ops,
           phase : {"idle", "queued", "running", "dropping", "done", "blocked",
                    "endless"},
           ret : {"ok", "info", "noData", "need", "error", "invalid"},
           read : Someone]]
    /\ js \in Someone
    /\ faults \subseteq {"freedInUse", "freedRead", "foreignOutputs",
                        "foreignError", "wipedError"}

TypeOK ==
    /\ NativeTypeOK
    /\ kind \in [Calls -> Kinds \cup {"none"}]
    /\ stage \in [Calls -> Stages]
    /\ chunks \in [Calls -> 0..MaxChunks]
    /\ fifo \in Seq(Calls) /\ binds \in Seq(Calls) /\ attrs \in Seq(Calls)
    /\ {executing, turn, bindBusy, bindTurn, attrBusy} \subseteq BOOLEAN
    /\ then \in Someone
    /\ answered \in [Calls -> Nat]

Made == {kind[c] : c \in Calls} \ {"none"}

Stuck == \E c \in Calls : work[c].phase = "endless"

(* Calls whose handlers may call back before they close the cursor. *)
ClosesLate == {"nonQuery", "nonQueryParams", "primaryKeys", "foreignKeys",
               "procedures", "procedureColumns"}

(* Until their callbacks, calls of queue, prepare excepted, have the driver *)
(* one at a time: no execution overlaps another one or a catalog call, none *)
(* is closed while it runs, and stmt.cancel never finds one to cancel.      *)
(* What can follow is one SQLFreeStmt, of the call that was answered last;  *)
(* the next call may have begun, or ended, before it.                       *)
QueueSerial ==
    /\ \A c, d \in Calls :
          /\ kind[c] \in Queued \ {"prepare"} /\ ~Idle(c)
          /\ kind[d] \in Queued \ {"prepare"} /\ ~Idle(d)
          => c = d
    /\ \A c \in Calls : stmt.late = c =>
          kind[c] \in ClosesLate /\ answered[c] > 0

(* An application that gives every execution its own parameters, and calls  *)
(* nothing that frees parameters outside queue, has its buffers alive when  *)
(* the driver reads them and gets the output values of its own call.        *)
OwnParameters ==
    WithParams \cup {"direct", "prepare", "setAttr", "primaryKeys",
        "foreignKeys", "procedures", "procedureColumns", "cancel", "drop",
        "closeCursor", "resetParams", "cancelSync", "catalogSync", "sync"}

BuffersOutliveReads ==
    Made \subseteq OwnParameters =>
        faults \cap {"freedRead", "freedInUse", "foreignOutputs"} = {}

(* Without prepare, whose turn ends before its work, an error that queue    *)
(* delivers is not another call's; and it is the one its own call met if    *)
(* nothing is called that closes its cursor after its callback.             *)
ErrorsAreOwn ==
    Made \subseteq Queued \ {"prepare"} =>
        /\ "foreignError" \notin faults
        /\ Made \cap ClosesLate = {} => "wipedError" \notin faults

(* Fetching the rows of a catalog call keeps the JavaScript thread for ever *)
(* only when the handle has been closed.                                    *)
EndlessOnlyWhenClosed == Stuck => ~Valid

(* Dropping a statement frees its handle, unless the driver waits for data. *)
DroppedIsFreed == ~stmt.open /\ cli.alive => cli.needs # "no"

(* The binds that bindQueue has run, and the executions without parameters  *)
(* that were answered.                                                      *)
BindsRun == {c \in Calls : kind[c] = "bind" /\ \A i \in DOMAIN binds : binds[i] # c}
Executed == {c \in Calls : kind[c] \in {"execute", "nonQuery"} /\ answered[c] > 0}

(* bindQueue runs a bind only when the one before has had its execution.    *)
BindsAreExecuted == Cardinality(BindsRun) <= 1 + Cardinality(Executed)

(* Every call of queue is answered, unless the JavaScript thread is lost.   *)
EveryCallAnswered ==
    \A c \in Calls : kind[c] \in Queued ~> (answered[c] > 0 \/ Stuck)
=============================================================================
