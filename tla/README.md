# A TLA+ verification of node-ibm_db

node-ibm_db is a Node.js driver for IBM Db2 and Informix. An application calls
a JavaScript layer (`lib/odbc.js`), which keeps connection pools and queues of
calls; below it a C++ addon (`src/*.cpp`) runs the blocking functions of the
IBM CLI driver on the threads of libuv's pool and calls back on the JavaScript
thread when they return. The modules here model the parts whose behaviour
depends on the order in which things happen.

## Inventory

### The connection pool (`Pool`, and the pooled close of `Database`)

State: `availablePool` and `usedPool` (a list of `Database` objects for each
connection string), `poolSize`, `maxPoolSize`, a `SimpleQueue` of requests that
wait because the pool is full (its `executing` flag is set for good, so only an
explicit `next` runs a request), and in each `Database` the fields `conn`,
`connected`, `lastUsed` and `conn.inTransaction`.

Operations: `open`, `openSync`, `init`, `initAsync`, `setMaxPoolSize`,
`cleanUp`, `close`, `closeSync` of the pool; `poolClose` and `poolCloseSync` of
a pooled connection; `checkConnectionError`, which any failing call runs.

Interaction: `open` and `initAsync` start `Database.open`, which completes
later; closing a connection runs one waiting request; `cleanUp` starts
`realClose`, which completes later and changes `poolSize`.

Hard: the completions interleave with everything else; requests wait on a
condition (a free connection of *their* string) that the queue does not know;
`splice(indexOf(x), 1)` removes the last element when `x` is absent; a close
may fail half-way, in which case `checkConnectionError` closes the connection
a second time from inside the first close.

Correct when: connections handed out are exclusive and listed once; `poolSize`
is the number of connections; the limit holds; requests are served in order and
all of them in the end.

### The call queue of a connection (`Database.queue`, `SimpleQueue`)

State: `fifo`, `executing`. `query`, `columns`, `tables`, `close`, `cancel`
and others push a function that must call `next` exactly once when it is done.
Hard: every path of every pushed function, error paths included, must call
`next` once; a query with several result sets continues itself recursively.
Correct when: at most one call of a connection runs at a time, in order, and
every call is answered, once.

### Prepared statements (`ODBCStatement`: `lib/odbc.js`, `src/odbc_statement.cpp`)

State: three queues for each statement (`queue`, `bindQueue`, `setAttrQueue`),
the parameter array the object owns (`params`), the addresses the CLI driver was
given at the last bind, the statement handle and its diagnostic records. Hard:
the queues advance on different events; the driver keeps the addresses of
parameters the object may free; a call's error is read from the handle when its
callback runs; `executeWithStream` takes many turns of the queue for one call.
Correct when: calls reach the driver one at a time; buffers outlive what reads
them; a call gets its own errors and output values; every call is answered.

### Result sets and row delivery (`ODBCResult`: `lib/odbc.js`, `src/odbc_result.cpp`)

State: the cursor; the row-array buffers of block fetch, how many rows they
hold and which was delivered last; whether the cursor is exhausted. `fetch`,
`fetchN`, `fetchAll`, `getData`, `moreResults`, `close`, in synchronous and
asynchronous versions. Correct when: the rows come out once each and in order,
however the calls are mixed.

### Transactions (`lib/odbc.js`, `src/odbc_connection.cpp`)

State: `conn.inTransaction` in JavaScript and the autocommit attribute in the
CLI driver, which change at different times in the asynchronous versions.
Hard: the transaction calls do not wait in the connection's queue; ending is
two driver calls; the pooled close rolls back while the connection is on offer
again. Correct when: flag and attribute agree whenever nothing is under way; a
client is told the truth about its writes; what a client leaves open ends.

### Handles (`src/odbc.cpp`, `src/odbc_connection.cpp`, `src/odbc_statement.cpp`, `src/odbc_result.cpp`)

State: `m_hDBC` and `connected` of each connection object with its count of
references, `m_hSTMT` and `m_canFreeHandle` of each statement and result, and
the handles of the driver, whose numbers are given out again. Hard: handles are
allocated on worker threads, shared by a statement and its results, freed by
workers, by the JavaScript thread, by destructors and, all of a connection's
statements together, by `SQLDisconnect`. Correct when: no handle is used after
it was freed, freed twice, or forgotten; an object that says it is connected is.

### Parameters, value conversion, constants, installer, type declarations

Pure conversions, tables, I/O, or no behaviour at all; see `components` in
`PROJECT.json`.

## Plan

Modules, in the order in which they matter to an application:

| module | models | state |
| --- | --- | --- |
| `ConnectionPool`, `FairPool` | the pool, pooled close, lost connections, and what the pool promises | done, with proofs |
| `DbQueue`, `SerialQueue` | a connection's call queue, and what it promises | done, with proofs |
| `BlockFetch` | the rows of a result, with and without block fetch | done, with proofs |
| `Statement`, `StatementQueue` | a prepared statement: the native object with its part of the driver, and the three JavaScript queues that feed it | done, with proofs |
| `Transactions` | `inTransaction` against the driver's autocommit; begin, commit, rollback, the pool's close | done, with proofs |
| `Connection` | who allocates, shares and frees connection and statement handles | done, with proofs |
| `Pool.close`, `Pool.closeSync` | the end of a pool, on top of `ConnectionPool` | not done |
| results beyond rows | `fetchMode` 0 with `getData`, files bound to columns, `querySync` over several result sets | not done |
| conversions | the loop of `GetColumnValue`, parameter preparation | not done |

Theorems worth proving, after those listed below: that `openSync`, whose parked
requests have no caller, keeps the order of the requests that have one.

## The modules

Every JavaScript handler runs to its end before another begins, so a handler is
one atomic step. What interleaves are the handlers of different callers, the
completions of native work, and, in `BlockFetch`, the worker threads. What an
application does when it is answered is a step of its own. With promises that
is exact: the continuation runs after the handler. With callbacks the
application's code runs inside the handler, at a place where in most handlers
nothing follows. Where something does the handler is more than one step, and
what the application calls comes in between: the pooled `close` calls back when
the connection is on offer and before it runs `cleanUp` and the queue
(odbc.js:3929; `CloseCallsBack`, `CallbackReturns`), and `executeNonQuery`, and
a catalog call of a statement that failed, call back before they close the
cursor (odbc_statement.cpp:331, 958; `CallsBack`, `CallbackReturns`,
`HandlerEnds`). Two cases are left out, and keep only the handler's own order:
calls made in the callback of a parked `open` that `checkConnectionError`
answers before it disconnects (497-518), and in those of the `keys` calls of a
connection, which run `next` before they answer.

### `ConnectionPool`

| code (`lib/odbc.js`) | model |
| --- | --- |
| `Pool.availablePool`, `usedPool`, `poolSize`, `maxPoolSize` | the variables of the same names |
| `queue.fifo` of the pool's `SimpleQueue` | `fifo`: who asked, and for which string |
| `db.conn` set and `db.connected` | `live` |
| `db.conn.inTransaction`, `db.lastUsed` | `inTransaction`, `stamped` |
| a `db.open` or `realClose` that has not called back | `opening`, `warming`, `closing` |
| what each caller waits for or holds | `pc`, `ref` |
| `Pool.open`, its callback | `Open`, `OpenDone` |
| `Pool.openSync`, `init`, `initAsync`, `setMaxPoolSize` | `OpenSync`, `InitSync`, `InitAsync` and `InitAsyncDone`, `SetMaxPoolSize` |
| `db.close`, `db.closeSync` of a pooled connection | `Close`, `CloseSync`, and `CloseAgain` for a second close |
| `db.close(cb)` whose `cb` calls the pool | `CloseCallsBack`, `CloseAgainCallsBack`, up to `cb`; `CallbackReturns`, what follows it |
| the closes whose `cb` is running | `callbacks`, the innermost first |
| `checkConnectionError` after SQL30081N | `ConnectionLost` |
| `realClose` that `cleanUp` started | `RealCloseDone` |

Handlers call handlers: `poolClose` calls `cleanUp` and then `queue.next`, a
rollback that fails in `poolCloseSync` calls `checkConnectionError`, which
calls `poolClose`. They are therefore operators from one pool state (a record,
`Now`) to the next (`PoolClose`, `Release`, `CleanUp`, `RunNext`, ...), and
the actions apply them. `Release` is two of them: `GivesBack` puts the
connection on offer, `Wakes` cleans up and runs the queue. While a callback of
`close` runs, between the two, the application may call everything, another
close with a callback included (`Nested` says how many may be inside one
another), and the event loop delivers nothing (`Delivers`). With promises the
two are one step, and `Nested = 0`.

Abstractions. Whether an idle connection is old enough for `cleanUp` is the
choice of a set `idle`. `usedPool[s]` exists whenever a connection of `s` is
closed, because it is created when the first one is handed out. The branches of
`init` and `initAsync` that only return a message are left out. `Bound` limits
how many requests without a caller `openSync` parks, and how far `poolSize`
drifts below zero when connections are lost. The idle timeouts that `cleanUp`
sees after a callback do not depend on whose callback it was. A second
`realClose` of the same connection is not modelled.

`FairPool` is the pool as its clients see it: who is inside (has a connection,
or is being opened one) and who waits in line. It knows no connections, lists or
counters. A client enters while fewer than `Limit` are inside, waits when there
is no room, and one that leaves lets the first in line in. `ConnectionPool`
implements it (`FairService`, by the mapping `Promised`) as long as the
application uses one connection string, closes what it gets once, calls nothing
in the callback of `close`, and nothing fails; the findings say what is
different otherwise.

### `DbQueue` and `SerialQueue`

`Database.queue` runs the function of the first call in `fifo` when nothing is
`executing`. `turn` says that `next()` has been called and is about to look at
`fifo`; the actions that take a call then (`AnsweredAtOnce`, `Throws`,
`Starts`, `QueueEmpty`) are the iterations of one handler, and while `turn`
holds nothing else runs. `job[c]` is the native work of call `c` that a worker
thread carries out; the completions (`ExecFails`, `ExecGivesResult`,
`FetchDone`, `CloseDone`, ...) are the handlers libuv runs afterwards.

| kind | APIs |
| --- | --- |
| `query`, `queryResult` | the APIs of these names |
| `tables` | `tables`, `columns` |
| `keys` | `primaryKeys`, `foreignKeys`, `procedures`, `procedureColumns` |
| `typeInfo` | `getTypeInfo` |
| `info` | `getInfo`, `getFunctions`, `setAttr` |
| `cancel`, `close` | the APIs of these names |

The constant `Mishaps` names what may go wrong; its comment in the module says
what each word stands for. A call pushed from inside a callback is a call
pushed right after it, since `push` only appends while the queue is executing.
When a queue function throws, the process is assumed to survive (an
`uncaughtException` handler), and the model shows what is left of the queue.
`stalled` remembers that a call has ended without `next`, by an exception or
on one of the paths that forget it (`Stalls`).
Two opens of one database object at the same time are not modelled.

`SerialQueue` says what the queue is for: calls wait in order, one is carried
out at a time, each is answered once. `DbQueue!Serial` is that specification
with `waiting <- fifo` and `current <-` the call that has native work.

### `BlockFetch`

The rows of all result sets are numbered from 1, so "in order, once" is a
property of the list `out` of the rows the application got. One step is one
`SQLFetch`, or one row that is copied from the bound buffers.

| code (`src/odbc_result.cpp`) | model |
| --- | --- |
| `m_rowArraySize`, `m_rowsFetched`, `m_currentRowInBlock`, `m_blockExhausted` | `size`, `fetched`, `current`, `exhausted` |
| bound column buffers, `m_rowStatusArray` | `buffer`, `valid` |
| the statement's cursor in the CLI driver | `set`, `pos` |
| `ODBCResult.queue.fifo` (JavaScript) | `fifo` |
| the work struct of a call: function, `maxCount`, stage, `result`, `rowIndex`, `rows` | `fn`, `count`, `stage`, `result`, `idx`, `rows` |
| `UV_Fetch`, `FetchSync` / `FetchAllSync` | `FetchBlock` / `FetchWhole` |
| `BlockFetchNextRow` | `TakeRow`, `Refill`, `FindsExhausted` |
| `UV_FetchN`, `UV_FetchAll`, `FetchNSync` without block fetch | `FetchOneRow` |
| `UV_AfterFetch`, `UV_AfterFetchN`, `UV_AfterFetchAll`, the loops of the synchronous versions | `CopyRow`, `WholeCopied`, `BlockCopied`, `AfterRow`, `AfterNoData`, `AfterError` |

`size = 1` is the path without block fetch, where the values come from
`SQLGetData`: `buffer[1]` is then the row the cursor is on. `fetch` and `fetchN`
go through the queue of the result; each calls `next` exactly once, so the queue
is executing exactly while a queued call is under way. An `SQLFetch` that fails
leaves the cursor where it is (an assumption about the driver). With an error
the JavaScript layer passes no rows on.

`Styles` and `Waits` say what the application does. The functions of this class
fall into two families: `fetchN`, `fetchNSync` and `fetchAll` deliver row by
row and remember their place in the block; `fetch`, `fetchSync` and
`fetchAllSync` fetch a block and deliver it whole. With block fetch the two do
not mix (see below), so an application has one style. `Waits` is the usual
discipline that a call is made when the last one has been answered, which the
queue makes unnecessary for `fetch` and `fetchN`.

### `Statement` and `StatementQueue`

`Statement` is the native object and the part of the driver it relies on. Each
asynchronous method is three steps: `X` queues the work, `UV_X` (with a step
`UV_XEnters` before it where the driver reads buffers while it runs) is the
worker, `UV_AfterX` the handler. A synchronous method is one step, or two when
it frees parameters and then has to wait for the driver (`BindSync`,
`CloseSync`).

| code (`src/odbc_statement.cpp`) | model |
| --- | --- |
| `m_hSTMT` not `NULL`; `params`, `paramCount` | `stmt.open`; `stmt.params`, named after the call that made the array |
| a parameter array with or without data to be sent at execution | `shape` |
| the driver's handle, the buffers it was told of, what it waits for, whose diagnostic records it has | `cli.alive`, `bound`, `needs`, `diag` |
| a `uv_work_t` | `work[c]` |
| a handler that has called back and has not yet called `SQLFreeStmt` | `stmt.late`, the call it is of; `ClosesLater`, `LateFreeStmt` |
| the JavaScript thread blocked in a synchronous call | `js` |
| `FREE_PARAMS` under a running call; a read of freed buffers; output values of another array; another call's error, or one that is gone | the members of `faults` |

The driver lets one call at a time into a connection, `SQLCancel` excepted
(`DriverFree`). `needs` follows data sent at execution: `SQLExecute` asked
("asked"), `SQLParamData` said for which parameter ("token"), `SQLPutData`
brought some ("data").

`StatementQueue` extends it with the JavaScript half. `fifo`, `executing` and
`turn` are as in `DbQueue`; `binds`, `bindBusy`, `bindTurn` and `attrs`,
`attrBusy` are the other two queues, whose functions never call `next`;
`stage[c]` is the native method a call starts at its next turn, which for
`executeWithStream` is a new call to `queue` each time; `then` is the second
native method of an execution with parameters, or of a call whose callback the
application runs (`stage[c] = "callback"`), from which it may call anything.
Only then does the handler run `next`, whose turn may start the next call on a
thread, and last of all, when JavaScript has returned, `HandlerEnds` closes the
cursor, after or beside what that call does. `Disconnect` is the connection
being closed by somebody else, at any time.

`Core` and `MaxRare` bound what is called: any number of the kinds in `Core`
and `MaxRare` calls of all other kinds together.

### `Transactions`

One pooled connection. `calls` lists what clients call, with a thread of the
pool for each; workers run in any order, except queries, which wait for each
other in the connection's queue. Every query writes something of its own, known
by the call's number: `pending` and `committed` are sets of such numbers, and
`told` is what the client knows of each.

| code | model |
| --- | --- |
| `conn.inTransaction` (`lib/odbc.js`) | `inTransaction` |
| `SQL_ATTR_AUTOCOMMIT` of the driver | `auto` |
| `beginTransaction`, `endTransaction` and their `Sync` versions | `BeginTransaction`, `EndTransaction` with `how` |
| `UV_BeginTransaction`, `UV_EndTransaction` | `UV_BeginTransaction`; `UV_EndTran`, then `UV_AutocommitOn` |
| `poolClose`, `poolCloseSync` | `PoolClose` |

The driver may refuse each call on a live connection too: `SQLEndTran`, and
either change of autocommit. `obeyed` says whether it did what `inTransaction`
was last set for: an asynchronous begin sets the flag before it asks, a commit
or rollback clears it before, and neither takes that back. `mishaps` remembers
three things clients cannot know: `early`, the connection was handed over while
the last client's rollback is under way; `swallowed`, a failure was reported as
success, or to nobody; `refused`, autocommit was not turned on after the end of
a transaction, so that one, perhaps with its work, is still open.

### `Connection`

Objects are places (`Conns`, `Objs`), handles are numbers (`Dbcs`, `Stmts`) the
driver gives out again once they are free. Work that needs the driver twice is
`between` in the meantime, so a number may be freed and given out again by
another thread at that moment.

| code | model |
| --- | --- |
| `m_hDBC`, `connected`, `Ref`/`Unref`, reachable from JavaScript | `conn[c].dbc`, `connected`, `refs`, `held` |
| `m_hSTMT`, `m_canFreeHandle` of statements and results | `obj[o].h`, `canFree` |
| a `uv_work_t` with the handle it allocated | `work[w]`, `got` |
| the driver's connection handles: allocated, connected with or without autocommit, in a transaction | `dbc[d]` |
| the driver's statement handles and their connections | `handle[h]` |
| `Free()`, destructors | `Free`, `CollectConnection`, `CollectObject` |

`SQLDisconnect` refuses within a transaction and frees the connection's
statements otherwise; `SQLFreeHandle` refuses a connected handle, and a
statement that waits for the data of a parameter. `ODBCStatement::Free` does not
look at the answer and forgets the number, which `refused` keeps from then on;
whether a statement, or a query that failed, waits is a choice here (`mayWait`),
and followed in `Statement`. A connection with any handle left on it, such a one
included, is in use, and closing it is careless; that `SQLDisconnect` does not
refuse because of a waiting statement is assumed of the driver. The changes of
autocommit may be refused as well. `hSTMT` is
not initialised in the synchronous calls: on a closed connection it is any
number (`AnyNumber`).

`careless` says that the application closed or dropped something that was in
use, or used what it was closing (the module's comment has the list). From then
on it makes no more calls, and the objects promise nothing. Everything the
garbage collector does, and every order of workers and handlers, is allowed
before that.

## What is checked

The type invariants of `ConnectionPool`, `DbQueue`, `BlockFetch` and
`StatementQueue` are checked in a run, and all six type invariants are proved.

| run | instance | shows |
| --- | --- | --- |
| `pool_fifo` | 4 clients, 1 string, 3 connections, limit 2; `closeSync`, second closes, calls in callbacks of `close`, two deep | `NeverAboveMax`: no more connections than `maxPoolSize`; `NoIdleWhileWaiting`, `WaitOnlyWhenFull`, `NobodyStranded`, `FirstComeFirstServed`, and no deadlock |
| `pool_fair` | 4 clients, 1 string, 3 connections, limit 2; `closeSync`, transactions; no calls in callbacks, as with promises | `UsedIsHeld`: `usedPool` is what clients hold; `FairService` (implements `FairPool`, liveness included), `EveryRequestServed` |
| `pool_sizes` | 3 clients, limits 1 to 3 that change, `init`, `initAsync`, `openSync`, `cleanUp`, failing opens, calls in a callback of `close` | `SizeIsExact`: `poolSize` counts the connections that exist |
| `pool_lost` | 3 clients, 2 strings; connections are lost with transactions open, opens may fail, `cleanUp`, `initAsync`, calls in a callback of `close` | `ExclusiveUse`, `ListedOnce`, `IdleHasNoTransaction` |
| `dbq_serial` | 4 calls, errors, lost connections, `closeSync`, open and close again | `Serial` (implements `SerialQueue`, liveness included), `AnsweredLast`, `ConnectedHasConn` |
| `dbq_all` | 3 calls of every kind with every mishap, up to 3 result sets | `NoIdleBacklog`, `OverlapIsFromNextSets`, `ResultsClosed` |
| `block_fetch` | 3 calls, result sets of 4 and 1 rows, blocks of 1 and 3, one failing `SQLFetch`, rows in error | `OnceInOrder`, `NothingLost`, `EndIsEnd`, `EveryCallAnswered` |
| `stmt_queue` | 3 calls: any number of executions and binds, one of every other kind, in callbacks too; the connection may be closed | `QueueSerial`, `BuffersOutliveReads`, `ErrorsAreOwn`, `EndlessOnlyWhenClosed`, `DroppedIsFreed`, `BindsAreExecuted` |
| `stmt_answers` | 2 calls of any kinds, wrong parameters, a stream with one chunk | `EveryCallAnswered`: the queue of a statement goes on whatever fails |
| `transactions` | 2 clients, 4 calls, each of which the driver may refuse, a connection that may be lost | `ToldIsTrue`, `FlagIsAutocommit`, `LeftWorkEnds` |
| `bug_lost_commit` | 2 clients, 3 calls | `CommitIsHonest` is violated, see Findings |
| `connection` | 1 connection object, 2 statements or results, 2 pieces of work, 2 numbers of each kind | `OwnHandles`, `NoLeak`, `WorkHasItsConnection`, `ConnectedIsTrue` |

Why the bounds are enough. In the pool, three or four clients at a limit of two
or three give a holder, a waiter and one that comes later, on the same string
or another one; one connection more than the limit is there to be opened by
mistake. In the
queue, three calls are one that executes, one that waits and one whose handler
runs `next`; a fourth makes the order of the waiting ones visible. For the
rows, a set of four rows in blocks of three has a full block, a short one and
an edge that a count of 3 straddles after a count of 1; the second set has one
row. On a statement, three calls are a bind, an execution that reads what was
bound, and one that frees or replaces it; binds wait for executions, so a third
is the first that can be early. Four calls on a connection are a transaction of
the first client (begin, write, its rollback by the pool) and a call of the
next client beside that rollback. A callback of `close` inside another one has
two connections on offer before the queue is run, as many as the limit allows.
For the handles, two objects share one number
and two pieces of work compete for another; a second number of each kind is
given out while the first is being freed. The proofs say the same for any
number of all of these.

The limits in guards, beside the finite number of calls, are `Bound`
and `Nested` (ConnectionPool), `MaxErrors` (BlockFetch), `MaxRare` and `MaxChunks`
(StatementQueue), `MaxCalls` (Transactions), the places `Conns`, `Objs`,
`Works` (Connection), and `careless`. Runs without a deadlock check are those
where the application may have made all its calls, or may hold all connections
for good.

Fairness. The pool: the driver answers every open and every close, and the
applications close the connections they hold (without that nothing promises a
waiting request anything), and a callback of `close` returns. The queue: JavaScript finishes the handler it is in
(`RunsNext`), and each native work ends (`Completion(c)`). The rows: a worker,
and the JavaScript thread, go on with a call they have begun (`Works(c)`). The
statement: the event loop goes on (`Thread`), which includes that callbacks
return and that a stream that is read brings data, ends or fails, and a thread
gets to each piece of work (`Works(c)`). Transactions: a thread, or the handler, gets to every call
(`Worker(i)`, `After(i)`). Nothing obliges an application to make a call, and
`Connection` has no liveness property and no fairness.

### Findings

`bug_lost_commit`: `UV_AfterBeginTransaction` and `UV_AfterEndTransaction` read
the result of the work through another struct than the one the work wrote it
through, find `SQL_SUCCESS` there, and call back without an error
(`odbc_connection.cpp:1121`). A client is told that its transaction is
committed when it is not. `ToldIsTrue` is what holds without such a failure.

Other disagreements met while modelling can be seen by changing a constant or a
property of a run, and are not repeated as runs. These have a property ready:

| property | how to see it | what happens |
| --- | --- | --- |
| `NeverAboveMax` | as an `INVARIANT` of `pool_fair`, with `Faults = {"lost"}`, `MaxSize = 1` | a lost connection is dropped from the pool; when its client closes it, `splice(indexOf(db), 1)` with index -1 removes somebody else's connection and `poolSize` counts one too few (odbc.js:3919) |
| `HandsOutConnected` | as a `PROPERTY` of `pool_fifo`, with `Faults = {"lost"}` | `checkConnectionError` returns the lost connection to the pool, which hands it to a parked request, before it disconnects it (508) |
| `EveryRequestServed`, `FairService` | `pool_fair` with `Nested = 1` (`MaxSize = 1` is enough) | an `open` in the callback of `close` takes the connection that has just come back, before `close` runs the queue (3929, 3936); the request that is run then finds nothing and goes to the end of the line (3743), so it is overtaken, and for ever by a client that goes on closing and opening like this |
| `NobodyStranded`, `EveryRequestServed` | `pool_fifo`, `pool_fair` with `Faults = {"open"}` | the open that filled the pool fails; the request parked because of it is never run (3761) |
| `AnsweredAtMostOnce` | as an `INVARIANT` of `dbq_all` | `query` reports the error of `parseParams` and executes the statement all the same (701) |
| `EndIsEnd` | `block_fetch` with `Styles <- NextSets`, `Sizes = {2}`, `Counts = {2}`, `Ends <- SmallSets` | `moreResultsSync` leaves `m_blockExhausted` set; the next result set reads as empty (odbc_result.cpp:1158) |

The others:

- Pool: `init` and `initAsync` compare their count with `maxPoolSize` and not
  with what is open already (odbc.js:3960; `NeverAboveMax` in `pool_sizes` with
  `NewSizes = {}`). A
  close runs one request, which may be for another string and parks itself
  again (3743; two strings in `pool_fifo`). A second close takes the connection
  from the client that has it now (3902; `"reclose"` in `pool_lost`). A request
  parked by `openSync` has no caller, and the connection it takes later is used
  by nobody (3819; `"openSync"` in `pool_fair`). A close that `cleanUp` started
  makes room and does not run the queue (4116; `AutoClean` in `pool_fifo`).
  `initAsync` calls back when the open it issued last completes, not when the
  last one completes (4064).
- Queue: `fetchMore` starts to fetch the next result set and falls through to
  `next()`, so the following call, which may be `close`, runs on the connection
  at the same time (626-631, 660). `tables` and `columns` return without
  `next()` when the statement fails (1317, 1361), and a catalog call after
  `close` throws inside the queue function: the queue stands still from then
  on. A query with `noResults` is never answered (555), or throws when it has
  output parameters. The `keys` calls answer an error after calls that were
  made later (1412). The native call after parameter streams were read is
  outside the `try`. Without a callback `open` sets `connected` even when it
  failed (404-407), and `prepare` rejects and then goes on with a statement
  that does not exist (1748). `querySync` stops at the first result set without
  rows (960).
- Rows: with block fetch, `fetchSync` and then `fetchN` delivers the block
  twice, and `fetchN` for a part of a block and then `fetch` or `fetchAllSync`
  loses the rest of it; `moreResultsSync` in the middle of a block lets the
  next set begin with rows of the last. `fetchAll` does not go through the
  result's queue (3493; the comment at 2261 says all functions do), and beside
  another call it reads and overwrites that call's block. `FreeColumns` sets
  `colCount` to 0 before `FreeBlockFetchBuffers` uses it, so the column buffers
  are not freed. A fetch after `closeSync` gets `SQL_INVALID_HANDLE`, which the
  code takes for a row.
- Statements: `bind` frees the last array, outside `queue`, while a thread may
  be reading it, and an execution without parameters reads buffers its
  predecessor has freed (add `"bind"` or `"execute"` to `OwnParameters`).
  `UV_AfterExecuteNonQuery`, and the handlers of the catalog calls when they
  report an error, call `SQLFreeStmt` after the callback, in which `next()` has
  started the next call (odbc_statement.cpp:334, 959): it wipes that call's
  diagnostic records, so an error is reported without its text (`ErrorsAreOwn`
  without its last condition), and may close its cursor, which is not modelled.
  `prepare` gives up its turn before its work, so an error may be another
  call's (add it to `ErrorsAreOwn`). `bindQueue` is moved on only by
  executions without parameters, and `setAttrQueue` by nothing: the second
  `setAttr` never runs (2854). `stmt.cancel` waits in `queue` behind the
  execution it should cancel (2177). `executeWithStream` may answer twice when
  the stream fails while a chunk is sent, and leaves the statement waiting for
  data, so that a later drop does not free the handle. A catalog call on a
  handle that was closed fetches for ever on the JavaScript thread
  (odbc.cpp:1370).
- Transactions: the calls do not go through the queue, and two that overlap run
  in any order. An asynchronous begin that fails leaves `inTransaction` set
  (odbc.js:1203), and when the driver refuses to turn autocommit on again, the
  transaction is open and `inTransaction` is not set, so no close rolls it back
  (odbc_connection.cpp:1115; `FlagIsAutocommit` without `obeyed`, `LeftWorkEnds`
  without its second half). When `SQLEndTran` fails, the `SQL_AUTOCOMMIT_ON` that follows
  commits what it left open, a rollback included (odbc_connection.cpp:1115).
  `poolClose` rolls back asynchronously on a connection that is on offer
  already; the next client's first writes may be rolled back with it
  (odbc.js:3914).
- Handles: `beginTransaction` and `endTransaction` take no reference, so the
  connection object may be collected, and its handle freed, before the worker
  reads it (odbc_connection.cpp:1032; `WorkHasItsConnection` without its
  exception). `closeSync` while an open is under way frees the handle, and
  `UV_AfterOpen` sets `connected` all the same (216). Closing a connection
  frees its statements' handles in the driver; the objects keep the numbers and
  free them again, by then perhaps another statement's (82). Closing within a
  transaction leaks the connection and its locks (82). `querySync`,
  `getTypeInfoSync` and `createStatementSync` on a closed connection use an
  uninitialised `hSTMT`. `createDbSync` and `dropDbSync` free the handle and
  keep `m_hDBC`. `careless` stands for all of these but the leak. A statement
  that waits for data cannot be freed, and `Free` forgets it all the same
  (odbc_statement.cpp:82; `NoLeak` without `refused`).

## What is proved

Theorems hold for every value of the constants that satisfies the module's
assumptions.

| theorem | states | needs |
| --- | --- | --- |
| `ConnectionPool_proofs!TypeCorrect` | `TypeOK` | |
| `ConnectionPool_proofs!NeverListedTwice` | `ListedOnce`: with every option, every fault, and second closes | |
| `ConnectionPool_proofs!ClientsDoNotShare` | `ExclusiveUse` | `"reclose" \notin Uses` |
| `PoolLimits_proofs!NobodyWaitsBesideAnIdleConnection` | `NoIdleWhileWaiting`, with any calls in callbacks of `close` | one connection string, no `init`, no `initAsync` |
| `PoolLimits_proofs!IdleConnectionsAreClean` | `IdleHasNoTransaction` | `"reclose" \notin Uses` |
| `PoolLimits_proofs!PoolSizeIsExact` | `SizeIsExact` | nothing lost; no second close, or no `AutoClean` |
| `PoolLimits_proofs!ConnectedWhenHandedOut` | `HandsOutConnected` | the same |
| `PoolLimits_proofs!NeverMoreThanMaxPoolSize` | `NeverAboveMax` | the same, no `init`, no `initAsync`, one limit |
| `PoolLimits_proofs!WaitsOnlyForAFullPool` | `WaitOnlyWhenFull` | nothing lost, no open fails, no `AutoClean`, one limit |
| `PoolLimits_proofs!UsedConnectionsAreHeld` | `UsedIsHeld` | nothing lost, no second close, no `openSync` |
| `PoolLimits_proofs!ServedInOrder` | `FirstComeFirstServed`: of every step outside the callbacks of `close`, whatever was called in them | one connection string, no fault, no `AutoClean`, one limit, no `init`, `initAsync`, `openSync` |
| `FairPool_proofs!PoolServesFairly` | the safety part of `FairService` | the same, no second close, `Nested = 0` |
| `FairPool_proofs!NobodyWaitsInVain` | `NobodyStranded` | as `ServedInOrder` |
| `DbQueue_proofs!NeverIdleWithBacklog` | `NoIdleBacklog`: calls wait only for work under way, or after a call that ended without `next` | |
| `DbQueue_proofs!ResultsGetClosed` | `ResultsClosed` | |
| `DbQueue_proofs!AnswersComeLast` | `AnsweredLast` | `Careful` |
| `DbQueue_proofs!ConnectionIsThere` | `ConnectedHasConn` | `Careful` |
| `DbQueue_proofs!QueueTypes` | `TypeOK` | |
| `DbQueue_proofs!OverlapNeedsNextSets` | `OverlapIsFromNextSets` | |
| `DbQueue_proofs!QueueIsSerial` | the safety part of `Serial` | `Careful` |
| `BlockFetch_proofs!TypeCorrect` | `TypeOK` | |
| `BlockFetch_proofs!RowsComeOnceInOrder` | `OnceInOrder` | `KeepsStyle` |
| `BlockFetch_proofs!NoRowIsLost` | `NothingLost` | `KeepsStyle` |
| `BlockFetch_proofs!TheEndIsTheEnd` | `EndIsEnd` | `KeepsStyle`, `KeepsSet` |
| `StatementQueue_proofs!TypeCorrect` | `TypeOK` | |
| `StatementQueue_proofs!QueueSerialCorrect` | `QueueSerial`: one call at a time up to its callback, and what may follow that | |
| `StatementQueue_proofs!BuffersCorrect` | `BuffersOutliveReads` | |
| `StatementQueue_proofs!ErrorsCorrect` | `ErrorsAreOwn` | |
| `StatementQueue_proofs!EndlessCorrect` | `EndlessOnlyWhenClosed` | |
| `StatementQueue_proofs!DroppedCorrect` | `DroppedIsFreed` | |
| `StatementQueue_proofs!BindsCorrect` | `BindsAreExecuted` | |
| `Transactions_proofs!TypeCorrect` | `TypeOK` | |
| `Transactions_proofs!FlagTellsTheDriver` | `FlagIsAutocommit`, with `obeyed` | |
| `Transactions_proofs!ClientsAreToldTheTruth` | `ToldIsTrue` | |
| `Connection_proofs!TypeCorrect` | `TypeOK` | |
| `Connection_proofs!WorkFindsItsConnection` | `WorkHasItsConnection` | |
| `Connection_proofs!ConnectedMeansConnected` | `ConnectedIsTrue` | |
| `Connection_proofs!NoUseAfterFree` | `OwnHandles` | |
| `Connection_proofs!NothingForgotten` | `NoLeak`, with `refused` | |

**The pool.** `ListedOnce` is not inductive: `push` of a connection that is
being opened would list it twice if anybody knew it before. The invariant
`Sane` therefore adds that a connection whose first open runs is in no list and
in no client's hands (`Apart`), and that who holds, holds a connection
(`Handles`). `ExclusiveUse` needs besides that nothing on offer, or being
opened, is being closed by `cleanUp` (`Exclusive`); inside a handler it holds
only up to the connection that is being released, hence its parameter `x`. Each
handler operator has a lemma (`Sane(p) => Sane(Handler(p))`, and the same for
`Exclusive`), composed as the handlers are.

`PoolLimits_proofs` first states what each action does (`OpenEffect`,
`CloseEffect`, ...), so that its invariants need not open the handlers again. A
step in a callback of `close` has the same effects as one outside; `CInv` adds
to them that each close in `callbacks` is of a connection.
`CalmInv`: while a request waits no more connections are on offer than there are
closes that have yet to run the queue (`Prompt(p, Len(callbacks))`), so none
when no callback runs; and what is on offer is clean. The first half of a close
offers one connection and adds itself to `callbacks`, the second runs one
request and is gone from them: that one request is served if a connection is
left. With two strings, or with `init`, which offers several, it would be
false. `CountInv` says that whatever is listed, held or being
closed works, that what is being opened does not yet (`Alive`), and that
`poolSize` is the number of both together (`Known`); each handler that changes
the one changes the other by as much. A lost connection breaks it, and so does
a second close with `AutoClean`, which is why the theorems exclude them.
`Waiting` says that every parked request is of a client that is queued, once,
and that who has an open under way is opening; with it a request that is run
gives its client its first connection, and `Held` (usedPool against what
clients hold) survives. `FirstComeFirstServed` follows from three of them, step
by step (`Ordered`): while somebody waits nothing is on offer and the pool is
full, so an open can only wait as well; a close returns a connection that
works, which is then the one on offer, and the first request takes it. Its first
condition, that no callback runs, is used for `Prompt` alone, which inside a
callback allows a connection on offer; `WaitsOnlyForAFullPool` and the other
parts hold in callbacks as well.

`FairPool_proofs` shows that every step of the pool is one of `FairPool`, or
changes neither who waits nor who is inside. The pool decides by `poolSize` and
its lists, `FairPool` by the number of clients inside; `Places` relates the
two: `poolSize` is the number of clients inside and of connections on offer.
Every handler keeps that: an open takes from what is on offer or counts one
more, a close offers its connection, and the request it runs takes it. It needs
`Waiting` (who is served was not inside) and `Exclusive` (who closes gives back
a connection that is not on offer already), and fails with second closes. When
the pool is full and nothing is on offer, as many are inside as the limit
allows, so that who waits has reason to; when somebody waits, `CountInv` and
`Prompt` leave no way in. `NobodyStranded` holds with second closes too: no
connection is in neither list (`Listed`), and whatever `usedPool` lists is in
the hands of the client it was given to last (`InHands`), because any close
of it takes it out.

**The queue.** `NoIdleBacklog` asks for work only while calls wait, and the call
that is waiting now may be pushed long after the last one went wrong.
`WorkGoesOn` therefore says it of the queue: while it is executing some call is
at work or one has stalled it, and a turn is due only while it is not. Each
completion either keeps its work, runs `next`, or is one of those `stalled`
records. `ResultsClosed` needs that a call
that waits, or was not made, has no work and no open result (`Begun`). For an
application that does what the manual says (`Careful`: no catalog calls, no
wrong arguments, queries of one result set, no call before the connection is
open) `OneAtATime` adds that at most one call has work, that the queue is
executing then, and that only unanswered calls wait or work; under it every
step is a step of `SerialQueue` or leaves its variables as they are.

`TypeOK` bounds how often a call is answered, by two; `Answers` shows it, with
what each kind of call may still answer while it waits, works or reads on.
`OverlapIsFromNextSets` compares two numbers. Its invariant `OverlapPaid` counts
the queue itself among the busy: work beyond the call whose turn it is was
started by a `next` that came too early, and each of those is paid for by a
result set that `fetchMore` passed: the working calls, and one more for an idle
queue, are at most one more than those sets. A new turn is given only to an idle
queue, whose unit becomes that of the call; passing a set may free the queue,
which adds one to both sides.

**The rows.** `Typed` adds to `TypeOK` that a row function that was given a row
has a place in the block (`Placed`), without which `AfterRow` might read beside
the buffers. It holds for every application, also for one that mixes styles and
does not wait.

`OnceInOrder` looks only at the rows the application has; whether the next
answer keeps them in order depends on what the calls have in hand and on what
is left in the block. For an application that waits for its calls and reads
blocks in one style (`KeepsStyle`), `InOrder` says: at most one call is under
way (`Solo`) and it is of that style (`Styled`); its rows come after those the
application has (`Fitting`); the block is in order and nothing is ahead of the
driver (`BlockOrder`); what is left of the block comes after everything that
was taken (`ToCome`). Without `KeepsStyle` the theorem is false: the findings
above describe how mixing styles repeats rows.

`NothingLost` is inductive with `InOrder`, read row by row (`NoneLost`): each
step moves a row from the driver to the block or a hand, from the block to a
hand, from a hand to the application, and none elsewhere. `EndIsEnd` needs to
know where the driver is whenever something says that there are no more rows,
be it `m_blockExhausted`, a worker that comes back without one, or what the
application was told (`Ending`): at the end of its set, with nothing left in the
block (`AtEnd`) and, after the answer, in no call's hand. `KeepsSet` is needed
because `m_blockExhausted` survives `moreResultsSync`.

**Prepared statements.** `QueueSerial` looks at native work only, and an
execution with parameters has none between its bind and its execution, nor a
stream between two turns of the queue. `SerialInv` therefore follows whole
calls: one that was started and not ended is `Busy`, at most one is, and while
it is the queue is executing, so that no turn is due (`OneAtATime`). `CallOK`
ties what a call has in hand to its kind; it shows that whoever runs `next`
is a call of queue, the busy one. That `bind` and `setAttr` have queues of their
own does no harm here, because their handlers never run `next`. A call whose
callback runs is still the busy one, until `CallbackReturns` gives the turn on;
its `SQLFreeStmt` may be left over then, and `LateOK` says that the handler that
owes it is one of a call that was answered, and of a kind that closes late.

`ErrorsAreOwn` needs that while an error waits for its handler, the driver's
diagnostic records are still those of its call, or were wiped by a handler that
closed its cursor late, which only certain kinds do (`DiagOf`, in `OwnErrors`).
That holds as long as only the busy call reaches the driver otherwise, which is
why the property leaves out everything that is not in the queue, and
`prepare`.

`BuffersOutliveReads` follows the array of a call from its bind to the end of
its execution: it is the object's, and the one the driver was told of
(`ArrayOK`), since nobody binds or frees in between. What calls hold, and that
a call with parameters waits in the queue once and before its bind
(`UsesInv`), keeps a second bind of the same call out. The precondition of the
property, on the kinds of calls made, can only become false, so each step may
assume that it still holds after it.

`EndlessOnlyWhenClosed` and `DroppedIsFreed` rest on one fact about every step,
asynchronous, synchronous or of the driver: the handle may go, and never comes
back (`NextHandles`).

`BindsAreExecuted` bounds how far `bindQueue` runs ahead of the executions that
move it on. A call runs its bind once, and its execution is counted once
(`RunsOnce`), so the two numbers are those of two sets of calls; `BindsPaid`
says that every bind that has run but the first is paid for by an execution, and
so is the one about to run while `bindQueue` is executing, and the one an
`executeNonQuery` in its callback will let go on when that returns (`Owes`).

**Transactions.** `FlagIsAutocommit` speaks of moments when nothing is under
way; to get from one to the next, `FlagInv` says what happens in between.
Unless a connection was handed over early, one call is under way at most, and
it is the holder's or the rollback after the last one (`OneAtATime`); while it
is, `Agrees` says what the flag and the driver are at each of its phases, as far
as the driver has obeyed. A synchronous begin that is refused leaves both as
they were, so it is no exception; every other refused change is one until the
driver obeys again.
`ToldIsTrue` needs in addition that what is written, was written by a call
whose client is told of it when the call is over (`Books`), and without
mishaps: that only the holder takes itself to be in a transaction, and is right
(`Units`), what the call under way has done so far (`Works`), that a driver that is alive
has obeyed (`Truth`), and that what is
told to be undone is neither committed nor pending, except under a rollback
that waits for its thread (`Told`).

**Handles.** `Sane` adds to the types what work of each kind looks like
(`WorkShape`). References are counted exactly: `refs` is the number of pieces
of work that took one (`RefInv`), which gives `WorkHasItsConnection`.
For a careful application `Careful` adds that each connection handle is in one
place (`Owned`), that nothing else is on a connection once its close has begun
(`ClosesAlone`), that a closed connection stays closed (`ClosedIsShut`), and
that an open that has succeeded, and an object that says connected, are right
(`OpenedIsTrue`, `SaysTrue`). `OwnHandles` follows from that and from
`StmtsOk`: a live object's handle exists, is freed by no other object, and is
not the one some work is about to hand over; the handle that work has exists
and is shared by cancels only. `careless` is what makes these inductive: each
step that could break them is shown to set it. `NoLeak` needs no care for
statements (`LeakInv`: every allocated handle has an object or a piece of work
that owns it or was refused to be freed, a refused one stays so until it is
freed, and a place without an object has nothing left of the last one).
For connections it needs that the second half of a close finds the handle
disconnected, or in a transaction (`Shut`), and then that whatever is
allocated, or connected without a transaction, has its owner (`DbcKept`).

Only model-checked: the liveness properties, `EveryRequestServed`,
`EveryCallAnswered`, `LeftWorkEnds` and the liveness of `Serial` and
`FairService` (the prover has no rules for fairness and `ENABLED`). Every other
property that a run checks is proved, under the conditions in the table.

## What is not modelled

See `components` in `PROJECT.json` for each part. `Pool.close` and
`Pool.closeSync` are left out: they end the pool without emptying its lists,
and nothing the other runs show holds after them. Values are left out
everywhere: what `GetColumnValue`, `GetParametersFromArray` and
`BindParameters` do to one value, formatting of dates and numbers, and
`strptime`; so is the 65536-character limit of a block-fetch column.
`getData`, `bindFileToCol` and the metadata calls of results are not modelled,
nor are the constants in `climacros.js`, the installer, which downloads and
unpacks the driver, and the TypeScript declarations.

The synchronous versions of the `Database` calls bypass the queue and run in
one step; of them only `closeSync` is in `DbQueue`, while `Connection` has what
all of them do to handles. In `BlockFetch` the number of columns is fixed and
not zero, the attribute `SQL_ATTR_ROW_ARRAY_SIZE` does not change between
fetches, and what two worker threads do to one block is ordered by `SQLFetch`,
not by instruction. In `Statement` the text of `executeDirect` has no markers
and whether a cursor is open is left out, so that what a late `SQLFreeStmt` does
to the next call is shown for its diagnostics only. In `Connection` an execution is one
step, and what a result could do with its number after its close is left out.
