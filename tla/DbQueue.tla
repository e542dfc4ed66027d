------------------------------ MODULE DbQueue ------------------------------
(***************************************************************************)
(* One connection's queue of calls (Database.queue, lib/simple-queue.js)   *)
(* with the calls that go through it: query, queryResult, the catalog      *)
(* functions, getInfo and its kin, cancel and close, and the operations    *)
(* that do not go through it: open and closeSync.                          *)
(*                                                                         *)
(* A call's function runs on the JavaScript thread when its turn comes and *)
(* starts native work; libuv runs the work on another thread and posts its *)
(* completion, whose handler answers the call and calls next().  Next runs *)
(* the function of the following call, so one handler may run through many *)
(* calls: `turn' says that next() is due, and while it is no other handler *)
(* runs.                                                                   *)
(***************************************************************************)
EXTENDS Integers, Sequences, FiniteSets

CONSTANTS
    Calls,     \* the calls the application makes
    Kinds,     \* the APIs it uses
    Mishaps,   \* what it may do wrong, and what may happen to it
    MaxSets,   \* bound on the result sets of one query
    Nobody

AllKinds == {"query", "queryResult", "tables", "keys", "typeInfo", "info",
             "cancel", "close"}

(*   refused   native work ends with an error, also that of open           *)
(*   lost      that error is SQL30081N and the connection is a pooled one  *)
(*   badParam  the parameters of a query, or the arguments of tables or    *)
(*             columns, are not what they must be                          *)
(*   badCall   a native method or a check before it throws                 *)
(*   noResults a query is made with noResults: true                        *)
(*   streams   a query has parameters that are readable streams            *)
(*   closeSync the application calls closeSync                             *)
(*   hasty     it does not wait for open before it makes calls, nor for    *)
(*             its calls before it opens the connection again              *)
AllMishaps == {"refused", "lost", "badParam", "badCall", "noResults",
               "streams", "closeSync", "hasty"}

ASSUME ConstantsAssumption ==
    /\ Kinds \subseteq AllKinds
    /\ Mishaps \subseteq AllMishaps
    /\ MaxSets \in Nat \ {0}
    /\ Nobody \notin Calls

VARIABLES
    kind,       \* kind[c]: the API of call c, "none" before it is made
    fifo,       \* queue.fifo
    executing,  \* queue.executing
    turn,       \* queue.next is about to look at fifo
    stalled,    \* a call has ended without calling next()
    job,        \* job[c]: the native work of c that is under way
    got,        \* got[c]: complete result sets fetched before the current one
    held,       \* calls whose result or statement handle is open
    answered,   \* answered[c]: how often the callback of c was called
    connected,  \* db.connected
    hasConn,    \* db.conn is set
    opening     \* the progress of db.open

vars == <<kind, fifo, executing, turn, stalled, job, got, held, answered,
          connected, hasConn, opening>>

Jobs == {"none", "streams", "exec", "fetch", "close", "late"}

Init ==
    /\ kind = [c \in Calls |-> "none"]
    /\ fifo = <<>>
    /\ executing = FALSE
    /\ turn = FALSE
    /\ stalled = FALSE
    /\ job = [c \in Calls |-> "none"]
    /\ got = [c \in Calls |-> 0]
    /\ held = {}
    /\ answered = [c \in Calls |-> 0]
    /\ connected = FALSE
    /\ hasConn = FALSE
    /\ opening = "no"

-----------------------------------------------------------------------------
(* Classes of calls. *)

(* These look at db.connected before they call the connection. *)
Checked == {"query", "queryResult", "typeInfo", "info", "cancel"}

(* These catch what the native method throws. *)
Caught == {"query", "cancel"}

(* These go on with a result (or a statement) the first work produced. *)
TwoStage == {"query", "tables", "keys", "typeInfo"}

Busy == {c \in Calls : job[c] # "none"}

(* The JavaScript thread is inside a handler. *)
Running == turn \/ \E c \in Calls : job[c] = "late"

May(x) == x \in Mishaps

Answer(c, n) == answered' = [answered EXCEPT ![c] = @ + n]

Work(c, j) == job' = [job EXCEPT ![c] = j]

(* The argument of a queue function: executing = false; maybeNext().        *)
NextCall == executing' = FALSE /\ turn' = TRUE /\ UNCHANGED stalled

Stay == UNCHANGED <<executing, turn, stalled>>

(* It is not called: executing stays true. *)
Stalls == UNCHANGED <<executing, turn>> /\ stalled' = TRUE

(* Database.checkConnectionError of a pooled connection closes it at once.  *)
(* Other connections, and other errors, are left alone.                     *)
ConnectionError(lost) ==
    /\ connected' = (connected /\ ~lost)
    /\ hasConn' = (hasConn /\ ~lost)

Losses == IF May("lost") THEN BOOLEAN ELSE {FALSE}

-----------------------------------------------------------------------------
(* The application. *)

(* Mutant of Push: the queue is not asked whether it is executing.          *)
Push_Unasked(c, k) ==
    /\ kind[c] = "none" /\ ~Running /\ (opening = "no" \/ May("hasty"))
    /\ kind' = [kind EXCEPT ![c] = k]
    /\ fifo' = Append(fifo, c)
    /\ turn' = TRUE
    /\ UNCHANGED <<executing, stalled, job, got, held, answered, connected,
                   hasConn, opening>>

(* queue.push.  With arguments missing, tables and columns report the error *)
(* and go on.                                                               *)
Push(c, k) ==
    /\ kind[c] = "none"
    /\ ~Running
    /\ opening = "no" \/ May("hasty")
    /\ kind' = [kind EXCEPT ![c] = k]
    /\ fifo' = Append(fifo, c)
    /\ turn' = ~executing
    /\ \E n \in IF k = "tables" /\ May("badParam") THEN {0, 1} ELSE {0} :
          Answer(c, n)
    /\ UNCHANGED <<executing, stalled, job, got, held, connected, hasConn,
                   opening>>

(* Database.open, which bypasses the queue. *)
Open ==
    /\ ~Running
    /\ opening = "no"
    /\ ~connected
    /\ (fifo = <<>> /\ Busy = {}) \/ May("hasty")
    /\ opening' = "creating"
    /\ UNCHANGED <<kind, fifo, executing, turn, stalled, job, got, held,
                   answered, connected, hasConn>>

(* The callback of createConnection. *)
ConnectionCreated ==
    /\ ~Running
    /\ opening = "creating"
    /\ hasConn' = TRUE
    /\ opening' = "connecting"
    /\ UNCHANGED <<kind, fifo, executing, turn, stalled, job, got, held,
                   answered, connected>>

(* The callback of conn.open: without a callback of the application's       *)
(* db.connected is set also when the open failed.                           *)
OpenDone ==
    /\ ~Running
    /\ opening = "connecting"
    /\ connected' \in {TRUE} \cup (IF May("refused") THEN {connected} ELSE {})
    /\ opening' = "no"
    /\ UNCHANGED <<kind, fifo, executing, turn, stalled, job, got, held,
                   answered, hasConn>>

(* Mutant of CloseSync: connected is left as it was. *)
CloseSync_StaysConnected ==
    /\ May("closeSync") /\ ~Running /\ (opening = "no" \/ May("hasty"))
    /\ hasConn' = FALSE
    /\ UNCHANGED <<kind, fifo, executing, turn, stalled, job, got, held,
                   answered, connected, opening>>

(* Database.closeSync, which bypasses the queue and the work under way. *)
CloseSync ==
    /\ May("closeSync")
    /\ ~Running
    /\ opening = "no" \/ May("hasty")
    /\ connected' = FALSE
    /\ hasConn' = FALSE
    /\ UNCHANGED <<kind, fifo, executing, turn, stalled, job, got, held,
                   answered, opening>>

-----------------------------------------------------------------------------
(* queue.next: run the function of the first call in fifo. *)

QueueEmpty ==
    /\ turn
    /\ fifo = <<>>
    /\ turn' = FALSE
    /\ UNCHANGED <<kind, fifo, executing, stalled, job, got, held, answered,
                   connected, hasConn, opening>>

NotConnected(c) ==
    \/ kind[c] \in Checked /\ ~connected
    \/ kind[c] = "close" /\ ~hasConn

(* The native method throws: db.conn is gone, or its arguments are wrong.   *)
(* createStatement takes none, and those of getTypeInfo are checked before. *)
NativeThrows(c) ==
    /\ ~NotConnected(c)
    /\ kind[c] # "close"
    /\ ~hasConn \/ (May("badCall") /\ kind[c] \notin {"keys", "typeInfo"})

(* parseParams found an error: the callback is called, and query goes on.   *)
ParamErrors(c) ==
    IF kind[c] \in {"query", "queryResult"} /\ May("badParam")
    THEN {0, 1} ELSE {0}

(* The function answers its call itself and calls next().  An error that is *)
(* thrown is answered by query and cancel; getInfo, setAttr and getTypeInfo *)
(* answer what their own checks of the arguments find.                      *)
AnsweredAtOnce(c) ==
    /\ turn
    /\ fifo # <<>> /\ c = Head(fifo)
    /\ \/ NotConnected(c) /\ Answer(c, 1)
       \/ NativeThrows(c) /\ kind[c] \in Caught
             /\ \E n \in ParamErrors(c) : Answer(c, n + 1)
       \/ kind[c] \in {"info", "typeInfo"} /\ May("badCall") /\ Answer(c, 1)
    /\ connected' = (connected /\ kind[c] # "close")
    /\ fifo' = Tail(fifo)
    /\ UNCHANGED <<kind, executing, turn, stalled, job, got, held, hasConn,
                   opening>>

(* The function throws: next() is not called, executing stays true.  What   *)
(* the handler that called it had still to do is not done.                  *)
Throws(c) ==
    /\ turn
    /\ fifo # <<>> /\ c = Head(fifo)
    /\ NativeThrows(c)
    /\ kind[c] \notin Caught
    /\ \E n \in ParamErrors(c) : Answer(c, n)
    /\ executing' = TRUE
    /\ turn' = FALSE
    /\ stalled' = TRUE
    /\ job' = [d \in Calls |-> IF job[d] = "late" THEN "none" ELSE job[d]]
    /\ fifo' = Tail(fifo)
    /\ UNCHANGED <<kind, got, held, connected, hasConn, opening>>

(* The function starts native work, or reads the streams it is given. *)
Starts(c) ==
    /\ turn
    /\ fifo # <<>> /\ c = Head(fifo)
    /\ ~NotConnected(c)
    /\ \/ hasConn /\ Work(c, IF kind[c] = "close" THEN "close" ELSE "exec")
             /\ \E n \in ParamErrors(c) : Answer(c, n)
       \/ kind[c] = "query" /\ May("streams") /\ Work(c, "streams")
             /\ UNCHANGED answered
    /\ executing' = TRUE
    /\ turn' = FALSE
    /\ fifo' = Tail(fifo)
    /\ UNCHANGED <<kind, stalled, got, held, connected, hasConn, opening>>

-----------------------------------------------------------------------------
(* Completions. *)

Completes(c, j) == ~Running /\ job[c] = j

(* The callback of resolveStreamParams.  It runs outside the try of query:  *)
(* what the native method throws now is not caught.                         *)
StreamsRead(c) ==
    /\ Completes(c, "streams")
    /\ \/ Answer(c, 1) /\ Work(c, "none") /\ NextCall
       \/ /\ hasConn
          /\ Work(c, "exec") /\ Stay
          /\ \E n \in ParamErrors(c) : Answer(c, n)
       \/ /\ ~hasConn \/ May("badCall")
          /\ Work(c, "none") /\ Stalls
          /\ \E n \in ParamErrors(c) : Answer(c, n)
    /\ UNCHANGED <<kind, fifo, got, held, connected, hasConn, opening>>

(* Mutant of ExecFails: the error of any call is reported without next().   *)
ExecFails_NoNext(c) ==
    /\ Completes(c, "exec") /\ May("refused") /\ kind[c] # "keys"
    /\ \E lost \in Losses : ConnectionError(lost)
    /\ Answer(c, 1) /\ Work(c, "none") /\ Stay
    /\ UNCHANGED <<kind, fifo, got, held, opening>>

(* The work ended with an error.  tables and columns return without next(). *)
(* createStatement never reports an error.                                  *)
ExecFails(c) ==
    /\ Completes(c, "exec")
    /\ May("refused")
    /\ kind[c] # "keys"
    /\ \E lost \in Losses : ConnectionError(lost)
    /\ Answer(c, 1)
    /\ Work(c, "none")
    /\ IF kind[c] = "tables" THEN Stalls ELSE NextCall
    /\ UNCHANGED <<kind, fifo, got, held, opening>>

(* It ended well and the call is answered with what it returned. *)
ExecAnswers(c) ==
    /\ Completes(c, "exec")
    /\ kind[c] \notin TwoStage
    /\ kind[c] # "close"
    /\ Answer(c, 1)
    /\ Work(c, "none")
    /\ NextCall
    /\ UNCHANGED <<kind, fifo, got, held, connected, hasConn, opening>>

(* Mutant of ExecGivesResult: the call is answered with rows still to come. *)
ExecGivesResult_Answers(c) ==
    /\ Completes(c, "exec") /\ kind[c] \in TwoStage
    /\ held' = held \cup {c}
    /\ Work(c, "fetch") /\ Answer(c, 1)
    /\ UNCHANGED <<kind, fifo, executing, turn, stalled, got, connected,
                   hasConn, opening>>

(* It ended well and gave a result or statement to go on with.  The         *)
(* arguments of primaryKeys and its kin are checked only now.               *)
ExecGivesResult(c) ==
    /\ Completes(c, "exec")
    /\ kind[c] \in TwoStage
    /\ held' = held \cup {c}
    /\ \/ Work(c, "fetch") /\ Stay
       \/ kind[c] = "keys" /\ May("badCall") /\ Work(c, "none") /\ Stalls
    /\ UNCHANGED <<kind, fifo, got, answered, connected, hasConn, opening>>

(* A query with noResults: with no output parameters the application is not *)
(* called back; with some, the array of them is taken for a result and      *)
(* fetchMore throws.                                                        *)
ExecGivesNothing(c) ==
    /\ Completes(c, "exec")
    /\ kind[c] = "query"
    /\ May("noResults")
    /\ Work(c, "none")
    /\ NextCall \/ Stalls
    /\ UNCHANGED <<kind, fifo, got, held, answered, connected, hasConn,
                   opening>>

(* Mutant of FetchFails: the result is not closed. *)
FetchFails_KeepsResult(c) ==
    /\ Completes(c, "fetch") /\ May("refused")
    /\ \E lost \in Losses : ConnectionError(lost)
    /\ NextCall
    /\ IF kind[c] = "keys" THEN Work(c, "late") /\ UNCHANGED answered
                           ELSE Work(c, "none") /\ Answer(c, 1)
    /\ UNCHANGED <<kind, fifo, got, held, opening>>

(* The second stage ended with an error.  keys calls next() first, and      *)
(* answers when the calls that next() runs through are done.                *)
FetchFails(c) ==
    /\ Completes(c, "fetch")
    /\ May("refused")
    /\ \E lost \in Losses : ConnectionError(lost)
    /\ held' = held \ {c}
    /\ NextCall
    /\ IF kind[c] = "keys" THEN Work(c, "late") /\ UNCHANGED answered
                           ELSE Work(c, "none") /\ Answer(c, 1)
    /\ UNCHANGED <<kind, fifo, got, opening>>

LateAnswer(c) ==
    /\ ~turn
    /\ job[c] = "late"
    /\ Answer(c, 1)
    /\ Work(c, "none")
    /\ UNCHANGED <<kind, fifo, executing, turn, stalled, got, held, connected,
                   hasConn, opening>>

(* A query has another result set: fetchMore starts to fetch it, and the    *)
(* callback of the set before goes on to next().                            *)
FetchNextSet(c) ==
    /\ Completes(c, "fetch")
    /\ kind[c] = "query"
    /\ got[c] + 1 < MaxSets
    /\ got' = [got EXCEPT ![c] = @ + 1]
    /\ NextCall
    /\ UNCHANGED <<kind, fifo, job, held, answered, connected, hasConn,
                   opening>>

(* Mutant of FetchDone: the end of the last result set is not seen. *)
FetchDone_Again(c) ==
    /\ Completes(c, "fetch") /\ answered[c] < 4
    /\ held' = held \ {c}
    /\ Answer(c, 1) /\ NextCall
    /\ UNCHANGED <<kind, fifo, job, got, connected, hasConn, opening>>

(* The last fetch ended well: the result or statement is closed, the call   *)
(* is answered with the rows.                                               *)
FetchDone(c) ==
    /\ Completes(c, "fetch")
    /\ held' = held \ {c}
    /\ Answer(c, 1)
    /\ Work(c, "none")
    /\ NextCall
    /\ UNCHANGED <<kind, fifo, got, connected, hasConn, opening>>

CloseDone(c) ==
    /\ Completes(c, "close")
    /\ connected' = FALSE
    /\ hasConn' = FALSE
    /\ Answer(c, 1)
    /\ Work(c, "none")
    /\ NextCall
    /\ UNCHANGED <<kind, fifo, got, held, opening>>

-----------------------------------------------------------------------------
RunsNext ==
    \/ QueueEmpty
    \/ \E c \in Calls : AnsweredAtOnce(c) \/ Throws(c) \/ Starts(c)

Completion(c) ==
    \/ StreamsRead(c)
    \/ ExecFails(c)
    \/ ExecAnswers(c)
    \/ ExecGivesResult(c)
    \/ ExecGivesNothing(c)
    \/ FetchFails(c)
    \/ FetchNextSet(c)
    \/ FetchDone(c)
    \/ LateAnswer(c)
    \/ CloseDone(c)

Next ==
    \/ \E c \in Calls, k \in Kinds : Push(c, k)
    \/ Open
    \/ ConnectionCreated
    \/ OpenDone
    \/ CloseSync
    \/ RunsNext
    \/ \E c \in Calls : Completion(c)

(* JavaScript finishes what it runs, and the driver ends the work it is     *)
(* given.                                                                   *)
Fairness ==
    /\ WF_vars(RunsNext)
    /\ \A c \in Calls : WF_vars(Completion(c))

Spec == Init /\ [][Next]_vars /\ Fairness

-----------------------------------------------------------------------------
(* The types of the variables. *)
TypeOK ==
    /\ kind \in [Calls -> Kinds \cup {"none"}]
    /\ fifo \in Seq(Calls)
    /\ executing \in BOOLEAN
    /\ turn \in BOOLEAN
    /\ stalled \in BOOLEAN
    /\ job \in [Calls -> Jobs]
    /\ got \in [Calls -> 0 .. MaxSets - 1]
    /\ held \subseteq Calls
    /\ answered \in [Calls -> 0 .. 2]
    /\ connected \in BOOLEAN
    /\ hasConn \in BOOLEAN
    /\ opening \in {"no", "creating", "connecting"}

(* Calls whose native work is under way. *)
Working == {c \in Busy : job[c] # "late"}

(* While calls wait in fifo, either next() is about to take one or a call   *)
(* is executing whose end will call next(): no order of pushes and          *)
(* completions leaves calls waiting for nothing (simple-queue.js push,      *)
(* maybeNext and next), unless a call has ended without next().  Those are  *)
(* the failing tables and columns, and functions and callbacks that throw   *)
(* (odbc.js:1317); executing then stays true and the queue may be stuck.    *)
NoIdleBacklog ==
    fifo # <<>> /\ ~turn => executing /\ (Working # {} \/ stalled)

(* The result sets that queries have fetched and gone on from. *)
SetsPassed == {r \in Calls \X (1 .. MaxSets - 1) : r[2] <= got[r[1]]}

(* The number of calls whose native work runs side by side is at most one   *)
(* more than the result sets queries have gone on from: the early next() of *)
(* fetchMore is the only thing that makes calls overlap (odbc.js query).    *)
OverlapIsFromNextSets ==
    Cardinality(Working) + (IF turn THEN 1 ELSE 0)
        <= 1 + Cardinality(SetsPassed)

(* When nothing of a query, of tables, columns or getTypeInfo runs any      *)
(* more, its result handle is closed, whichever way it ended.               *)
ResultsClosed ==
    \A c \in held : job[c] = "none" => kind[c] = "keys"

(* A call is answered when it is done and not before: an application that   *)
(* got its callback may close the connection or reuse the parameters.       *)
AnsweredLast == \A c \in Calls : answered[c] > 0 => job[c] = "none"

(* db.connected implies that there is a connection to call (the callers of  *)
(* self.conn rely on it): across open, close, closeSync and lost            *)
(* connections.                                                             *)
ConnectedHasConn == connected => hasConn

(* The callback of an application is called at most once for a call.        *)
AnsweredAtMostOnce == \A c \in Calls : answered[c] <= 1

(* The queue carries out the calls one at a time, in order, and answers     *)
(* each once and in the end.                                                *)
Current ==
    IF Busy = {} THEN Nobody ELSE CHOOSE c \in Calls : job[c] # "none"

Abstract == INSTANCE SerialQueue
                WITH waiting <- fifo, current <- Current

Serial == Abstract!Spec
=============================================================================
