----------------------------- MODULE BlockFetch -----------------------------
(***************************************************************************)
(* How the rows of one result reach the application (ODBCResult, in        *)
(* lib/odbc.js and src/odbc_result.cpp).                                   *)
(*                                                                         *)
(* With SQL_ATTR_ROW_ARRAY_SIZE above 1 an SQLFetch fills a block of bound *)
(* rows, which fetch, fetchSync and fetchAllSync deliver as a whole and    *)
(* fetchN, fetchNSync and fetchAll row by row.  An asynchronous call       *)
(* alternates between a worker thread, which fetches, and the JavaScript   *)
(* thread, which copies rows out of the block.                             *)
(*                                                                         *)
(* The rows of all result sets are numbered from 1.  The granularity is    *)
(* one SQLFetch, or one row copied.                                        *)
(***************************************************************************)
EXTENDS Integers, Sequences, FiniteSets

CONSTANTS
    Calls,      \* the calls the application makes
    Sizes,      \* the values of SQL_ATTR_ROW_ARRAY_SIZE
    Styles,     \* sets of functions an application uses with block fetch
    Counts,     \* the counts it gives fetchN and fetchNSync
    Ends,       \* Ends[s]: the last row of result set s
    MaxErrors,  \* bound on the SQLFetch calls that fail
    Waits       \* the application waits for the end of a call before it
                \* makes another, unless both go through the result's queue

Queued == {"fetch", "fetchN"}
RowWise == {"fetchN", "fetchNSync", "fetchAll"}
Sync == {"fetchSync", "fetchNSync", "fetchAllSync"}
Functions == {"fetch", "fetchN", "fetchAll"} \cup Sync

ASSUME ConstantsAssumption ==
    /\ Sizes \subseteq Nat \ {0}
    /\ \A s \in Styles : s \subseteq Functions \cup {"moreResultsSync"}
    /\ Counts \subseteq Nat \ {0}
    /\ Ends \in Seq(Nat)
    /\ Ends # <<>>
    /\ \A s, t \in DOMAIN Ends : s <= t => Ends[s] <= Ends[t]
    /\ MaxErrors \in Nat
    /\ Waits \in BOOLEAN

VARIABLES
    size,       \* m_rowArraySize
    style,      \* the functions this application uses
    set,        \* the driver: the current result set
    pos,        \* the driver: the last row fetched
    errors,     \* SQLFetch calls that have failed
    buffer,     \* the bound rows; with size 1, the row of the cursor
    valid,      \* the places of buffer whose m_rowStatusArray is a success
    fetched,    \* m_rowsFetched
    current,    \* m_currentRowInBlock
    exhausted,  \* m_blockExhausted
    fifo,       \* the calls that wait in the result's queue
    fn,         \* fn[c]: the function of call c
    count,      \* count[c]: the count it was given
    stage,      \* stage[c]: where it is
    result,     \* result[c]: what SQLFetch returned to it
    idx,        \* idx[c]: its place in the block
    rows,       \* rows[c]: the rows it has collected
    out,        \* the rows the application has got, in order
    dropped,    \* rows fetched by calls that were answered with an error
    handed,     \* good rows the driver has fetched
    ended       \* the application was told that the result set has ended

driver == <<set, pos, errors, handed>>
block == <<buffer, valid, fetched>>
calls == <<fn, count, stage, result, idx, rows>>
vars == <<size, style, driver, block, current, exhausted, fifo, calls, out,
          dropped, ended>>

Stages == {"new", "queued", "work", "after", "copy", "done"}

(* With size 1 every function may be mixed with every other. *)
Init ==
    /\ size \in Sizes
    /\ style \in IF size = 1 THEN {Functions \cup {"moreResultsSync"}}
                             ELSE Styles
    /\ set = 1
    /\ pos = 0
    /\ errors = 0
    /\ buffer = [i \in 1 .. size |-> 0]
    /\ valid = {}
    /\ fetched = 0
    /\ current = 0
    /\ exhausted = FALSE
    /\ fifo = <<>>
    /\ fn = [c \in Calls |-> "none"]
    /\ count = [c \in Calls |-> 0]
    /\ stage = [c \in Calls |-> "new"]
    /\ result = [c \in Calls |-> "ok"]
    /\ idx = [c \in Calls |-> 0]
    /\ rows = [c \in Calls |-> <<>>]
    /\ out = <<>>
    /\ dropped = {}
    /\ handed = {}
    /\ ended = FALSE

Single == size = 1

At(c, s) == stage[c] = s

Doing(fns) ==
    {c \in Calls : fn[c] \in fns /\ stage[c] \in {"work", "after", "copy"}}

(* A synchronous function keeps the JavaScript thread.                      *)
JSFree == Doing(Sync) = {}

-----------------------------------------------------------------------------
(* SQLFetch: rows, of which the `good' ones are delivered; no data; or an   *)
(* error, which leaves the cursor where it is.                              *)
FetchRows(good) ==
    /\ pos < Ends[set]
    /\ fetched' = IF size <= Ends[set] - pos THEN size ELSE Ends[set] - pos
    /\ good \subseteq 1 .. fetched'
    /\ Single => good = {1}
    /\ buffer' = [i \in 1 .. size |->
                    IF i <= fetched' THEN pos + i ELSE buffer[i]]
    /\ valid' = good
    /\ pos' = pos + fetched'
    /\ handed' = handed \cup {pos + i : i \in good}
    /\ UNCHANGED <<set, errors>>

FetchNoData ==
    /\ pos = Ends[set]
    /\ fetched' = 0
    /\ UNCHANGED <<driver, buffer, valid>>

FetchError ==
    /\ errors < MaxErrors
    /\ errors' = errors + 1
    /\ fetched' = 0
    /\ UNCHANGED <<set, pos, handed, buffer, valid>>

-----------------------------------------------------------------------------
(* The calls. *)

(* fetch and fetchN go through the queue of the result, fetchAll does not.  *)
Calling(c, f, n) ==
    /\ At(c, "new")
    /\ JSFree
    /\ f \in style
    /\ n \in IF f \in {"fetchN", "fetchNSync"} THEN Counts ELSE {0}
    /\ Waits => Doing(IF f \in Queued THEN Functions \ Queued
                                      ELSE Functions) = {}
    /\ fn' = [fn EXCEPT ![c] = f]
    /\ count' = [count EXCEPT ![c] = n]
    /\ IF f \in Queued /\ Doing(Queued) # {}
       THEN stage' = [stage EXCEPT ![c] = "queued"] /\ fifo' = Append(fifo, c)
       ELSE stage' = [stage EXCEPT ![c] = "work"] /\ fifo' = fifo
    /\ UNCHANGED <<size, style, driver, block, current, exhausted, result,
                   idx, rows, out, dropped, ended>>

(* SQLMoreResults, with nothing done to the block. *)
MoreResultsSync ==
    /\ JSFree
    /\ "moreResultsSync" \in style
    /\ Waits => Doing(Functions) = {}
    /\ set < Len(Ends)
    /\ set' = set + 1
    /\ pos' = Ends[set]
    /\ ended' = FALSE
    /\ UNCHANGED <<size, style, errors, handed, block, current, exhausted,
                   fifo, calls, out, dropped>>

(* The worker is done with c, or a synchronous call is done with SQLFetch.  *)
Fetched(c, r, i, s) ==
    /\ result' = [result EXCEPT ![c] = r]
    /\ idx' = [idx EXCEPT ![c] = i]
    /\ stage' = [stage EXCEPT ![c] = s]
    /\ UNCHANGED <<fn, count, rows>>

NotFetching == UNCHANGED <<driver, block, current, exhausted>>

(* UV_Fetch, FetchSync: the next block, whatever is left of the last.       *)
FetchBlock(c) ==
    /\ At(c, "work")
    /\ fn[c] \in {"fetch", "fetchSync"}
    /\ \/ exhausted /\ Fetched(c, "nodata", 0, "after") /\ NotFetching
       \/ /\ ~exhausted
          /\ current' = 0
          /\ \/ /\ \E good \in SUBSET (1 .. size) : FetchRows(good)
                /\ exhausted' = exhausted
                /\ Fetched(c, "ok", 0, "copy")
             \/ /\ FetchNoData
                /\ exhausted' = ~Single
                /\ Fetched(c, "nodata", 0, "after")
             \/ /\ FetchError
                /\ exhausted' = exhausted
                /\ Fetched(c, "error", 0, "after")
    /\ UNCHANGED <<size, style, fifo, out, dropped, ended>>

(* FetchAllSync: blocks until there is no more; it does not look at         *)
(* m_blockExhausted and leaves it, and m_currentRowInBlock, as they are.    *)
FetchWhole(c) ==
    /\ At(c, "work")
    /\ fn[c] = "fetchAllSync"
    /\ \/ /\ \E good \in SUBSET (1 .. size) : FetchRows(good)
          /\ Fetched(c, "ok", 0, "copy")
       \/ FetchNoData /\ Fetched(c, "nodata", 0, "after")
       \/ FetchError /\ Fetched(c, "error", 0, "after")
    /\ UNCHANGED <<size, style, current, exhausted, fifo, out, dropped, ended>>

(* The places of the block that BlockFetchNextRow has not passed.           *)
Left(v, from, to) == {i \in v : from < i /\ i <= to}

First(s) == {i \in s : \A j \in s : i <= j}

(* Mutant of TakeRow: m_currentRowInBlock is not advanced.                  *)
TakeRow_Stays(c) ==
    /\ At(c, "work") /\ fn[c] \in RowWise
    /\ ~Single /\ ~exhausted
    /\ \E i \in First(Left(valid, current, fetched)) :
          Fetched(c, "ok", i, "after")
    /\ UNCHANGED <<size, style, driver, block, current, exhausted, fifo, out,
                   dropped, ended>>

(* BlockFetchNextRow, up to the first place of a block that it may deliver. *)
(* When a block has none it goes on with the next.                          *)
TakeRow(c) ==
    /\ At(c, "work")
    /\ fn[c] \in RowWise
    /\ ~Single /\ ~exhausted
    /\ \E i \in First(Left(valid, current, fetched)) :
          current' = i /\ Fetched(c, "ok", i, "after")
    /\ UNCHANGED <<size, style, driver, block, exhausted, fifo, out, dropped,
                   ended>>

Refill(c) ==
    /\ At(c, "work")
    /\ fn[c] \in RowWise
    /\ ~Single /\ ~exhausted
    /\ Left(valid, current, fetched) = {}
    /\ \/ /\ \E good \in SUBSET (1 .. size) : FetchRows(good)
          /\ \/ valid' = {} /\ current' = fetched' /\ UNCHANGED calls
             \/ \E i \in First(valid') :
                   current' = i /\ Fetched(c, "ok", i, "after")
          /\ exhausted' = exhausted
       \/ /\ FetchNoData
          /\ current' = 0
          /\ exhausted' = TRUE
          /\ Fetched(c, "nodata", 0, "after")
       \/ /\ FetchError
          /\ current' = 0
          /\ exhausted' = exhausted
          /\ Fetched(c, "error", 0, "after")
    /\ UNCHANGED <<size, style, fifo, out, dropped, ended>>

FindsExhausted(c) ==
    /\ At(c, "work")
    /\ fn[c] \in RowWise
    /\ exhausted
    /\ Fetched(c, "nodata", 0, "after")
    /\ NotFetching
    /\ UNCHANGED <<size, style, fifo, out, dropped, ended>>

(* Without block fetch the row functions call SQLFetch for each row.        *)
FetchOneRow(c) ==
    /\ At(c, "work")
    /\ fn[c] \in RowWise
    /\ Single
    /\ \/ FetchRows({1}) /\ Fetched(c, "ok", 1, "after")
       \/ FetchNoData /\ Fetched(c, "nodata", 0, "after")
       \/ FetchError /\ Fetched(c, "error", 0, "after")
    /\ UNCHANGED <<size, style, current, exhausted, fifo, out, dropped, ended>>

-----------------------------------------------------------------------------
(* On the JavaScript thread, with what the worker left. *)

OnJS(c, s) == At(c, s) /\ (fn[c] \in Sync \/ JSFree)

(* Mutant of Finish: the callback does not call next().                     *)
Finish_NoNext(c) ==
    /\ stage' = [stage EXCEPT ![c] = "done"]
    /\ UNCHANGED <<fifo, fn, count, result, idx>>

(* c is over; the queue goes on with its next call. *)
Finish(c) ==
    /\ IF fn[c] \in Queued /\ fifo # <<>>
       THEN /\ stage' = [stage EXCEPT ![c] = "done", ![Head(fifo)] = "work"]
            /\ fifo' = Tail(fifo)
       ELSE /\ stage' = [stage EXCEPT ![c] = "done"]
            /\ fifo' = fifo
    /\ UNCHANGED <<fn, count, result, idx>>

(* The callback gets the rows; `end' when they say that there are no more.  *)
Answer(c, data, end) ==
    /\ Finish(c)
    /\ out' = out \o data
    /\ ended' = (ended \/ end)
    /\ UNCHANGED <<rows, dropped>>

NotAnswered(c, s) ==
    /\ stage' = [stage EXCEPT ![c] = s]
    /\ UNCHANGED <<fn, count, result, fifo, out, dropped, ended>>

OthersUnchanged == UNCHANGED <<size, style, driver, block, current, exhausted>>

(* Mutants: the loop runs once too often; the count is looked at before the *)
(* row is kept; an error is taken for the end.                              *)
CopyRow_OneMore(c) ==
    /\ OnJS(c, "copy") /\ idx[c] <= fetched
    /\ idx' = [idx EXCEPT ![c] = @ + 1]
    /\ rows' = [rows EXCEPT ![c] = IF idx'[c] \in valid
                                   THEN Append(@, buffer[idx'[c]]) ELSE @]
    /\ NotAnswered(c, "copy") /\ OthersUnchanged

AfterRow_Full(c) ==
    /\ OnJS(c, "after") /\ result[c] = "ok"
    /\ \/ /\ fn[c] # "fetchAll" /\ Len(rows[c]) + 1 >= count[c]
          /\ Answer(c, rows[c], FALSE)
       \/ /\ fn[c] = "fetchAll" \/ Len(rows[c]) + 1 < count[c]
          /\ rows' = [rows EXCEPT ![c] = Append(@, buffer[idx[c]])]
          /\ NotAnswered(c, "work") /\ UNCHANGED idx
    /\ OthersUnchanged

AfterError_IsEnd(c) ==
    /\ OnJS(c, "after") /\ result[c] = "error"
    /\ Answer(c, rows[c], TRUE) /\ OthersUnchanged

(* The loop over the block in UV_AfterFetch, FetchSync and FetchAllSync.    *)
CopyRow(c) ==
    /\ OnJS(c, "copy")
    /\ idx[c] < fetched
    /\ idx' = [idx EXCEPT ![c] = @ + 1]
    /\ rows' = [rows EXCEPT ![c] = IF idx'[c] \in valid
                                   THEN Append(@, buffer[idx'[c]]) ELSE @]
    /\ NotAnswered(c, "copy")
    /\ OthersUnchanged

(* fetchAllSync fetches the next block. *)
WholeCopied(c) ==
    /\ OnJS(c, "copy")
    /\ idx[c] >= fetched
    /\ fn[c] = "fetchAllSync"
    /\ NotAnswered(c, "work")
    /\ OthersUnchanged
    /\ UNCHANGED <<idx, rows>>

BlockCopied(c) ==
    /\ OnJS(c, "copy")
    /\ idx[c] >= fetched
    /\ fn[c] # "fetchAllSync"
    /\ Answer(c, rows[c], FALSE)
    /\ OthersUnchanged

LastRow(c, data) == fn[c] # "fetchAll" /\ Len(data) >= count[c]

(* UV_AfterFetchN, UV_AfterFetchAll, FetchNSync: one more row, and the last *)
(* if it makes the count.                                                   *)
AfterRow(c) ==
    /\ OnJS(c, "after")
    /\ result[c] = "ok"
    /\ LET data == Append(rows[c], buffer[idx[c]])
       IN  \/ LastRow(c, data) /\ Answer(c, data, FALSE)
          \/ /\ ~LastRow(c, data)
             /\ rows' = [rows EXCEPT ![c] = data]
             /\ NotAnswered(c, "work")
             /\ UNCHANGED idx
    /\ OthersUnchanged

(* SQL_NO_DATA: null, or the rows there were. *)
AfterNoData(c) ==
    /\ OnJS(c, "after")
    /\ result[c] = "nodata"
    /\ Answer(c, rows[c], TRUE)
    /\ OthersUnchanged

(* SQL_ERROR: the callback gets the error and no rows, or it is thrown.     *)
AfterError(c) ==
    /\ OnJS(c, "after")
    /\ result[c] = "error"
    /\ Finish(c)
    /\ dropped' = dropped \cup {rows[c][i] : i \in DOMAIN rows[c]}
    /\ UNCHANGED <<rows, out, ended>>
    /\ OthersUnchanged

-----------------------------------------------------------------------------
Works(c) ==
    \/ FetchBlock(c)
    \/ FetchWhole(c)
    \/ TakeRow(c)
    \/ Refill(c)
    \/ FindsExhausted(c)
    \/ FetchOneRow(c)
    \/ CopyRow(c)
    \/ WholeCopied(c)
    \/ BlockCopied(c)
    \/ AfterRow(c)
    \/ AfterNoData(c)
    \/ AfterError(c)

Next ==
    \/ \E c \in Calls, f \in Functions, n \in Counts \cup {0} :
          Calling(c, f, n)
    \/ MoreResultsSync
    \/ \E c \in Calls : Works(c)

(* Workers and the JavaScript thread go on with what they have begun.       *)
Spec == Init /\ [][Next]_vars /\ \A c \in Calls : WF_vars(Works(c))

-----------------------------------------------------------------------------
RowNumbers == 0 .. Ends[Len(Ends)]

(* The types of the variables. *)
TypeOK ==
    /\ size \in Sizes
    /\ style \subseteq Functions \cup {"moreResultsSync"}
    /\ set \in 1 .. Len(Ends)
    /\ pos \in RowNumbers
    /\ errors \in 0 .. MaxErrors
    /\ buffer \in [1 .. size -> RowNumbers]
    /\ valid \subseteq 1 .. size
    /\ fetched \in 0 .. size
    /\ current \in 0 .. size
    /\ exhausted \in BOOLEAN
    /\ fifo \in Seq(Calls)
    /\ fn \in [Calls -> Functions \cup {"none"}]
    /\ count \in [Calls -> Counts \cup {0}]
    /\ stage \in [Calls -> Stages]
    /\ result \in [Calls -> {"ok", "nodata", "error"}]
    /\ idx \in [Calls -> 0 .. size]
    /\ rows \in [Calls -> Seq(RowNumbers)]
    /\ out \in Seq(RowNumbers)
    /\ dropped \subseteq RowNumbers
    /\ handed \subseteq RowNumbers
    /\ ended \in BOOLEAN

(* An application gets no row twice and none out of order, however many     *)
(* calls and of which kinds it takes them with.                             *)
OnceInOrder == \A i, j \in DOMAIN out : i < j => out[i] < out[j]

(* The good rows of the block that the row functions have still to deliver. *)
Undelivered ==
    IF Single \/ style \cap RowWise = {} THEN {}
    ELSE {buffer[i] : i \in Left(valid, current, fetched)}

(* The rows that calls under way have in hand. *)
InHand ==
    (UNION {{rows[c][i] : i \in DOMAIN rows[c]} : c \in Doing(Functions)})
    \cup {buffer[idx[c]] :
            c \in {d \in Doing(RowWise) : At(d, "after")
                                       /\ result[d] = "ok"}}
    \cup (UNION {{buffer[i] : i \in Left(valid, idx[c], fetched)} :
                   c \in {d \in Calls : At(d, "copy")}})

Got == {out[i] : i \in DOMAIN out}

(* No row the driver has fetched gets lost between the calls: the           *)
(* application has it, or a call has it in hand, or it is still to come     *)
(* from the block, or the call that took it was answered with an error.     *)
NothingLost ==
    handed \subseteq Got \cup dropped \cup InHand \cup Undelivered

(* When a call says that there are no more rows (null, fewer than it was    *)
(* asked for, or all of them) then the result set is at its end and the     *)
(* application has got every row of it that was not reported as an error.   *)
EndIsEnd == ended => pos = Ends[set] /\ handed \subseteq Got \cup dropped

(* Every call is answered in the end, a call that finds only rows with      *)
(* errors included.                                                         *)
EveryCallAnswered ==
    \A c \in Calls : (~At(c, "new")) ~> At(c, "done")
=============================================================================
