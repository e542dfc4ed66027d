--------------------------- MODULE ConnectionPool ---------------------------
(***************************************************************************)
(* The connection pool of lib/odbc.js: Pool.open, Pool.openSync, the       *)
(* pooled versions of Database.close and Database.closeSync, Pool.init,    *)
(* Pool.initAsync, Pool.setMaxPoolSize, Pool.cleanUp, and the reaction of  *)
(* a pooled connection to a communication error (checkConnectionError).    *)
(*                                                                         *)
(* JavaScript runs one handler at a time, so every handler is one atomic   *)
(* step; what interleaves are the handlers of different clients and the    *)
(* completions of the asynchronous opens and closes.  Only Database.close  *)
(* takes two: it calls the application back before it has run the queue,   *)
(* and what the application calls there comes in between.  A handler calls *)
(* other handlers (poolClose calls cleanUp and queue.next, a failing       *)
(* rollback calls checkConnectionError again), so the handlers are         *)
(* operators from one pool state to the next, composed as the code         *)
(* composes them, and the actions apply them to the variables.             *)
(***************************************************************************)
EXTENDS Integers, Sequences, FiniteSets

CONSTANTS
    Clients,     \* application code paths that open and close connections
    Conns,       \* the Database objects
    Strs,        \* the connection strings
    StrOf,       \* the connection string a Database object is opened with
    MaxSize,     \* maxPoolSize as the application sets it first, 0 = no limit
    NewSizes,    \* the values later calls of setMaxPoolSize may pass
    InitCounts,  \* the counts Pool.init and Pool.initAsync are called with
    AutoClean,   \* the option autoCleanIdle
    Uses,        \* the APIs the application uses beyond open and close
    Faults,      \* what may fail
    Nested,      \* callbacks of close that call the pool, and may be inside
                 \*   one another; none for promises, which resolve later
    Bound,       \* bound on |poolSize| and on the requests openSync parks
    Nobody       \* no client, and no connection

(* What an application may use, and what its environment may do to it. *)
AllUses   == {"openSync", "closeSync", "init", "initAsync", "tx", "reclose"}
AllFaults == {"open", "lost"}

ASSUME ConstantsAssumption ==
    /\ StrOf \in [Conns -> Strs]
    /\ MaxSize \in Nat
    /\ NewSizes \subseteq Nat
    /\ InitCounts \subseteq Nat
    /\ AutoClean \in BOOLEAN
    /\ Uses \subseteq AllUses
    /\ Faults \subseteq AllFaults
    /\ Nested \in Nat
    /\ Bound \in Nat
    /\ Nobody \notin Clients
    /\ Nobody \notin Conns

VARIABLES
    availablePool,  \* availablePool[s]: idle connections, oldest first
    usedPool,       \* usedPool[s]: connections handed out
    poolSize,       \* the pool's own count of its connections
    maxPoolSize,
    fifo,           \* requests parked in queue.fifo
    live,           \* Database objects with db.conn set and db.connected true
    inTransaction,  \* Database objects whose conn.inTransaction is true
    stamped,        \* Database objects whose lastUsed is set
    closing,        \* realClose has been issued by cleanUp and is running
    opening,        \* opening[d]: the client whose Pool.open runs db.open on d
    warming,        \* initAsync has issued db.open and it is running
    pc,             \* what each client is doing
    ref,            \* ref[c]: the Database object client c has a reference to
    callbacks       \* the connections whose closes are calling back, the
                    \*   innermost first

poolVars == <<availablePool, usedPool, poolSize, fifo, live, inTransaction,
              stamped, closing, opening, warming, pc, ref>>
vars == <<poolVars, maxPoolSize, callbacks>>

Init ==
    /\ availablePool = [s \in Strs |-> <<>>]
    /\ usedPool = [s \in Strs |-> <<>>]
    /\ poolSize = 0
    /\ maxPoolSize = MaxSize
    /\ fifo = <<>>
    /\ live = {}
    /\ inTransaction = {}
    /\ stamped = {}
    /\ closing = {}
    /\ opening = [d \in Conns |-> Nobody]
    /\ warming = {}
    /\ pc = [c \in Clients |-> "idle"]
    /\ ref = [c \in Clients |-> Nobody]
    /\ callbacks = <<>>

-----------------------------------------------------------------------------
(* The state the handlers read and write, as one value. *)

Requests == [client : Clients \cup {Nobody}, str : Strs]

PoolStates ==
    [avail : [Strs -> Seq(Conns)], used : [Strs -> Seq(Conns)], size : Int,
     fifo : Seq(Requests), live : SUBSET Conns, tx : SUBSET Conns,
     stamped : SUBSET Conns, closing : SUBSET Conns,
     opening : [Conns -> Clients \cup {Nobody}], warming : SUBSET Conns,
     pc : [Clients -> {"idle", "queued", "opening", "holding"}],
     ref : [Clients -> Conns \cup {Nobody}]]

Now == [avail |-> availablePool, used |-> usedPool, size |-> poolSize,
        fifo |-> fifo, live |-> live, tx |-> inTransaction,
        stamped |-> stamped, closing |-> closing, opening |-> opening,
        warming |-> warming, pc |-> pc, ref |-> ref]

Becomes(p) ==
    /\ availablePool' = p.avail
    /\ usedPool' = p.used
    /\ poolSize' = p.size
    /\ fifo' = p.fifo
    /\ live' = p.live
    /\ inTransaction' = p.tx
    /\ stamped' = p.stamped
    /\ closing' = p.closing
    /\ opening' = p.opening
    /\ warming' = p.warming
    /\ pc' = p.pc
    /\ ref' = p.ref
    /\ UNCHANGED maxPoolSize

-----------------------------------------------------------------------------
(* Array helpers of the JavaScript code. *)

Elems(list) == {list[i] : i \in DOMAIN list}

(* list.splice(i, 1) *)
Without(list, i) ==
    [j \in 1 .. Len(list) - 1 |-> IF j < i THEN list[j] ELSE list[j + 1]]

(* Mutant of SpliceOut: shift the oldest one out, whichever was closed.     *)
SpliceOut_Shift(list, d) == IF list = <<>> THEN list ELSE Tail(list)

(* list.splice(list.indexOf(d), 1): with d absent indexOf is -1, and        *)
(* splice(-1, 1) removes the last element.                                  *)
SpliceOut(list, d) ==
    IF d \in Elems(list)
    THEN Without(list, CHOOSE i \in DOMAIN list : list[i] = d)
    ELSE IF list = <<>> THEN list ELSE Without(list, Len(list))

(* list.filter of the elements outside gone: the k-th element of the result *)
(* is the one at the k-th index that stays.                                 *)
FilterOut(list, gone) ==
    LET stay == {i \in DOMAIN list : list[i] \notin gone}
    IN [k \in 1 .. Cardinality(stay) |->
           list[CHOOSE i \in stay : Cardinality({j \in stay : j <= i}) = k]]

(* if(self.poolSize) self.poolSize--, n times over. *)
Decremented(size, n) == IF size \in 0 .. n THEN 0 ELSE size - n

-----------------------------------------------------------------------------
(* The synchronous handlers. *)

(* Put connection d in usedPool.  usedPool[s] exists from the first time a  *)
(* connection of s is handed out, so a close always finds it.               *)
Use(p, d) ==
    [p EXCEPT !.used[StrOf[d]] = Append(@, d), !.stamped = @ \ {d}]

(* A Database object that just opened for a client. *)
UseNew(p, d) == Use([p EXCEPT !.live = @ \cup {d}], d)

(* Mutant of TakeFirst: look at the first available one, and leave it there.*)
TakeFirst_Peek(p, s) == Use(p, Head(p.avail[s]))

(* Move the first available connection of s to usedPool[s]; the open call   *)
(* and the queued callback share these lines.                               *)
TakeFirst(p, s) == Use([p EXCEPT !.avail[s] = Tail(@)], Head(p.avail[s]))

(* The promise or callback of client c gets connection d. *)
HandTo(p, c, d) == [p EXCEPT !.pc[c] = "holding", !.ref[c] = d]

(* Mutant of RunNext: the connection is taken, the request never answered.  *)
RunNext_NoAnswer(p) ==
    IF p.fifo = <<>> \/ p.avail[Head(p.fifo).str] = <<>> THEN p
    ELSE TakeFirst([p EXCEPT !.fifo = Tail(@)], Head(p.fifo).str)

(* queue.next(): run the first parked request.  It takes the first          *)
(* available connection of its string, connected or not, or parks itself    *)
(* again at the end.  A request parked by openSync has no one to return to. *)
RunNext(p) ==
    IF p.fifo = <<>> THEN p
    ELSE LET w == Head(p.fifo)
             q == [p EXCEPT !.fifo = Tail(@)]
         IN CASE p.avail[w.str] = <<>> -> [q EXCEPT !.fifo = Append(@, w)]
              [] p.avail[w.str] # <<>> /\ w.client = Nobody -> TakeFirst(q, w.str)
              [] OTHER -> HandTo(TakeFirst(q, w.str), w.client,
                                 Head(p.avail[w.str]))

(* Mutant of CleanUp: the connections being closed are discounted now, and  *)
(* again when they are closed.                                              *)
CleanUp_CountsTwice(p, s, idle) ==
    IF Len(p.avail[s]) < 2 THEN p
    ELSE LET gone == Elems(p.avail[s]) \cap p.stamped \cap idle
         IN [p EXCEPT !.avail[s] = FilterOut(@, gone),
                      !.closing = @ \cup (gone \cap p.live),
                      !.size = Decremented(@, Cardinality(gone))]

(* Mutant of CleanUp: the connections being closed stay on offer.           *)
CleanUp_StillOnOffer(p, s, idle) ==
    IF Len(p.avail[s]) < 2 THEN p
    ELSE [p EXCEPT !.closing =
             @ \cup (Elems(p.avail[s]) \cap p.stamped \cap idle \cap p.live)]

(* Pool.cleanUp(s): the idle connections go away.  realClose of a connected *)
(* one completes later, that of a dead one calls back at once.              *)
CleanUp(p, s, idle) ==
    IF Len(p.avail[s]) < 2 THEN p
    ELSE LET gone == Elems(p.avail[s]) \cap p.stamped \cap idle
         IN [p EXCEPT !.avail[s] = FilterOut(@, gone),
                      !.closing = @ \cup (gone \cap p.live),
                      !.size = Decremented(@, Cardinality(gone \ p.live))]

(* poolClose and poolCloseSync from "remove this db from the usedPool" to   *)
(* "move this connection back to the connection pool at the end".           *)
GivesBack(p, d) ==
    LET s == StrOf[d]
        q == [p EXCEPT !.used[s] = SpliceOut(@, d), !.size = @ - 1]
    IN IF d \in p.live THEN [q EXCEPT !.avail[s] = Append(@, d), !.size = @ + 1]
       ELSE q

(* Mutant of Wakes: a connection returned to the pool wakes nobody up.      *)
Wakes_NoNext(p, d, idle) ==
    IF d \notin p.live THEN RunNext(p)
    ELSE IF AutoClean THEN CleanUp(p, StrOf[d], idle) ELSE p

(* The rest of them: cleanUp, and queue.next.                               *)
Wakes(p, d, idle) ==
    IF d \in p.live /\ AutoClean THEN RunNext(CleanUp(p, StrOf[d], idle))
    ELSE RunNext(p)

(* The connection just closed is never idle long enough for cleanUp.        *)
Release(p, d, idle) == Wakes(GivesBack(p, d), d, idle \ {d})

Stamp(p, d) == [p EXCEPT !.stamped = @ \cup {d}]

(* Mutant of PoolClose: inTransaction is left set.                          *)
PoolClose_KeepsTransaction(p, d, idle) ==
    IF d \in Elems(p.avail[StrOf[d]]) THEN p
    ELSE Release(Stamp(p, d), d, idle)

(* Database.poolClose.  The rollback it starts runs later; inTransaction is *)
(* cleared now, and its error never reaches JavaScript.                     *)
PoolClose(p, d, idle) ==
    IF d \in Elems(p.avail[StrOf[d]]) THEN p
    ELSE Release([Stamp(p, d) EXCEPT !.tx = @ \ {d}], d, idle)

(* The loop of checkConnectionError and its last line: close every          *)
(* available connection of the string, and this one.                        *)
CloseAllNow(p, d) ==
    LET dead == Elems(p.avail[StrOf[d]]) \cup {d}
    IN [p EXCEPT !.live = @ \ dead, !.tx = @ \ dead]

(* checkConnectionError on a connection with no transaction open. *)
ConnectionError(p, d, idle) ==
    CloseAllNow(PoolClose(p, d, idle), d)

(* rollbackTransactionSync clears inTransaction; when it fails because the  *)
(* connection is lost it runs checkConnectionError before it throws.        *)
RollbackSync(p, d, lost, idle) ==
    LET q == [p EXCEPT !.tx = @ \ {d}]
    IN IF d \in p.tx /\ lost THEN ConnectionError(q, d, idle) ELSE q

(* Database.poolCloseSync *)
PoolCloseSync(p, d, lost, idle) ==
    IF d \in Elems(p.avail[StrOf[d]]) THEN p
    ELSE Release(RollbackSync(Stamp(p, d), d, lost, idle), d, idle)

(* Database.checkConnectionError after an SQL30081N. *)
CheckConnectionError(p, d, lost, idle) ==
    CloseAllNow(PoolCloseSync(p, d, lost, idle), d)

(* The loop at the start of Pool.open and openSync: discard the connections *)
(* that are no longer connected, up to the first one that is.               *)
DiscardDead(p, s) ==
    LET list == p.avail[s]
        ok == {i \in DOMAIN list : list[i] \in p.live}
        n == IF ok = {} THEN Len(list)
             ELSE (CHOOSE i \in ok : \A j \in ok : i <= j) - 1
    IN [p EXCEPT !.avail[s] = SubSeq(@, n + 1, Len(@)),
                 !.size = Decremented(@, n)]

(* Mutants of Full: the limit is off by one.                                *)
Full_Late(p)  == maxPoolSize > 0 /\ p.size > maxPoolSize
Full_Early(p) == maxPoolSize > 0 /\ p.size + 1 >= maxPoolSize

Full(p) == maxPoolSize > 0 /\ p.size >= maxPoolSize

(* Mutants of Park: the newest request goes first; the string is forgotten. *)
Park_InFront(p, c, s) ==
    [p EXCEPT !.fifo = <<[client |-> c, str |-> s]>> \o @]
Park_NoString(p, c, s) == [p EXCEPT !.fifo = Append(@, [client |-> c])]

Park(p, c, s) == [p EXCEPT !.fifo = Append(@, [client |-> c, str |-> s])]

-----------------------------------------------------------------------------
(* The actions. *)

(* A Database object nothing refers to: the one `new Database` returns.     *)
Fresh(s) ==
    {d \in Conns :
        /\ StrOf[d] = s
        /\ d \notin Elems(availablePool[s]) \cup Elems(usedPool[s])
        /\ d \notin live \cup closing \cup warming \cup Elems(callbacks)
        /\ opening[d] = Nobody
        /\ \A c \in Clients : ref[c] # d}

(* The idle timeout has passed for some of the connections: which ones is   *)
(* the clock's choice, and matters only when cleanUp runs.                  *)
IdleSets == IF AutoClean THEN SUBSET Conns ELSE {{}}

(* Pool.open(s) by client c. *)
Open(c, s) ==
    /\ pc[c] = "idle"
    /\ LET p == DiscardDead([Now EXCEPT !.ref[c] = Nobody], s)
       IN \/ /\ p.avail[s] # <<>>
             /\ Becomes(HandTo(TakeFirst(p, s), c, Head(p.avail[s])))
          \/ /\ p.avail[s] = <<>>
             /\ Full(p)
             /\ Becomes(Park([p EXCEPT !.pc[c] = "queued"], c, s))
          \/ /\ p.avail[s] = <<>>
             /\ ~Full(p)
             /\ \E d \in Fresh(s) :
                   Becomes([p EXCEPT !.size = @ + 1, !.pc[c] = "opening",
                                     !.opening[d] = c])

(* The callback of the db.open that Pool.open started. *)
OpenDone(d) ==
    /\ opening[d] # Nobody
    /\ LET c == opening[d]
           p == [Now EXCEPT !.opening[d] = Nobody]
       IN \/ Becomes(HandTo(UseNew(p, d), c, d))
          \/ /\ "open" \in Faults
             /\ Becomes([p EXCEPT !.size = @ - 1, !.pc[c] = "idle"])

(* Pool.openSync(s).  At the limit it parks a request and returns           *)
(* undefined; the parked callback has no caller to give a connection to.    *)
OpenSync(c, s) ==
    /\ "openSync" \in Uses
    /\ pc[c] = "idle"
    /\ LET p == DiscardDead([Now EXCEPT !.ref[c] = Nobody], s)
       IN \/ /\ p.avail[s] # <<>>
             /\ Becomes(HandTo(TakeFirst(p, s), c, Head(p.avail[s])))
          \/ /\ p.avail[s] = <<>>
             /\ Full(p)
             /\ Len(fifo) < Bound
             /\ Becomes(Park(p, Nobody, s))
          \/ /\ p.avail[s] = <<>>
             /\ ~Full(p)
             /\ \/ \E d \in Fresh(s) :
                      Becomes(HandTo(UseNew([p EXCEPT !.size = @ + 1], d), c, d))
                \/ /\ "open" \in Faults
                   /\ Becomes(p)

(* What client c keeps after it closed: an application that may call close  *)
(* a second time keeps the reference.                                       *)
LetGo(p, c) ==
    [p EXCEPT !.pc[c] = "idle",
              !.ref[c] = IF "reclose" \in Uses THEN @ ELSE Nobody]

(* conn.close(): client c returns its connection. *)
Close(c) ==
    /\ pc[c] = "holding"
    /\ \E idle \in IdleSets : Becomes(PoolClose(LetGo(Now, c), ref[c], idle))

(* The server may drop a connection. *)
MayLose == "lost" \in Faults /\ poolSize > -Bound

(* conn.closeSync() *)
CloseSync(c) ==
    /\ "closeSync" \in Uses
    /\ pc[c] = "holding"
    /\ \E idle \in IdleSets, lost \in {FALSE, MayLose} :
          Becomes(PoolCloseSync(LetGo(Now, c), ref[c], lost, idle))

(* conn.close() on a connection the client has closed before. *)
CloseAgain(c) ==
    /\ "reclose" \in Uses
    /\ pc[c] = "idle"
    /\ ref[c] # Nobody
    /\ poolSize > -Bound
    /\ \E idle \in IdleSets :
          Becomes(PoolClose([Now EXCEPT !.ref[c] = Nobody], ref[c], idle))

(* close(cb) calls back when the connection is on offer again and before    *)
(* anybody was woken up; what cb calls comes in between.  A close with      *)
(* nothing to do calls back last, as Close and CloseAgain have it.          *)
CallsBack(p, d) ==
    /\ Len(callbacks) < Nested
    /\ d \notin Elems(p.avail[StrOf[d]])
    /\ Becomes(GivesBack([Stamp(p, d) EXCEPT !.tx = @ \ {d}], d))
    /\ callbacks' = <<d>> \o callbacks

CloseCallsBack(c) ==
    /\ pc[c] = "holding"
    /\ CallsBack(LetGo(Now, c), ref[c])

CloseAgainCallsBack(c) ==
    /\ "reclose" \in Uses
    /\ pc[c] = "idle"
    /\ ref[c] # Nobody
    /\ poolSize > -Bound
    /\ CallsBack([Now EXCEPT !.ref[c] = Nobody], ref[c])

CallbackReturns ==
    /\ callbacks # <<>>
    /\ callbacks' = Tail(callbacks)
    /\ \E idle \in IdleSets : Becomes(Wakes(Now, Head(callbacks), idle))

(* A call of client c on its connection fails with SQL30081N.  The client   *)
(* still has the connection, and closes it later as it always does.         *)
ConnectionLost(c) ==
    /\ MayLose
    /\ pc[c] = "holding"
    /\ ref[c] \in live
    /\ \E idle \in IdleSets, lost \in BOOLEAN :
          Becomes(CheckConnectionError(Now, ref[c], lost, idle))

(* conn.beginTransaction: what follows leaves the transaction open. *)
BeginTransaction(c) ==
    /\ "tx" \in Uses
    /\ pc[c] = "holding"
    /\ ref[c] \in live \ inTransaction
    /\ Becomes([Now EXCEPT !.tx = @ \cup {ref[c]}])

(* The callback of a realClose that cleanUp issued. *)
RealCloseDone(d) ==
    /\ d \in closing
    /\ Becomes([Now EXCEPT !.closing = @ \ {d}, !.live = @ \ {d},
                           !.tx = @ \ {d}, !.size = Decremented(@, 1)])

(* Sequences of n different fresh connections for s. *)
FreshLists(s, n) ==
    {f \in [1 .. n -> Fresh(s)] : \A i, j \in 1 .. n : f[i] = f[j] => i = j}

(* How many connections init opens for a count of n. *)
InitCount(n) == IF maxPoolSize > 0 /\ n > maxPoolSize THEN maxPoolSize ELSE n

(* Pool.init(n, s): the first k opens succeed; when k is smaller than the   *)
(* count the next one throws and init gives up.                             *)
InitSync(n, s) ==
    /\ "init" \in Uses
    /\ availablePool[s] = <<>>
    /\ n >= 1
    /\ \E k \in 0 .. InitCount(n) :
          /\ k < InitCount(n) => "open" \in Faults
          /\ \E f \in FreshLists(s, k) :
                Becomes([Now EXCEPT !.avail[s] = f,
                                    !.size = @ + k,
                                    !.live = @ \cup Elems(f),
                                    !.stamped = @ \ Elems(f)])

(* Pool.initAsync(n, s): all opens are started at once. *)
InitAsync(n, s) ==
    /\ "initAsync" \in Uses
    /\ availablePool[s] = <<>>
    /\ n >= 1
    /\ \E f \in FreshLists(s, InitCount(n)) :
          Becomes([Now EXCEPT !.size = @ + InitCount(n),
                              !.warming = @ \cup Elems(f)])

(* The callback of a db.open that initAsync started. *)
InitAsyncDone(d) ==
    /\ d \in warming
    /\ LET p == [Now EXCEPT !.warming = @ \ {d}]
       IN \/ Becomes([p EXCEPT !.avail[StrOf[d]] = Append(@, d),
                               !.live = @ \cup {d},
                               !.stamped = @ \ {d}])
          \/ /\ "open" \in Faults
             /\ Becomes([p EXCEPT !.size = @ - 1])

SetMaxPoolSize(n) ==
    /\ maxPoolSize' = n
    /\ UNCHANGED poolVars

(* What the application calls, in a callback of close or elsewhere. *)
Calls ==
    \/ \E c \in Clients, s \in Strs : Open(c, s) \/ OpenSync(c, s)
    \/ \E c \in Clients :
          \/ Close(c)
          \/ CloseSync(c)
          \/ CloseAgain(c)
          \/ ConnectionLost(c)
          \/ BeginTransaction(c)
    \/ \E s \in Strs, n \in InitCounts : InitSync(n, s) \/ InitAsync(n, s)
    \/ \E n \in NewSizes : SetMaxPoolSize(n)

(* What the event loop delivers, when no handler runs. *)
Delivers(d) ==
    /\ callbacks = <<>>
    /\ OpenDone(d) \/ RealCloseDone(d) \/ InitAsyncDone(d)

Next ==
    \/ (Calls \/ \E d \in Conns : Delivers(d)) /\ UNCHANGED callbacks
    \/ \E c \in Clients : CloseCallsBack(c) \/ CloseAgainCallsBack(c)
    \/ CallbackReturns

Spec == Init /\ [][Next]_vars

(* The database client library answers every open, the application closes   *)
(* every connection it was given, and its callbacks return.                 *)
Fairness ==
    /\ \A d \in Conns : WF_vars(Delivers(d) /\ UNCHANGED callbacks)
    /\ \A c \in Clients : WF_vars(Close(c) /\ UNCHANGED callbacks)
    /\ WF_vars(CallbackReturns)

LiveSpec == Spec /\ Fairness

-----------------------------------------------------------------------------
(* The type invariant of the pool. *)
TypeOK ==
    /\ Now \in PoolStates /\ maxPoolSize \in Nat
    /\ callbacks \in Seq(Conns)

(* A connection stands at most once in the lists of its own connection      *)
(* string: what shift, push and splice do to availablePool and usedPool     *)
(* never lists a connection twice, in one list or in both.                  *)
ListedOnce ==
    \A s \in Strs :
        /\ Elems(availablePool[s]) \cup Elems(usedPool[s]) \subseteq
              {d \in Conns : StrOf[d] = s}
        /\ Elems(availablePool[s]) \cap Elems(usedPool[s]) = {}
        /\ \A i, j \in DOMAIN availablePool[s] :
              availablePool[s][i] = availablePool[s][j] => i = j
        /\ \A i, j \in DOMAIN usedPool[s] :
              usedPool[s][i] = usedPool[s][j] => i = j

(* A connection that works is in the hands of one client at most, and is    *)
(* not at the same time on offer to the next Pool.open or being closed for  *)
(* good: what a client runs never mixes with what another one runs.         *)
ExclusiveUse ==
    \A c \in Clients : pc[c] = "holding" /\ ref[c] \in live =>
        /\ ref[c] \notin Elems(availablePool[StrOf[ref[c]]])
        /\ ref[c] \notin closing
        /\ \A e \in Clients \ {c} : pc[e] = "holding" => ref[e] # ref[c]

AllOf(lists) == UNION {Elems(lists[s]) : s \in Strs}

(* Every connection that exists, or is about to. *)
Existing ==
    live \cup closing \cup warming \cup {d \in Conns : opening[d] # Nobody}

(* poolSize counts exactly the connections that are open, opening or being  *)
(* closed by cleanUp: the increments and decrements spread over open, init, *)
(* close and cleanUp never drift apart.                                     *)
SizeIsExact == poolSize = Cardinality(Existing)

(* The comment on setMaxPoolSize: the number of active connections in the   *)
(* pool does not grow more than maxPoolSize.                                *)
NeverAboveMax == maxPoolSize > 0 => Cardinality(Existing) <= maxPoolSize

(* usedPool lists exactly the connections clients hold: none is lost to the *)
(* pool because nobody can close it, none is in use behind the pool's back. *)
UsedIsHeld ==
    AllOf(usedPool) = {ref[c] : c \in {e \in Clients : pc[e] = "holding"}}

(* A connection on offer has no transaction open according to its flag:     *)
(* close ends it first, whoever is handed the connection next starts afresh.*)
IdleHasNoTransaction == AllOf(availablePool) \cap inTransaction = {}

(* When no handler runs no request waits while a connection it could use is *)
(* idle: no close, and no order of closes, opens and what the callbacks of  *)
(* close call, forgets to run the queue.                                    *)
NoIdleWhileWaiting ==
    callbacks = <<>> => \A i \in DOMAIN fifo : availablePool[fifo[i].str] = <<>>

(* A request waits only while the pool is full. *)
WaitOnlyWhenFull == fifo # <<>> => poolSize >= maxPoolSize

(* While a request waits, some client has a connection, which it will close,*)
(* or is getting one, or one is being closed: a queue is never left with    *)
(* nobody to run it, also when connections are closed by clients that gave  *)
(* them back before, and whatever the callbacks of close call.              *)
NobodyStranded ==
    fifo # <<>> =>
        \/ \E c \in Clients : pc[c] \in {"opening", "holding"}
        \/ callbacks # <<>>

(* The comment on setConnectTimeout: requests beyond maxPoolSize are served *)
(* in FIFO order.  The queue loses only its head, and only to serve it;     *)
(* while someone waits, no later request gets a connection.  That is so     *)
(* while no callback of a close runs: an open in one takes the connection   *)
(* that is coming back, and sends the request it was for to the end.        *)
FirstComeFirstServed ==
    [][callbacks = <<>> =>
       /\ \/ Len(fifo') >= Len(fifo) /\ SubSeq(fifo', 1, Len(fifo)) = fifo
          \/ fifo' = Tail(fifo) /\ pc'[Head(fifo).client] = "holding"
       /\ fifo # <<>> =>
             \A c \in Clients : pc[c] = "idle" => pc'[c] \in {"idle", "queued"}
      ]_vars

(* The manual on Pool.open: the Database a client gets is already connected. *)
HandsOutConnected ==
    [][\A c \in Clients :
          pc[c] # "holding" /\ pc'[c] = "holding" => ref'[c] \in live']_vars

(* Each client waits in line or is inside as the pool serves it.            *)
Promised ==
    INSTANCE FairPool WITH
        Limit <- MaxSize,
        line <- [i \in DOMAIN fifo |-> fifo[i].client],
        inside <- {c \in Clients : pc[c] \in {"opening", "holding"}}

(* The pool serves as FairPool says, from the limit on the clients that are *)
(* in to the order in which they are let in and that each has its turn: the *)
(* lists, poolSize and the queue together amount to no more than that.  So  *)
(* it is while no callback of a close calls the pool, as with promises.     *)
FairService == Promised!Spec

(* Every parked request is served, as long as clients close what they get,  *)
(* and do not open in the callbacks of their closes, where they overtake    *)
(* the requests that wait, for ever if they go on with it.                  *)
EveryRequestServed ==
    \A c \in Clients : pc[c] = "queued" ~> pc[c] = "holding"
=============================================================================
