------------------------- MODULE Connection_proofs -------------------------
(***************************************************************************)
(* Proofs about Connection, for every number of connections, statements,   *)
(* results, pieces of work and handles: an application that is not         *)
(* careless never uses a handle that has been freed and frees none twice,  *)
(* no handle is forgotten, work that has a reference finds its connection, *)
(* and an object that says it is connected is.                             *)
(***************************************************************************)
EXTENDS Connection, FiniteSetTheorems, TLAPS

-----------------------------------------------------------------------------
(* Work. *)

(* What a piece of work of each kind looks like. *)
WorkShape(r) ==
    /\ r.op = "none" <=> r.phase = "idle"
    /\ r.op \in ConnOps => r.conn \in Conns
    /\ r.op \notin ConnOps => r.conn = Null
    /\ r.op = "closeObject" <=> r.obj # Null
    /\ r.got \in Stmts => r.op \in {"createStatement", "query", "catalog",
                                    "typeInfo", "cancel"}
    /\ r.got \in Dbcs => r.op = "createConnection"
    /\ r.op \in {"createStatement", "query", "catalog", "typeInfo"} =>
          (r.phase = "queued" => r.got = Null)
    /\ r.op \in {"createConnection"} => (r.phase = "queued" => r.got = Null)
    /\ r.phase = "between" => r.op \in {"close", "query", "catalog", "typeInfo",
                                        "closeObject"}

Shaped == \A w \in Works : WorkShape(work[w])

Sane == TypeOK /\ Shaped

LEMMA Records ==
    ASSUME TypeOK
    PROVE  /\ \A c \in Conns : conn[c] \in ConnRecords
           /\ \A o \in Objs : obj[o] \in ObjRecords
           /\ \A w \in Works : work[w] \in WorkRecords
           /\ careless \in BOOLEAN
  BY DEF TypeOK

LEMMA NoRecords ==
    /\ NoConn \in ConnRecords
    /\ NoObj \in ObjRecords
    /\ NoWork \in WorkRecords /\ WorkShape(NoWork)
  BY NullAssumption
     DEF NoConn, NoObj, NoWork, ConnRecords, ObjRecords, WorkRecords, WorkShape,
         ConnOps

(* One piece of work changes. *)
LEMMA WorkChanged ==
    ASSUME Sane, NEW w \in Works, NEW r \in WorkRecords, WorkShape(r),
           work' = [work EXCEPT ![w] = r]
    PROVE  /\ work' \in [Works -> WorkRecords] /\ Shaped'
           /\ work'[w] = r
           /\ \A v \in Works : v # w => work'[v] = work[v]
  BY DEF Sane, TypeOK, Shaped

LEMMA WorkQueued ==
    ASSUME Sane, NEW w \in Works, NEW op \in ConnOps \cup {"createConnection", "closeObject"},
           NEW c \in Conns \cup {Null}, NEW o \in Objs \cup {Null},
           NEW h \in Stmts \cup {Null}, Queues(w, op, c, o, h),
           op \in ConnOps <=> c # Null, op = "closeObject" <=> o # Null,
           h # Null => op = "cancel"
    PROVE  /\ work' \in [Works -> WorkRecords] /\ Shaped'
           /\ work[w].op = "none" /\ work[w].conn = Null /\ work[w].got = Null
           /\ work[w].obj = Null /\ work[w].phase = "idle"
           /\ work'[w].op = op /\ work'[w].phase = "queued" /\ work'[w].conn = c
           /\ work'[w].obj = o /\ work'[w].got = h
           /\ \A v \in Works : v # w => work'[v] = work[v]
  <1> DEFINE r == [op |-> op, phase |-> "queued", conn |-> c, obj |-> o,
                   got |-> h, ok |-> TRUE]
  <1>1. work' = [work EXCEPT ![w] = r] /\ work[w].phase = "idle"
    BY DEF Queues, Idle
  <1>2. r \in WorkRecords
    BY DEF WorkRecords
  <1>3. WorkShape(r)
    BY NullAssumption, NumbersAssumption DEF WorkShape, ConnOps
  <1>4. work[w] \in WorkRecords /\ WorkShape(work[w])
    BY Records DEF Sane, Shaped
  <1>5. /\ work[w].op = "none" /\ work[w].conn = Null /\ work[w].got = Null
        /\ work[w].obj = Null
    BY <1>1, <1>4 DEF WorkShape, WorkRecords, ConnOps
  <1>6. /\ r.op = op /\ r.phase = "queued" /\ r.conn = c /\ r.obj = o /\ r.got = h
    OBVIOUS
  <1> HIDE DEF r
  <1>7. /\ work' \in [Works -> WorkRecords] /\ Shaped'
        /\ work'[w] = r
        /\ \A v \in Works : v # w => work'[v] = work[v]
    BY <1>1, <1>2, <1>3, WorkChanged
  <1> QED
    BY <1>1, <1>5, <1>6, <1>7

(* The work goes on: its connection and its object stay. *)
Moves(w, p, g, ok) ==
    work' = [work EXCEPT ![w].phase = p, ![w].got = g, ![w].ok = ok]

LEMMA WorkMoved ==
    ASSUME Sane, NEW w \in Works, NEW p \in {"between", "done", "late"},
           NEW g \in Dbcs \cup Stmts \cup {Null}, NEW ok \in BOOLEAN,
           Moves(w, p, g, ok),
           work[w].phase # "idle",
           g \in Stmts => work[w].op \in {"createStatement", "query", "catalog",
                                          "typeInfo", "cancel"},
           g \in Dbcs => work[w].op = "createConnection",
           p = "between" => work[w].op \in {"close", "query", "catalog",
                                            "typeInfo", "closeObject"}
    PROVE  /\ work' \in [Works -> WorkRecords] /\ Shaped'
           /\ work'[w].phase = p /\ work'[w].got = g /\ work'[w].ok = ok
           /\ \A v \in Works :
                 /\ work'[v].op = work[v].op /\ work'[v].conn = work[v].conn
                 /\ work'[v].obj = work[v].obj
                 /\ v # w => work'[v] = work[v]
  <1> DEFINE r == [work[w] EXCEPT !.phase = p, !.got = g, !.ok = ok]
  <1>1. work[w] \in WorkRecords /\ WorkShape(work[w])
    BY Records DEF Sane, Shaped
  <1>2. /\ r \in WorkRecords
        /\ r.phase = p /\ r.got = g /\ r.ok = ok /\ r.op = work[w].op
        /\ r.conn = work[w].conn /\ r.obj = work[w].obj
    BY <1>1 DEF WorkRecords
  <1>3. work' = [work EXCEPT ![w] = r]
    BY DEF Moves, Sane, TypeOK
  <1> HIDE DEF r
  <1>4. WorkShape(r)
    BY <1>1, <1>2 DEF WorkShape, WorkRecords
  <1>5. /\ work' \in [Works -> WorkRecords] /\ Shaped'
        /\ work'[w] = r
        /\ \A v \in Works : v # w => work'[v] = work[v]
    BY <1>2, <1>3, <1>4, WorkChanged
  <1> QED
    BY <1>2, <1>5

LEMMA WorkEnded ==
    ASSUME Sane, NEW w \in Works, Ends(w)
    PROVE  /\ work' \in [Works -> WorkRecords] /\ Shaped'
           /\ work'[w] = NoWork
           /\ \A v \in Works : v # w => work'[v] = work[v]
  BY NoRecords, WorkChanged DEF Ends

LEMMA DoneMoves ==
    ASSUME Sane, NEW w \in Works, NEW ok \in BOOLEAN, Done(w, ok)
    PROVE  Moves(w, "done", work[w].got, ok)
  BY DEF Sane, TypeOK, WorkRecords, Done, Moves

LEMMA PhaseMoves ==
    ASSUME Sane, NEW w \in Works, NEW p,
           work' = [work EXCEPT ![w].phase = p]
    PROVE  Moves(w, p, work[w].got, work[w].ok)
  BY DEF Sane, TypeOK, WorkRecords, Moves

LEMMA GotMoves ==
    ASSUME Sane, NEW w \in Works, NEW p, NEW g,
           work' = [work EXCEPT ![w].phase = p, ![w].got = g]
    PROVE  Moves(w, p, g, work[w].ok)
  BY DEF Sane, TypeOK, WorkRecords, Moves

-----------------------------------------------------------------------------
(* The steps, by what they do to the objects. *)

RefOps == ConnOps \ {"begin", "end"}

(* A call for which no reference is taken. *)
CallsWithoutRef(w, c, op) ==
    /\ conn[c].held
    /\ Queues(w, op, c, Null, Null)
    /\ Careless(BeingClosed(c))
    /\ UNCHANGED <<conn, obj, dbc, handle, refused>>

(* A worker asks the driver something that changes no object. *)
Plain(w) ==
    /\ work[w].op \in {"cancel", "info"} /\ work[w].phase = "queued"
    /\ Done(w, TRUE)
    /\ UNCHANGED <<conn, obj, dbc, handle, refused, careless>>

SetsAttr(w) ==
    /\ work[w].op \in {"setAttr", "begin", "end"} /\ work[w].phase = "queued"
    /\ (\E on \in BOOLEAN : Autocommit(Dbc(w), on)) \/ EndsTran(Dbc(w))
    /\ Done(w, TRUE)
    /\ UNCHANGED <<conn, obj, handle, refused, careless>>

AllocatesFor(w, phase) ==
    /\ work[w].op \in {"createStatement", "query", "catalog", "typeInfo"}
    /\ work[w].phase = "queued"
    /\ phase = IF work[w].op = "createStatement" THEN "done" ELSE "between"
    /\ Allocates(w, phase)

ExecutesFor(w) ==
    work[w].op \in {"query", "catalog", "typeInfo"} /\ Executes(w)

WorkerStep(w) ==
    \/ UV_CreateConnection(w) \/ UV_Open(w)
    \/ UV_CloseDisconnects(w) \/ UV_Close(w)
    \/ UV_CloseFrees(w) \/ UV_CloseForgets(w)
    \/ Plain(w) \/ SetsAttr(w) \/ ExecutesFor(w)
    \/ \E phase \in {"done", "between"} : AllocatesFor(w, phase)

LEMMA WorkerSteps == ASSUME NEW w \in Works, Worker(w) PROVE WorkerStep(w)
  <1>1. CASE \/ UV_CreateConnection(w) \/ UV_Open(w) \/ UV_CloseDisconnects(w)
             \/ UV_Close(w) \/ UV_CloseFrees(w) \/ UV_CloseForgets(w)
    BY <1>1 DEF WorkerStep
  <1>2. CASE UV_Cancel(w) \/ UV_GetInfo(w) \/ UV_GetFunctions(w)
    BY <1>2 DEF WorkerStep, Plain, UV_Cancel, UV_GetInfo, UV_GetFunctions, Asks, At
  <1>3. CASE UV_SetAttr(w) \/ UV_BeginTransaction(w) \/ UV_EndTransaction(w)
    BY <1>3 DEF WorkerStep, SetsAttr, UV_SetAttr, UV_BeginTransaction,
       UV_EndTransaction, EndsTran, At
  <1>4. CASE UV_Query(w) \/ UV_Tables(w) \/ UV_GetTypeInfo(w)
    BY <1>4 DEF WorkerStep, ExecutesFor, UV_Query, UV_Tables, UV_GetTypeInfo
  <1>5. CASE \/ UV_CreateStatement(w) \/ UV_QueryAllocates(w)
             \/ UV_TablesAllocates(w) \/ UV_GetTypeInfoAllocates(w)
    BY <1>5 DEF WorkerStep, AllocatesFor, UV_CreateStatement, UV_QueryAllocates,
       UV_TablesAllocates, UV_GetTypeInfoAllocates, At
  <1> QED
    BY <1>1, <1>2, <1>3, <1>4, <1>5 DEF Worker

(* A handler that only ends the work. *)
Finishes(w) ==
    /\ work[w].op \in ConnOps /\ work[w].phase = "done"
    /\ work[w].op \in RefOps \ {"createStatement", "query", "catalog", "typeInfo"}
    /\ Unref(w) /\ Ends(w)
    /\ UNCHANGED <<obj, dbc, handle, refused, careless>>

EndsOnly(w) ==
    /\ work[w].op \in {"closeObject", "begin", "end"} /\ work[w].phase = "done"
    /\ Ends(w)
    /\ UNCHANGED <<conn, obj, dbc, handle, refused, careless>>

(* What the worker has allocated becomes an object's. *)
Hands(w) ==
    /\ work[w].op \in {"createStatement", "query", "catalog", "typeInfo"}
    /\ work[w].phase = "done"
    /\ \E o \in Objs, type \in {"statement", "result"} :
          NewObj(o, type, work[w].got, TRUE)
    /\ Unref(w) /\ Ends(w)
    /\ UNCHANGED <<dbc, handle, refused, careless>>

(* What the worker has allocated is freed. *)
GivesBack(w) ==
    /\ work[w].op \in {"query", "catalog", "typeInfo"}
    /\ work[w].phase \in {"done", "late"}
    /\ FreesGot(w)
    /\ Unref(w) /\ Ends(w)
    /\ UNCHANGED <<dbc, careless>>

ReportsLate(w) ==
    /\ work[w].op = "typeInfo" /\ work[w].phase = "done"
    /\ work' = [work EXCEPT ![w].phase = "late"]
    /\ UNCHANGED <<conn, obj, dbc, handle, refused, careless>>

HandlerStep(w) ==
    \/ UV_AfterCreateConnection(w) \/ UV_AfterOpen(w)
    \/ Finishes(w) \/ EndsOnly(w) \/ Hands(w) \/ GivesBack(w) \/ ReportsLate(w)

LEMMA HandlerSteps == ASSUME NEW w \in Works, Handler(w) PROVE HandlerStep(w)
  <1>1. CASE UV_AfterCreateConnection(w) \/ UV_AfterOpen(w)
    BY <1>1 DEF HandlerStep
  <1>2. CASE \/ UV_AfterClose(w) \/ UV_AfterCancel(w) \/ UV_AfterGetInfo(w)
             \/ UV_AfterGetFunctions(w) \/ UV_AfterSetAttr(w)
    BY <1>2 DEF HandlerStep, Finishes, UV_AfterClose, UV_AfterCancel,
       UV_AfterGetInfo, UV_AfterGetFunctions, UV_AfterSetAttr, Answers, At,
       RefOps, ConnOps
  <1>3. CASE UV_AfterCloseObject(w) \/ UV_AfterTransaction(w)
    BY <1>3 DEF HandlerStep, EndsOnly, UV_AfterCloseObject, UV_AfterTransaction, At
  <1>4. CASE UV_AfterCreateStatement(w)
    BY <1>4 DEF HandlerStep, Hands, UV_AfterCreateStatement, At
  <1>5. CASE UV_AfterQuery(w)
    BY <1>5 DEF HandlerStep, Hands, GivesBack, UV_AfterQuery
  <1>6. CASE UV_AfterGetTypeInfo(w)
    BY <1>6 DEF HandlerStep, Hands, ReportsLate, UV_AfterGetTypeInfo, At
  <1>7. CASE AfterGetTypeInfoFrees(w)
    BY <1>7 DEF HandlerStep, GivesBack, AfterGetTypeInfoFrees, At
  <1> QED
    BY <1>1, <1>2, <1>3, <1>4, <1>5, <1>6, <1>7 DEF Handler

ApplicationStep(w, c) ==
    \/ \E op \in RefOps \ {"cancel"} : QueuesWithRef(w, op, c, Null)
    \/ \E o \in Objs : Cancel(w, c, o)
    \/ \E op \in {"begin", "end"} : CallsWithoutRef(w, c, op)

LEMMA ApplicationSteps ==
    ASSUME NEW w \in Works, NEW c \in Conns, Application(w, c)
    PROVE  ApplicationStep(w, c)
  BY DEF Application, ApplicationStep, CallsWithoutRef, RefOps, ConnOps, Open,
     Close, CreateStatement, Query, Tables, Columns, GetTypeInfo, GetInfo,
     GetFunctions, SetAttr, BeginTransaction, EndTransaction

SyncStep(c) ==
    \/ CreateConnectionSync(c) \/ OpenSync(c) \/ CloseSync(c)
    \/ FreesDbcOnly(c) \/ SetAttrSync(c)
    \/ \E o \in Objs : CreateStatementSync(c, o) \/ QueriesSync(c, o)

LEMMA SyncSteps == ASSUME NEW c \in Conns, Sync(c) PROVE SyncStep(c)
  BY DEF Sync, SyncStep, CreateDbSync, DropDbSync, QuerySync, GetTypeInfoSync

-----------------------------------------------------------------------------
(* Types. *)

DbcStates == {"free", "allocated", "auto", "manual", "tx"}

LEMMA Shapes ==
    ASSUME Sane, NEW w \in Works
    PROVE  /\ work[w] \in WorkRecords /\ WorkShape(work[w])
           /\ work[w].got \in Dbcs \cup Stmts \cup {Null}
           /\ work[w].ok \in BOOLEAN
           /\ work[w].op \in ConnOps => work[w].conn \in Conns
           /\ work[w].op = "closeObject" => work[w].obj \in Objs
           /\ work[w].op \in {"createStatement", "query", "catalog", "typeInfo",
                              "cancel"} =>
                 work[w].got \in Stmts \cup {Null}
  BY Records, NullAssumption, NumbersAssumption
     DEF Sane, Shaped, WorkShape, WorkRecords, ConnOps

LEMMA DriverTyped ==
    ASSUME TypeOK
    PROVE  /\ \A d \in Dbcs, s \in DbcStates :
                 [dbc EXCEPT ![d] = s] \in [Dbcs -> DbcStates]
           /\ \A d \in Dbcs \cup {Null} :
                 /\ FreedDbc(d) \in [Dbcs -> DbcStates]
                 /\ FreedStmts(d) \in [Stmts -> Dbcs \cup {Null}]
                 /\ FreesStmts(d) => /\ handle' \in [Stmts -> Dbcs \cup {Null}]
                                     /\ refused' \subseteq Stmts
                 /\ Free(d) => /\ dbc' \in [Dbcs -> DbcStates]
                               /\ handle' \in [Stmts -> Dbcs \cup {Null}]
                               /\ refused' \subseteq Stmts
                 /\ \A on : Autocommit(d, on) => dbc' \in [Dbcs -> DbcStates]
                 /\ EndsTran(d) => dbc' \in [Dbcs -> DbcStates]
                 /\ \A ok \in MayConnect(d) : Connects(d, ok) =>
                       dbc' \in [Dbcs -> DbcStates]
                 /\ AllocDbc(d) => dbc' \in [Dbcs -> DbcStates]
           /\ \A h \in Stmts \cup {Null} :
                 /\ \A b : FreesStmt(h, b) =>
                       /\ handle' \in [Stmts -> Dbcs \cup {Null}]
                       /\ refused' \subseteq Stmts
                 /\ Touched(h) \subseteq [Dbcs -> DbcStates]
                 /\ \A d \in Dbcs \cup {Null} : AllocStmt(d, h) =>
                       handle' \in [Stmts -> Dbcs \cup {Null}]
  <1>1. /\ dbc \in [Dbcs -> DbcStates] /\ handle \in [Stmts -> Dbcs \cup {Null}]
        /\ refused \subseteq Stmts
    BY DEF TypeOK, DbcStates
  <1>2. \A d \in Dbcs, s \in DbcStates : [dbc EXCEPT ![d] = s] \in [Dbcs -> DbcStates]
    BY <1>1
  <1>3. ASSUME NEW d \in Dbcs \cup {Null}
        PROVE  /\ FreedDbc(d) \in [Dbcs -> DbcStates]
               /\ FreedStmts(d) \in [Stmts -> Dbcs \cup {Null}]
    BY <1>1 DEF FreedDbc, FreedStmts, DbcStates
  <1>11. ASSUME NEW d \in Dbcs \cup {Null}, FreesStmts(d)
         PROVE  /\ handle' \in [Stmts -> Dbcs \cup {Null}]
                /\ refused' \subseteq Stmts
    BY <1>1, <1>3, <1>11 DEF FreesStmts
  <1>4. ASSUME NEW d \in Dbcs \cup {Null}, Free(d)
        PROVE  /\ dbc' \in [Dbcs -> DbcStates]
               /\ handle' \in [Stmts -> Dbcs \cup {Null}]
               /\ refused' \subseteq Stmts
    <2>1. CASE Disconnects(d)
      BY <1>1, <1>4, <1>11, <2>1, NullAssumption DEF Free, Disconnects, DbcStates
    <2>2. CASE ~Disconnects(d)
      BY <1>1, <1>3, <1>4, <2>2 DEF Free
    <2> QED
      BY <2>1, <2>2
  <1>5. ASSUME NEW d \in Dbcs \cup {Null}, NEW on, Autocommit(d, on)
        PROVE  dbc' \in [Dbcs -> DbcStates]
    BY <1>1, <1>5, NullAssumption DEF Autocommit, Connected, DbcStates
  <1>12. ASSUME NEW d \in Dbcs \cup {Null}, EndsTran(d)
         PROVE  dbc' \in [Dbcs -> DbcStates]
    BY <1>1, <1>5, <1>12, NullAssumption DEF EndsTran, DbcStates
  <1>6. ASSUME NEW d \in Dbcs \cup {Null}, NEW ok \in MayConnect(d), Connects(d, ok)
        PROVE  dbc' \in [Dbcs -> DbcStates]
    BY <1>1, <1>6, NullAssumption DEF MayConnect, Connects, DbcStates
  <1>7. ASSUME NEW d \in Dbcs \cup {Null}, AllocDbc(d)
        PROVE  dbc' \in [Dbcs -> DbcStates]
    BY <1>1, <1>7, NullAssumption DEF AllocDbc, DbcStates
  <1>8. ASSUME NEW h \in Stmts \cup {Null}, NEW b, FreesStmt(h, b)
        PROVE  /\ handle' \in [Stmts -> Dbcs \cup {Null}]
               /\ refused' \subseteq Stmts
    BY <1>1, <1>8 DEF FreesStmt, FreedStmt, ValidStmt
  <1>9. ASSUME NEW h \in Stmts \cup {Null}
        PROVE  Touched(h) \subseteq [Dbcs -> DbcStates]
    BY <1>1, NullAssumption DEF Touched, ValidStmt, DbcStates
  <1>10. ASSUME NEW h \in Stmts \cup {Null}, NEW d \in Dbcs \cup {Null},
                AllocStmt(d, h)
         PROVE  handle' \in [Stmts -> Dbcs \cup {Null}]
    BY <1>1, <1>10 DEF AllocStmt
  <1> QED
    BY <1>2, <1>3, <1>4, <1>5, <1>6, <1>7, <1>8, <1>9, <1>10, <1>11, <1>12

LEMMA ObjectsTyped ==
    ASSUME TypeOK
    PROVE  /\ \A o \in Objs, type \in {"statement", "result"},
                 h \in Stmts \cup {Null}, canFree \in BOOLEAN :
                 NewObj(o, type, h, canFree) => obj' \in [Objs -> ObjRecords]
           /\ \A o \in Objs :
                 /\ [obj EXCEPT ![o].h = Null, ![o].canFree = FALSE] \in [Objs -> ObjRecords]
                 /\ [obj EXCEPT ![o].held = FALSE] \in [Objs -> ObjRecords]
                 /\ [obj EXCEPT ![o] = NoObj] \in [Objs -> ObjRecords]
           /\ \A c \in Conns :
                 /\ \A d \in Dbcs \cup {Null} : NewConn(c, d) =>
                       conn' \in [Conns -> ConnRecords]
                 /\ [conn EXCEPT ![c].refs = @ + 1] \in [Conns -> ConnRecords]
                 /\ [conn EXCEPT ![c].refs = @ - 1] \in [Conns -> ConnRecords]
                 /\ \A b \in BOOLEAN :
                       /\ [conn EXCEPT ![c].connected = @ \/ b] \in [Conns -> ConnRecords]
                       /\ [conn EXCEPT ![c].refs = @ - 1, ![c].connected = @ \/ b]
                             \in [Conns -> ConnRecords]
                 /\ [conn EXCEPT ![c].dbc = Null, ![c].connected = FALSE] \in [Conns -> ConnRecords]
                 /\ [conn EXCEPT ![c].held = FALSE] \in [Conns -> ConnRecords]
                 /\ [conn EXCEPT ![c] = NoConn] \in [Conns -> ConnRecords]
  <1>1. conn \in [Conns -> ConnRecords] /\ obj \in [Objs -> ObjRecords]
    BY DEF TypeOK
  <1>2. ASSUME NEW o \in Objs, NEW type \in {"statement", "result"},
               NEW h \in Stmts \cup {Null}, NEW canFree \in BOOLEAN,
               NewObj(o, type, h, canFree)
        PROVE  obj' \in [Objs -> ObjRecords]
    BY <1>1, <1>2 DEF NewObj, ObjRecords
  <1>3. ASSUME NEW o \in Objs
        PROVE  /\ [obj EXCEPT ![o].h = Null, ![o].canFree = FALSE] \in [Objs -> ObjRecords]
               /\ [obj EXCEPT ![o].held = FALSE] \in [Objs -> ObjRecords]
               /\ [obj EXCEPT ![o] = NoObj] \in [Objs -> ObjRecords]
    BY <1>1, NoRecords DEF ObjRecords
  <1>4. ASSUME NEW c \in Conns, NEW d \in Dbcs \cup {Null}, NewConn(c, d)
        PROVE  conn' \in [Conns -> ConnRecords]
    BY <1>1, <1>4 DEF NewConn, ConnRecords
  <1>5. ASSUME NEW c \in Conns
        PROVE  /\ [conn EXCEPT ![c].refs = @ + 1] \in [Conns -> ConnRecords]
               /\ [conn EXCEPT ![c].refs = @ - 1] \in [Conns -> ConnRecords]
    BY <1>1 DEF ConnRecords
  <1>6. ASSUME NEW c \in Conns, NEW b \in BOOLEAN
        PROVE  /\ [conn EXCEPT ![c].connected = @ \/ b] \in [Conns -> ConnRecords]
               /\ [conn EXCEPT ![c].refs = @ - 1, ![c].connected = @ \/ b]
                     \in [Conns -> ConnRecords]
    <2>1. conn[c] \in ConnRecords /\ conn[c].connected \in BOOLEAN
      BY <1>1 DEF ConnRecords
    <2>2. PICK x \in BOOLEAN : x = (conn[c].connected \/ b)
      BY <2>1
    <2>3. /\ [conn EXCEPT ![c].connected = x] \in [Conns -> ConnRecords]
          /\ [conn EXCEPT ![c].refs = @ - 1, ![c].connected = x]
                \in [Conns -> ConnRecords]
      <3>1. [conn EXCEPT ![c].connected = x] \in [Conns -> ConnRecords]
        BY <1>1 DEF ConnRecords
      <3>2. [conn[c] EXCEPT !.refs = @ - 1, !.connected = x] \in ConnRecords
        <4>1. PICK y \in Int : y = conn[c].refs - 1
          BY <2>1 DEF ConnRecords
        <4>2. \A r \in ConnRecords : [r EXCEPT !.refs = y, !.connected = x] \in ConnRecords
          BY DEF ConnRecords
        <4> QED
          BY <2>1, <4>1, <4>2
      <3>3. [conn EXCEPT ![c].refs = @ - 1, ![c].connected = x] =
            [conn EXCEPT ![c] = [conn[c] EXCEPT !.refs = @ - 1, !.connected = x]]
        BY <1>1
      <3> QED
        BY <1>1, <3>1, <3>2, <3>3
    <2>4. /\ [conn EXCEPT ![c].connected = @ \/ b] = [conn EXCEPT ![c].connected = x]
          /\ [conn EXCEPT ![c].refs = @ - 1, ![c].connected = @ \/ b] =
                [conn EXCEPT ![c].refs = @ - 1, ![c].connected = x]
      BY <2>2
    <2> QED
      BY <2>3, <2>4
  <1>7. ASSUME NEW c \in Conns
        PROVE  /\ [conn EXCEPT ![c].dbc = Null, ![c].connected = FALSE] \in [Conns -> ConnRecords]
               /\ [conn EXCEPT ![c].held = FALSE] \in [Conns -> ConnRecords]
               /\ [conn EXCEPT ![c] = NoConn] \in [Conns -> ConnRecords]
    BY <1>1, NoRecords DEF ConnRecords
  <1> QED
    BY <1>2, <1>3, <1>4, <1>5, <1>6, <1>7

(* One lemma per change of an object's record, in the form a step has it.   *)
LEMMA Unreferred ==
    ASSUME TypeOK, NEW w \in Works, work[w].conn \in Conns, Unref(w)
    PROVE  conn' \in [Conns -> ConnRecords]
  <1>1. PICK c \in Conns : c = work[w].conn
    OBVIOUS
  <1>2. conn' = [conn EXCEPT ![c].refs = @ - 1]
    BY <1>1 DEF Unref
  <1>3. [conn EXCEPT ![c].refs = @ - 1] \in [Conns -> ConnRecords]
    BY ObjectsTyped
  <1> QED
    BY <1>2, <1>3

LEMMA ObjDropped ==
    ASSUME TypeOK, NEW o \in Objs,
           \/ obj' = [obj EXCEPT ![o].h = Null, ![o].canFree = FALSE]
           \/ obj' = [obj EXCEPT ![o] = NoObj]
           \/ obj' = [obj EXCEPT ![o].held = FALSE]
    PROVE  obj' \in [Objs -> ObjRecords]
  <1>1. /\ [obj EXCEPT ![o].h = Null, ![o].canFree = FALSE] \in [Objs -> ObjRecords]
        /\ [obj EXCEPT ![o].held = FALSE] \in [Objs -> ObjRecords]
        /\ [obj EXCEPT ![o] = NoObj] \in [Objs -> ObjRecords]
    BY ObjectsTyped
  <1> QED
    BY <1>1

LEMMA ObjMade ==
    ASSUME TypeOK, NEW o \in Objs, NEW type \in {"statement", "result"},
           NEW h \in Stmts \cup {Null}, NEW canFree \in BOOLEAN,
           NewObj(o, type, h, canFree)
    PROVE  obj' \in [Objs -> ObjRecords]
  BY ObjectsTyped

(* A freed handle. *)
LEMMA HandleFreed ==
    ASSUME TypeOK, NEW o \in Objs, obj[o].h \in Stmts \cup {Null},
           FreesOf(o) \/ UNCHANGED <<handle, refused>>
    PROVE  /\ handle' \in [Stmts -> Dbcs \cup {Null}]
           /\ refused' \subseteq Stmts
  BY DriverTyped DEF FreesOf, TypeOK

(* The numbers a step looks at. *)
LEMMA Numbers ==
    ASSUME Sane
    PROVE  /\ \A c \in Conns : conn[c].dbc \in Dbcs \cup {Null}
           /\ \A o \in Objs : obj[o].h \in Stmts \cup {Null}
           /\ \A w \in Works : work[w].op \in ConnOps => Dbc(w) \in Dbcs \cup {Null}
           /\ \A h \in Stmts : handle[h] \in Dbcs \cup {Null}
  BY Records, Shapes DEF Sane, TypeOK, ConnRecords, ObjRecords, Dbc

LEMMA CarelessTyped ==
    ASSUME Sane
    PROVE  \A b : Careless(b) => careless' \in BOOLEAN
  BY DEF Careless

LEMMA SaneKeptByApplication ==
    ASSUME Sane, NEW w \in Works, NEW c \in Conns, ApplicationStep(w, c)
    PROVE  Sane'
  <1>1. ASSUME NEW op \in RefOps, NEW h \in Stmts \cup {Null},
               op # "cancel" => h = Null, QueuesWithRef(w, op, c, h)
        PROVE  Sane'
    <2>1. op \in ConnOps /\ c # Null
      BY NullAssumption DEF RefOps
    <2>2. work' \in [Works -> WorkRecords] /\ Shaped'
      BY <1>1, <2>1, WorkQueued DEF QueuesWithRef, ConnOps
    <2>3. conn' \in [Conns -> ConnRecords]
      BY <1>1, ObjectsTyped DEF Sane, QueuesWithRef
    <2> QED
      BY <1>1, <2>2, <2>3, CarelessTyped DEF Sane, TypeOK, QueuesWithRef
  <1>2. ASSUME NEW o \in Objs, Cancel(w, c, o) PROVE Sane'
    BY <1>1, <1>2, Numbers DEF Cancel, RefOps, ConnOps
  <1>3. ASSUME NEW op \in {"begin", "end"}, CallsWithoutRef(w, c, op) PROVE Sane'
    <2>1. op \in ConnOps /\ c # Null
      BY NullAssumption DEF ConnOps
    <2>2. work' \in [Works -> WorkRecords] /\ Shaped'
      BY <1>3, <2>1, WorkQueued DEF CallsWithoutRef, ConnOps
    <2> QED
      BY <1>3, <2>2, CarelessTyped DEF Sane, TypeOK, CallsWithoutRef
  <1> QED
    BY <1>1, <1>2, <1>3 DEF ApplicationStep

LEMMA SaneKeptBySync ==
    ASSUME Sane, NEW c \in Conns, SyncStep(c)
    PROVE  Sane'
  <1> USE DEF DbcStates
  <1>0. TypeOK /\ Shaped /\ conn[c].dbc \in Dbcs \cup {Null}
    BY Numbers DEF Sane
  <1>_. work' = work => Shaped'
    BY <1>0 DEF Shaped
  <1>1. CASE CreateConnectionSync(c)
    BY <1>0, <1>_, <1>1, DriverTyped, ObjectsTyped
       DEF Sane, TypeOK, CreateConnectionSync
  <1>2. CASE OpenSync(c)
    <2>1. PICK ok \in MayConnect(conn[c].dbc) :
             /\ Connects(conn[c].dbc, ok)
             /\ conn' = [conn EXCEPT ![c].connected = @ \/ ok]
      BY <1>2 DEF OpenSync
    <2>2. ok \in BOOLEAN
      BY DEF MayConnect
    <2> QED
      BY <1>0, <1>_, <1>2, <2>1, <2>2, DriverTyped, ObjectsTyped, CarelessTyped
         DEF Sane, TypeOK, OpenSync
  <1>3. CASE CloseSync(c)
    BY <1>0, <1>_, <1>3, DriverTyped, ObjectsTyped, CarelessTyped
       DEF Sane, TypeOK, CloseSync
  <1>4. CASE FreesDbcOnly(c)
    BY <1>0, <1>_, <1>4, DriverTyped, CarelessTyped DEF Sane, TypeOK, FreesDbcOnly
  <1>5. CASE SetAttrSync(c)
    BY <1>0, <1>_, <1>5, DriverTyped, CarelessTyped DEF Sane, TypeOK, SetAttrSync
  <1>6. ASSUME NEW o \in Objs, CreateStatementSync(c, o) PROVE Sane'
    <2>1. /\ handle' \in [Stmts -> Dbcs \cup {Null}]
          /\ obj' \in [Objs -> ObjRecords]
      BY <1>0, <1>6, DriverTyped, ObjectsTyped DEF CreateStatementSync, TypeOK
    <2> QED
      BY <1>0, <1>_, <1>6, <2>1, CarelessTyped DEF Sane, TypeOK, CreateStatementSync
  <1>7. ASSUME NEW o \in Objs, QueriesSync(c, o) PROVE Sane'
    <2>1. AnyNumber(conn[c].dbc) \subseteq Stmts \cup {Null}
      BY DEF AnyNumber
    <2>2. /\ handle' \in [Stmts -> Dbcs \cup {Null}]
          /\ refused' \subseteq Stmts
          /\ obj' \in [Objs -> ObjRecords]
      <3>1. CASE \E h \in Stmts : /\ AllocStmt(conn[c].dbc, h)
                                  /\ NewObj(o, "result", h, TRUE)
                                  /\ UNCHANGED refused
        BY <1>0, <3>1, DriverTyped, ObjectsTyped DEF TypeOK
      <3>2. CASE \E h \in AnyNumber(conn[c].dbc) : FreesStmt(h, TRUE) /\ UNCHANGED obj
        BY <1>0, <2>1, <3>2, DriverTyped DEF TypeOK
      <3>3. CASE UNCHANGED <<obj, handle, refused>>
        BY <1>0, <3>3 DEF TypeOK
      <3>4. CASE \E h \in Stmts : /\ AllocStmt(conn[c].dbc, h)
                                  /\ refused' = refused \cup {h}
                                  /\ UNCHANGED obj
        BY <1>0, <3>4, DriverTyped DEF TypeOK
      <3> QED
        BY <1>7, <3>1, <3>2, <3>3, <3>4 DEF QueriesSync
    <2>3. dbc' \in [Dbcs -> DbcStates]
      <3>1. dbc' \in {dbc} \cup IF conn[c].dbc # Null /\ dbc[conn[c].dbc] = "manual"
                                 THEN {[dbc EXCEPT ![conn[c].dbc] = "tx"]} ELSE {}
        BY <1>7, Zenon DEF QueriesSync
      <3> QED
        BY <1>0, <3>1, DriverTyped DEF TypeOK
    <2> QED
      BY <1>0, <1>_, <1>7, <2>2, <2>3, CarelessTyped DEF Sane, TypeOK, QueriesSync
  <1> QED
    BY <1>1, <1>2, <1>3, <1>4, <1>5, <1>6, <1>7 DEF SyncStep

LEMMA SaneKeptByWorker ==
    ASSUME Sane, NEW w \in Works, WorkerStep(w)
    PROVE  Sane'
  <1> USE DEF DbcStates
  <1>0. /\ TypeOK /\ Shaped
        /\ work[w].op \in ConnOps => Dbc(w) \in Dbcs \cup {Null}
        /\ work[w].op \in ConnOps => work[w].conn \in Conns
        /\ work[w].got \in Dbcs \cup Stmts \cup {Null} /\ work[w].ok \in BOOLEAN
        /\ WorkShape(work[w])
    BY Numbers, Shapes DEF Sane
  <1>1. ASSUME NEW p \in {"between", "done"}, NEW ok \in BOOLEAN,
               Moves(w, p, work[w].got, ok), work[w].phase # "idle",
               p = "between" => work[w].op \in {"close", "query", "catalog",
                                                "typeInfo", "closeObject"}
        PROVE  work' \in [Works -> WorkRecords] /\ Shaped'
    <2>1. /\ work[w].got \in Stmts => work[w].op \in {"createStatement", "query",
                                                "catalog", "typeInfo", "cancel"}
          /\ work[w].got \in Dbcs => work[w].op = "createConnection"
      BY <1>0 DEF WorkShape
    <2> QED
      BY <1>0, <1>1, <2>1, WorkMoved
  <1>2. ASSUME NEW ok \in BOOLEAN, Done(w, ok), work[w].phase # "idle"
        PROVE  work' \in [Works -> WorkRecords] /\ Shaped'
    BY <1>1, <1>2, DoneMoves
  <1>3. CASE UV_CreateConnection(w)
    <2>1. PICK d \in Dbcs \cup {Null} :
             /\ AllocDbc(d)
             /\ work' = [work EXCEPT ![w].phase = "done", ![w].got = d]
      BY <1>3 DEF UV_CreateConnection
    <2>2. work[w].op = "createConnection" /\ work[w].phase = "queued"
      BY <1>3 DEF UV_CreateConnection, At
    <2>3. work' \in [Works -> WorkRecords] /\ Shaped'
      <3>1. Moves(w, "done", d, work[w].ok)
        BY <2>1, GotMoves
      <3>2. d \notin Stmts
        BY NumbersAssumption, NullAssumption
      <3> QED
        BY <1>0, <2>2, <3>1, <3>2, WorkMoved
    <2> QED
      BY <1>0, <1>3, <2>1, <2>3, DriverTyped DEF Sane, TypeOK, UV_CreateConnection
  <1>4. CASE UV_Open(w)
    <2>1. PICK ok \in MayConnect(Dbc(w)) : Connects(Dbc(w), ok) /\ Done(w, ok)
      BY <1>4 DEF UV_Open
    <2>2. ok \in BOOLEAN /\ work[w].op \in ConnOps /\ work[w].phase # "idle"
      BY <1>4 DEF MayConnect, UV_Open, At, ConnOps
    <2>3. work' \in [Works -> WorkRecords] /\ Shaped' /\ dbc' \in [Dbcs -> DbcStates]
      BY <1>0, <1>2, <2>1, <2>2, DriverTyped
    <2> QED
      BY <1>0, <1>4, <2>3 DEF Sane, TypeOK, UV_Open
  <1>5. CASE UV_CloseDisconnects(w)
    <2>1. work[w].op = "close" /\ work[w].phase = "queued" /\ work[w].op \in ConnOps
      BY <1>5 DEF UV_CloseDisconnects, At, ConnOps
    <2>2. work' \in [Works -> WorkRecords] /\ Shaped'
      BY <1>0, <1>1, <1>5, <2>1, PhaseMoves DEF UV_CloseDisconnects
    <2>3. /\ dbc' \in [Dbcs -> DbcStates]
          /\ handle' \in [Stmts -> Dbcs \cup {Null}]
          /\ refused' \subseteq Stmts
      <3>1. CASE Disconnects(Dbc(w))
        <4>1. Dbc(w) \in Dbcs
          BY <1>0, <2>1, <3>1 DEF Disconnects
        <4>2. dbc' = [dbc EXCEPT ![Dbc(w)] = "allocated"] /\ FreesStmts(Dbc(w))
          BY <1>5, <3>1 DEF UV_CloseDisconnects
        <4>3. [dbc EXCEPT ![Dbc(w)] = "allocated"] \in [Dbcs -> DbcStates]
          BY <1>0, <4>1, DriverTyped
        <4>4. /\ handle' \in [Stmts -> Dbcs \cup {Null}]
              /\ refused' \subseteq Stmts
          BY <1>0, <4>1, <4>2, DriverTyped
        <4> QED
          BY <4>2, <4>3, <4>4
      <3>2. CASE ~Disconnects(Dbc(w))
        BY <1>0, <1>5, <3>2 DEF UV_CloseDisconnects, TypeOK
      <3> QED
        BY <3>1, <3>2
    <2> QED
      BY <1>0, <1>5, <2>2, <2>3, CarelessTyped DEF Sane, TypeOK, UV_CloseDisconnects
  <1>6. CASE UV_Close(w)
    <2>1. work[w].op = "close" /\ work[w].phase = "between" /\ work[w].op \in ConnOps
      BY <1>6 DEF UV_Close, At, ConnOps
    <2>2. work' \in [Works -> WorkRecords] /\ Shaped'
      BY <1>2, <1>6, <2>1 DEF UV_Close
    <2>3. dbc' \in [Dbcs -> DbcStates] /\ conn' \in [Conns -> ConnRecords]
      BY <1>0, <1>6, <2>1, DriverTyped, ObjectsTyped DEF UV_Close
    <2> QED
      BY <1>0, <1>6, <2>2, <2>3 DEF Sane, TypeOK, UV_Close
  <1>7. CASE UV_CloseFrees(w)
    <2>1. /\ work[w].op = "closeObject" /\ work[w].phase = "queued"
          /\ work[w].obj \in Objs
      BY <1>7, Shapes DEF UV_CloseFrees, At
    <2>2. work' \in [Works -> WorkRecords] /\ Shaped'
      BY <1>0, <1>1, <1>7, <2>1, PhaseMoves DEF UV_CloseFrees
    <2>3. obj[work[w].obj].h \in Stmts \cup {Null}
      BY <2>1, Numbers
    <2>4. /\ handle' \in [Stmts -> Dbcs \cup {Null}]
          /\ refused' \subseteq Stmts /\ careless' \in BOOLEAN
      BY <1>0, <1>7, <2>1, <2>3, HandleFreed, CarelessTyped
         DEF UV_CloseFrees, TypeOK
    <2> QED
      BY <1>0, <1>7, <2>2, <2>4 DEF Sane, TypeOK, UV_CloseFrees
  <1>8. CASE UV_CloseForgets(w)
    <2>1. /\ work[w].op = "closeObject" /\ work[w].phase = "between"
          /\ work[w].obj \in Objs
      BY <1>8, Shapes DEF UV_CloseForgets, At
    <2>2. work' \in [Works -> WorkRecords] /\ Shaped' /\ obj' \in [Objs -> ObjRecords]
      BY <1>0, <1>2, <1>8, <2>1, ObjectsTyped DEF UV_CloseForgets
    <2> QED
      BY <1>0, <1>8, <2>2 DEF Sane, TypeOK, UV_CloseForgets
  <1>9. CASE Plain(w)
    BY <1>0, <1>2, <1>9 DEF Sane, TypeOK, Plain
  <1>10. CASE SetsAttr(w)
    <2>1. work[w].op \in ConnOps /\ work[w].phase # "idle"
      BY <1>10 DEF SetsAttr, ConnOps
    <2>2. dbc' \in [Dbcs -> DbcStates]
      BY <1>0, <1>10, <2>1, DriverTyped DEF SetsAttr, TypeOK
    <2> QED
      BY <1>0, <1>2, <1>10, <2>1, <2>2 DEF Sane, TypeOK, SetsAttr
  <1>11. CASE ExecutesFor(w)
    <2>1. /\ work[w].got \in Stmts \cup {Null} /\ work[w].phase # "idle"
      BY <1>11, Shapes DEF ExecutesFor, Executes
    <2>2. dbc' \in [Dbcs -> DbcStates]
      BY <1>0, <1>11, <2>1, DriverTyped DEF ExecutesFor, Executes
    <2>3. work' \in [Works -> WorkRecords] /\ Shaped'
      BY <1>2, <1>11, <2>1 DEF ExecutesFor, Executes
    <2> QED
      BY <1>0, <1>11, <2>2, <2>3 DEF Sane, TypeOK, ExecutesFor, Executes
  <1>12. ASSUME NEW phase \in {"done", "between"}, AllocatesFor(w, phase)
         PROVE  Sane'
    <2>1. /\ work[w].op \in {"createStatement", "query", "catalog", "typeInfo"}
          /\ work[w].phase = "queued" /\ work[w].op \in ConnOps
          /\ phase = "between" => work[w].op \in {"query", "catalog", "typeInfo"}
      BY <1>12 DEF AllocatesFor, ConnOps
    <2>2. PICK h \in Stmts \cup {Null} :
             /\ AllocStmt(Dbc(w), h)
             /\ work' = [work EXCEPT ![w].phase = phase, ![w].got = h]
      BY <1>12 DEF AllocatesFor, Allocates
    <2>3. h \notin Dbcs
      BY NullAssumption, NumbersAssumption
    <2>4. work' \in [Works -> WorkRecords] /\ Shaped'
      <3>1. Moves(w, phase, h, work[w].ok)
        BY <2>2, GotMoves
      <3> QED
        BY <1>0, <2>1, <2>3, <3>1, WorkMoved
    <2>5. handle' \in [Stmts -> Dbcs \cup {Null}]
      BY <1>0, <2>1, <2>2, DriverTyped
    <2> QED
      BY <1>0, <1>12, <2>4, <2>5 DEF Sane, TypeOK, AllocatesFor, Allocates
  <1> QED
    BY <1>3, <1>4, <1>5, <1>6, <1>7, <1>8, <1>9, <1>10, <1>11, <1>12
       DEF WorkerStep

LEMMA SaneKeptByHandler ==
    ASSUME Sane, NEW w \in Works, HandlerStep(w)
    PROVE  Sane'
  <1>0. /\ TypeOK /\ Shaped
        /\ work[w].op \in ConnOps => work[w].conn \in Conns
        /\ work[w].got \in Dbcs \cup Stmts \cup {Null} /\ work[w].ok \in BOOLEAN
        /\ WorkShape(work[w])
    BY Shapes DEF Sane
  <1>1. Ends(w) => work' \in [Works -> WorkRecords] /\ Shaped'
    BY WorkEnded
  <1>2. Unref(w) /\ work[w].op \in ConnOps => conn' \in [Conns -> ConnRecords]
    BY <1>0, Unreferred
  <1>3. CASE UV_AfterCreateConnection(w)
    <2>1. work[w].op = "createConnection"
      BY <1>3 DEF UV_AfterCreateConnection, At
    <2>2. work[w].got \in Dbcs \cup {Null}
      BY <1>0, <2>1 DEF WorkShape
    <2>3. conn' \in [Conns -> ConnRecords]
      <3>1. CASE work[w].got = Null
        BY <1>0, <1>3, <3>1 DEF UV_AfterCreateConnection, TypeOK
      <3>2. CASE \E c \in Conns : NewConn(c, work[w].got)
        BY <1>0, <2>2, <3>2, ObjectsTyped
      <3> QED
        BY <1>3, <3>1, <3>2 DEF UV_AfterCreateConnection
    <2> QED
      BY <1>0, <1>1, <1>3, <2>3 DEF Sane, TypeOK, UV_AfterCreateConnection
  <1>4. CASE UV_AfterOpen(w)
    <2>1. work[w].op \in ConnOps
      BY <1>4 DEF UV_AfterOpen, At, ConnOps
    <2>2. conn' \in [Conns -> ConnRecords]
      BY <1>0, <1>4, <2>1, ObjectsTyped DEF UV_AfterOpen
    <2> QED
      BY <1>0, <1>1, <1>4, <2>2 DEF Sane, TypeOK, UV_AfterOpen
  <1>5. CASE Finishes(w)
    BY <1>0, <1>1, <1>2, <1>5 DEF Sane, TypeOK, Finishes
  <1>6. CASE EndsOnly(w)
    BY <1>0, <1>1, <1>6 DEF Sane, TypeOK, EndsOnly
  <1>7. CASE Hands(w)
    <2>1. work[w].op \in ConnOps /\ work[w].got \in Stmts \cup {Null}
      BY <1>7, Shapes DEF Hands, ConnOps
    <2>2. obj' \in [Objs -> ObjRecords]
      BY <1>0, <1>7, <2>1, ObjMade DEF Hands
    <2> QED
      BY <1>0, <1>1, <1>2, <1>7, <2>1, <2>2 DEF Sane, TypeOK, Hands
  <1>8. CASE GivesBack(w)
    <2>1. work[w].op \in ConnOps /\ work[w].got \in Stmts \cup {Null}
      BY <1>8, Shapes DEF GivesBack, ConnOps
    <2>2. handle' \in [Stmts -> Dbcs \cup {Null}] /\ refused' \subseteq Stmts
      BY <1>0, <1>8, <2>1, DriverTyped DEF GivesBack, FreesGot
    <2> QED
      BY <1>0, <1>1, <1>2, <1>8, <2>1, <2>2 DEF Sane, TypeOK, GivesBack, FreesGot
  <1>9. CASE ReportsLate(w)
    <2>1. Moves(w, "late", work[w].got, work[w].ok)
      BY <1>9, PhaseMoves DEF ReportsLate
    <2>2. /\ work[w].op = "typeInfo" /\ work[w].phase # "idle"
          /\ work[w].got \notin Dbcs
      BY <1>0, <1>9 DEF ReportsLate, WorkShape
    <2>3. work' \in [Works -> WorkRecords] /\ Shaped'
      BY <1>0, <2>1, <2>2, WorkMoved
    <2> QED
      BY <1>0, <1>9, <2>3 DEF Sane, TypeOK, ReportsLate
  <1> QED
    BY <1>3, <1>4, <1>5, <1>6, <1>7, <1>8, <1>9 DEF HandlerStep

LEMMA SaneKeptByObjects ==
    ASSUME Sane, NEW o \in Objs, Objects(o)
    PROVE  Sane'
  <1>0. TypeOK /\ Shaped /\ obj[o].h \in Stmts \cup {Null}
    BY Numbers DEF Sane
  <1>1. work' = work => Shaped'
    BY <1>0 DEF Shaped
  <1>2. ASSUME NEW p \in Objs, Execute(o, p) PROVE Sane'
    <2>1. /\ obj' \in [Objs -> ObjRecords]
          /\ dbc' \in [Dbcs -> DbcStates]
      BY <1>0, <1>2, DriverTyped, ObjectsTyped DEF Execute
    <2> QED
      BY <1>0, <1>1, <1>2, <2>1, CarelessTyped DEF Sane, TypeOK, Execute, DbcStates
  <1>3. CASE CloseObjectSync(o)
    <2>1. /\ handle' \in [Stmts -> Dbcs \cup {Null}]
          /\ refused' \subseteq Stmts /\ careless' \in BOOLEAN
          /\ obj' \in [Objs -> ObjRecords]
      BY <1>0, <1>3, HandleFreed, ObjDropped, CarelessTyped
         DEF CloseObjectSync, TypeOK
    <2> QED
      BY <1>0, <1>1, <1>3, <2>1 DEF Sane, TypeOK, CloseObjectSync
  <1>4. ASSUME NEW w \in Works, CloseObject(w, o) PROVE Sane'
    <2>1. work' \in [Works -> WorkRecords] /\ Shaped'
      BY <1>4, WorkQueued, NullAssumption DEF CloseObject, ConnOps
    <2> QED
      BY <1>0, <1>4, <2>1 DEF Sane, TypeOK, CloseObject
  <1> QED
    BY <1>2, <1>3, <1>4 DEF Objects

LEMMA SaneKeptByCreate ==
    ASSUME Sane, NEW w \in Works, CreateConnection(w)
    PROVE  Sane'
  <1>1. work' \in [Works -> WorkRecords] /\ Shaped'
    BY WorkQueued DEF CreateConnection, ConnOps
  <1> QED
    BY <1>1 DEF Sane, TypeOK, CreateConnection

LEMMA SaneKeptByCollector ==
    ASSUME Sane,
           \/ \E c \in Conns : CollectConnection(c)
           \/ \E o \in Objs : CollectObject(o)
           \/ Forget
    PROVE  Sane'
  <1>0. TypeOK /\ Shaped
    BY DEF Sane
  <1>1. work' = work => Shaped'
    BY <1>0 DEF Shaped
  <1>2. ASSUME NEW c \in Conns, CollectConnection(c) PROVE Sane'
    <2>1. conn[c].dbc \in Dbcs \cup {Null}
      BY Numbers
    <2>2. /\ conn' \in [Conns -> ConnRecords]
          /\ dbc' \in [Dbcs -> DbcStates] /\ handle' \in [Stmts -> Dbcs \cup {Null}]
          /\ refused' \subseteq Stmts
      BY <1>0, <1>2, <2>1, DriverTyped, ObjectsTyped DEF CollectConnection
    <2> QED
      BY <1>0, <1>1, <1>2, <2>2, CarelessTyped
         DEF Sane, TypeOK, CollectConnection, DbcStates
  <1>3. ASSUME NEW o \in Objs, CollectObject(o) PROVE Sane'
    <2>1. obj[o].h \in Stmts \cup {Null}
      BY Numbers
    <2>2. /\ handle' \in [Stmts -> Dbcs \cup {Null}]
          /\ refused' \subseteq Stmts /\ careless' \in BOOLEAN
          /\ obj' \in [Objs -> ObjRecords]
      BY <1>0, <1>3, <2>1, HandleFreed, ObjDropped, CarelessTyped
         DEF CollectObject, TypeOK
    <2> QED
      BY <1>0, <1>1, <1>3, <2>2 DEF Sane, TypeOK, CollectObject
  <1>4. CASE Forget
    <2>1. obj' \in [Objs -> ObjRecords]
      BY <1>0, <1>4, ObjDropped DEF Forget, TypeOK
    <2>2. conn' \in [Conns -> ConnRecords]
      <3>1. CASE \E c \in Conns : conn' = [conn EXCEPT ![c].held = FALSE]
        <4>1. \A c \in Conns : [conn EXCEPT ![c].held = FALSE] \in [Conns -> ConnRecords]
          BY <1>0, ObjectsTyped
        <4> QED
          BY <3>1, <4>1
      <3>2. CASE conn' = conn
        BY <1>0, <3>2 DEF TypeOK
      <3> QED
        BY <1>4, <3>1, <3>2 DEF Forget
    <2> QED
      BY <1>0, <1>1, <1>4, <2>1, <2>2 DEF Sane, TypeOK, Forget
  <1> QED
    BY <1>2, <1>3, <1>4

(* The steps of the model, sorted. *)
Step ==
    \/ ~careless /\ \E w \in Works : CreateConnection(w)
    \/ ~careless /\ \E w \in Works, c \in Conns : ApplicationStep(w, c)
    \/ ~careless /\ \E c \in Conns : SyncStep(c)
    \/ ~careless /\ \E o \in Objs : Objects(o)
    \/ \E w \in Works : WorkerStep(w) \/ HandlerStep(w)
    \/ \E c \in Conns : CollectConnection(c)
    \/ \E o \in Objs : CollectObject(o)
    \/ Forget

LEMMA Steps == ASSUME Next PROVE Step
  <1>1. CASE ~careless /\ Calls
    BY <1>1, ApplicationSteps, SyncSteps DEF Calls, Step
  <1>2. ASSUME NEW w \in Works, Worker(w) \/ Handler(w) PROVE Step
    BY <1>2, WorkerSteps, HandlerSteps DEF Step
  <1> QED
    BY <1>1, <1>2 DEF Next, Step

LEMMA SaneKept == Sane /\ [Next]_vars => Sane'
  <1> SUFFICES ASSUME Sane, [Next]_vars PROVE Sane'
    OBVIOUS
  <1>1. CASE Next
    BY <1>1, Steps, SaneKeptByCreate, SaneKeptByApplication, SaneKeptBySync,
       SaneKeptByObjects, SaneKeptByWorker, SaneKeptByHandler, SaneKeptByCollector
       DEF Step
  <1>2. CASE UNCHANGED vars
    BY <1>2 DEF vars, Sane, TypeOK, Shaped
  <1> QED
    BY <1>1, <1>2

LEMMA InitSane == Init => Sane
  <1> SUFFICES ASSUME Init PROVE Sane
    OBVIOUS
  <1>1. Shaped
    BY NoRecords DEF Init, Shaped
  <1>2. TypeOK
    BY NoRecords DEF Init, TypeOK
  <1> QED
    BY <1>1, <1>2 DEF Sane

(* Connections, objects, work and the driver's handles keep their types,    *)
(* whatever the application does.                                           *)
THEOREM TypeCorrect == Spec => []TypeOK
  <1>1. Sane => TypeOK
    BY DEF Sane
  <1> QED
    BY <1>1, InitSane, SaneKept, PTL DEF Spec

-----------------------------------------------------------------------------
(* References: each piece of work that has taken one, and nothing else,     *)
(* counts, and an object that is referred to or held is there.              *)

RefWorks(c) == {w \in Works : work[w].conn = c /\ work[w].op \in RefOps}

Referred(c) == conn[c].refs # 0 \/ conn[c].held => conn[c].there

RefInv ==
    /\ Sane
    /\ \A c \in Conns : conn[c].refs = Cardinality(RefWorks(c)) /\ Referred(c)

(* No piece of work takes or returns a reference. *)
SameRefs ==
    \A v \in Works :
        \/ work'[v].op = work[v].op /\ work'[v].conn = work[v].conn
        \/ work[v].op \notin RefOps /\ work'[v].op \notin RefOps

(* The objects stay, or those nothing refers to come and go. *)
SameConns ==
    \A c \in Conns :
        \/ /\ conn'[c].refs = conn[c].refs /\ conn'[c].there = conn[c].there
           /\ conn'[c].held => conn[c].held
        \/ conn[c].refs = 0 /\ conn'[c].refs = 0 /\ Referred(c)'

LEMMA RefsStay ==
    ASSUME RefInv, Sane', SameRefs, SameConns
    PROVE  RefInv'
  <1>1. \A c \in Conns : RefWorks(c)' = RefWorks(c)
    BY DEF SameRefs, RefWorks
  <1> QED
    BY <1>1 DEF RefInv, SameConns, Referred

LEMMA RefTaken ==
    ASSUME RefInv, Sane', NEW w \in Works, NEW c \in Conns, conn[c].held,
           work[w].op \notin RefOps,
           work'[w].op \in RefOps, work'[w].conn = c,
           \A v \in Works : v # w => work'[v] = work[v],
           conn' = [conn EXCEPT ![c].refs = @ + 1]
    PROVE  RefInv'
  <1>1. conn \in [Conns -> ConnRecords]
    BY DEF RefInv, Sane, TypeOK
  <1>2. IsFiniteSet(RefWorks(c))
    BY WorksAssumption, FS_Subset DEF RefWorks
  <1>3. RefWorks(c)' = RefWorks(c) \cup {w} /\ w \notin RefWorks(c)
    BY DEF RefWorks
  <1>4. Cardinality(RefWorks(c)') = Cardinality(RefWorks(c)) + 1
    BY <1>2, <1>3, FS_AddElement
  <1>5. /\ conn'[c].refs = conn[c].refs + 1 /\ conn'[c].there = conn[c].there
        /\ \A e \in Conns : e # c => conn'[e] = conn[e]
    BY <1>1 DEF ConnRecords
  <1>6. \A e \in Conns : e # c => RefWorks(e)' = RefWorks(e)
    BY DEF RefWorks
  <1>7. conn[c].there
    BY DEF RefInv, Referred
  <1>8. conn'[c].refs = Cardinality(RefWorks(c)') /\ Referred(c)'
    BY <1>4, <1>5, <1>7 DEF RefInv, Referred
  <1>9. ASSUME NEW e \in Conns, e # c
        PROVE  conn'[e].refs = Cardinality(RefWorks(e)') /\ Referred(e)'
    BY <1>5, <1>6, <1>9 DEF RefInv, Referred
  <1> QED
    BY <1>8, <1>9 DEF RefInv

(* Returning a reference; the handler of open does more to the object. *)
LEMMA RefReturned ==
    ASSUME RefInv, Sane', NEW w \in Works, NEW c \in Conns,
           work[w].op \in RefOps, work[w].conn = c, work'[w].op \notin RefOps,
           \A v \in Works : v # w => work'[v] = work[v],
           conn'[c].refs = conn[c].refs - 1, conn'[c].there = conn[c].there,
           \A e \in Conns : e # c => conn'[e] = conn[e]
    PROVE  RefInv'
  <1>2. IsFiniteSet(RefWorks(c)) /\ Cardinality(RefWorks(c)) \in Nat
    BY WorksAssumption, FS_Subset, FS_CardinalityType DEF RefWorks
  <1>3. RefWorks(c)' = RefWorks(c) \ {w} /\ w \in RefWorks(c)
    BY DEF RefWorks
  <1>4. Cardinality(RefWorks(c)') = Cardinality(RefWorks(c)) - 1
    BY <1>2, <1>3, FS_RemoveElement
  <1>5. Cardinality(RefWorks(c)) # 0
    BY <1>2, <1>3, FS_EmptySet
  <1>6. \A e \in Conns : e # c => RefWorks(e)' = RefWorks(e)
    BY DEF RefWorks
  <1>7. conn[c].there
    BY <1>5 DEF RefInv, Referred
  <1>8. conn'[c].refs = Cardinality(RefWorks(c)') /\ Referred(c)'
    BY <1>4, <1>7 DEF RefInv, Referred
  <1>9. ASSUME NEW e \in Conns, e # c
        PROVE  conn'[e].refs = Cardinality(RefWorks(e)') /\ Referred(e)'
    BY <1>6, <1>9 DEF RefInv, Referred
  <1> QED
    BY <1>8, <1>9 DEF RefInv

LEMMA Unrefs ==
    ASSUME RefInv, Sane', NEW w \in Works, work[w].op \in RefOps, Ends(w),
           Unref(w)
    PROVE  RefInv'
  <1>1. conn \in [Conns -> ConnRecords] /\ work[w].op \in ConnOps
    BY DEF RefInv, Sane, TypeOK, RefOps
  <1>2. PICK c \in Conns : c = work[w].conn
    BY <1>1, Shapes DEF RefInv
  <1>3. conn' = [conn EXCEPT ![c].refs = @ - 1]
    BY <1>2 DEF Unref
  <1>4. /\ conn'[c].refs = conn[c].refs - 1 /\ conn'[c].there = conn[c].there
        /\ \A e \in Conns : e # c => conn'[e] = conn[e]
    BY <1>1, <1>3 DEF ConnRecords
  <1>5. /\ work'[w].op \notin RefOps
        /\ \A v \in Works : v # w => work'[v] = work[v]
    BY WorkEnded DEF RefInv, NoWork, RefOps, ConnOps
  <1> QED
    BY <1>2, <1>4, <1>5, RefReturned

(* A worker changes the phase, the handle and the result of its own work.   *)
LEMMA WorkerWork ==
    ASSUME Sane, NEW w \in Works, WorkerStep(w)
    PROVE  /\ \A v \in Works :
                 /\ work'[v].op = work[v].op /\ work'[v].conn = work[v].conn
                 /\ work'[v].obj = work[v].obj
                 /\ v # w => work'[v] = work[v]
           /\ work[w].phase \in {"queued", "between"}
           /\ work'[w].phase \in {"between", "done"}
  <1>0. work \in [Works -> WorkRecords]
    BY DEF Sane, TypeOK
  <1>1. ASSUME NEW p, NEW g, NEW ok, Moves(w, p, g, ok)
        PROVE  /\ \A v \in Works :
                     /\ work'[v].op = work[v].op /\ work'[v].conn = work[v].conn
                     /\ work'[v].obj = work[v].obj
                     /\ v # w => work'[v] = work[v]
               /\ work'[w].phase = p
    BY <1>0, <1>1 DEF Moves, WorkRecords
  <1>2. PICK p \in {"between", "done"} : \E g, ok : Moves(w, p, g, ok)
    <2>1. CASE \E ok \in BOOLEAN : Done(w, ok)
      BY <2>1, DoneMoves
    <2>2. CASE \E p \in {"between", "done"} : work' = [work EXCEPT ![w].phase = p]
      BY <2>2, PhaseMoves
    <2>3. CASE \E p \in {"between", "done"} : \E g :
                  work' = [work EXCEPT ![w].phase = p, ![w].got = g]
      BY <2>3, GotMoves
    <2> QED
      BY <2>1, <2>2, <2>3
         DEF WorkerStep, UV_CreateConnection, UV_Open, UV_CloseDisconnects,
             UV_Close, UV_CloseFrees, UV_CloseForgets, Plain, SetsAttr,
             ExecutesFor, Executes, AllocatesFor, Allocates, MayConnect
  <1>3. work[w].phase \in {"queued", "between"}
    BY DEF WorkerStep, UV_CreateConnection, UV_Open, UV_CloseDisconnects,
           UV_Close, UV_CloseFrees, UV_CloseForgets, Plain, SetsAttr,
           ExecutesFor, Executes, AllocatesFor, At
  <1> QED
    BY <1>1, <1>2, <1>3

(* A call that makes or changes a connection object without a reference. *)
LEMMA ConnMade ==
    ASSUME RefInv, NEW c \in Conns, NEW d \in Dbcs \cup {Null}, NewConn(c, d)
    PROVE  SameConns
  <1>1. conn \in [Conns -> ConnRecords]
    BY DEF RefInv, Sane, TypeOK
  <1>2. /\ conn[c].refs = 0
        /\ conn'[c].refs = 0 /\ conn'[c].there
        /\ \A e \in Conns : e # c => conn'[e] = conn[e]
    BY <1>1 DEF NewConn, RefInv, Referred
  <1> QED
    BY <1>2 DEF SameConns, Referred

LEMMA RefsKept == RefInv /\ [Next]_vars => RefInv'
  <1> SUFFICES ASSUME RefInv, [Next]_vars PROVE RefInv'
    OBVIOUS
  <1>0. Sane /\ Sane' /\ conn \in [Conns -> ConnRecords]
    BY SaneKept DEF RefInv, Sane, TypeOK
  <1>a. work' = work => SameRefs
    BY DEF SameRefs
  <1>b. conn' = conn => SameConns
    BY DEF SameConns
  <1>1. ASSUME NEW w \in Works, CreateConnection(w) PROVE RefInv'
    <2>1. /\ \A v \in Works : v # w => work'[v] = work[v]
          /\ work[w].op \notin RefOps /\ work'[w].op \notin RefOps
      BY <1>0, <1>1, WorkQueued DEF CreateConnection, ConnOps, RefOps
    <2>2. SameRefs
      BY <2>1 DEF SameRefs
    <2> QED
      BY <1>0, <1>1, <1>b, <2>2, RefsStay DEF CreateConnection
  <1>2. ASSUME NEW w \in Works, NEW c \in Conns, ApplicationStep(w, c) PROVE RefInv'
    <2>0. c # Null
      BY NullAssumption
    <2>1. ASSUME NEW op \in RefOps, NEW h \in Stmts \cup {Null},
                 op # "cancel" => h = Null, QueuesWithRef(w, op, c, h)
          PROVE  RefInv'
      <3>1. /\ work[w].op \notin RefOps
            /\ work'[w].op \in RefOps /\ work'[w].conn = c
            /\ \A v \in Works : v # w => work'[v] = work[v]
        BY <1>0, <2>0, <2>1, WorkQueued DEF QueuesWithRef, RefOps, ConnOps
      <3> QED
        BY <1>0, <2>1, <3>1, RefTaken DEF QueuesWithRef
    <2>2. ASSUME NEW o \in Objs, Cancel(w, c, o) PROVE RefInv'
      BY <1>0, <2>1, <2>2, Numbers DEF Cancel, RefOps, ConnOps
    <2>3. ASSUME NEW op \in {"begin", "end"}, CallsWithoutRef(w, c, op) PROVE RefInv'
      <3>1. /\ work[w].op \notin RefOps /\ work'[w].op \notin RefOps
            /\ \A v \in Works : v # w => work'[v] = work[v]
        BY <1>0, <2>0, <2>3, WorkQueued DEF CallsWithoutRef, RefOps, ConnOps
      <3>2. SameRefs
        BY <3>1 DEF SameRefs
      <3> QED
        BY <1>0, <1>b, <2>3, <3>2, RefsStay DEF CallsWithoutRef
    <2> QED
      BY <1>2, <2>1, <2>2, <2>3 DEF ApplicationStep
  <1>3. ASSUME NEW c \in Conns, SyncStep(c) PROVE RefInv'
    <2>1. SameRefs
      BY <1>3, <1>a DEF SyncStep, CreateConnectionSync, OpenSync, CloseSync,
         FreesDbcOnly, SetAttrSync, CreateStatementSync, QueriesSync
    <2>2. CASE CreateConnectionSync(c)
      BY <1>0, <2>1, <2>2, ConnMade, RefsStay DEF CreateConnectionSync
    <2>3. CASE OpenSync(c)
      <3>1. PICK x : conn' = [conn EXCEPT ![c].connected = x]
        BY <2>3 DEF OpenSync
      <3>2. SameConns
        BY <1>0, <3>1 DEF SameConns, ConnRecords
      <3> QED
        BY <1>0, <2>1, <3>2, RefsStay
    <2>4. CASE CloseSync(c)
      <3>1. SameConns
        BY <1>0, <2>4 DEF CloseSync, SameConns, ConnRecords
      <3> QED
        BY <1>0, <2>1, <3>1, RefsStay
    <2>5. CASE UNCHANGED conn
      BY <1>0, <1>b, <2>1, <2>5, RefsStay
    <2> QED
      BY <1>3, <2>2, <2>3, <2>4, <2>5
         DEF SyncStep, FreesDbcOnly, SetAttrSync, CreateStatementSync, QueriesSync
  <1>4. ASSUME NEW o \in Objs, Objects(o) PROVE RefInv'
    <2>1. CASE \E w \in Works : CloseObject(w, o)
      <3>1. PICK w \in Works : CloseObject(w, o)
        BY <2>1
      <3>2. /\ \A v \in Works : v # w => work'[v] = work[v]
            /\ work[w].op \notin RefOps /\ work'[w].op \notin RefOps
        BY <1>0, <3>1, WorkQueued, NullAssumption DEF CloseObject, ConnOps, RefOps
      <3>3. SameRefs
        BY <3>2 DEF SameRefs
      <3> QED
        BY <1>0, <1>b, <3>1, <3>3, RefsStay DEF CloseObject
    <2>2. CASE UNCHANGED <<conn, work>>
      BY <1>0, <1>a, <1>b, <2>2, RefsStay
    <2> QED
      BY <1>4, <2>1, <2>2 DEF Objects, Execute, CloseObjectSync
  <1>5. ASSUME NEW w \in Works, WorkerStep(w) PROVE RefInv'
    <2>1. SameRefs
      BY <1>0, <1>5, WorkerWork DEF SameRefs
    <2>2. CASE UV_Close(w)
      <3>1. PICK c \in Conns : c = work[w].conn
        BY <1>0, <2>2, Shapes DEF UV_Close, At, ConnOps
      <3>2. conn' = [conn EXCEPT ![c].dbc = Null, ![c].connected = FALSE]
        BY <2>2, <3>1 DEF UV_Close
      <3>3. SameConns
        BY <1>0, <3>2 DEF SameConns, ConnRecords
      <3> QED
        BY <1>0, <2>1, <3>3, RefsStay
    <2>3. CASE UNCHANGED conn
      BY <1>0, <1>b, <2>1, <2>3, RefsStay
    <2> QED
      BY <1>5, <2>2, <2>3
         DEF WorkerStep, UV_CreateConnection, UV_Open, UV_CloseDisconnects,
             UV_CloseFrees, UV_CloseForgets, Plain, SetsAttr, ExecutesFor,
             Executes, AllocatesFor, Allocates
  <1>6. ASSUME NEW w \in Works, HandlerStep(w) PROVE RefInv'
    <2>1. CASE UV_AfterCreateConnection(w)
      <3>1. /\ work[w].op = "createConnection" /\ work[w].got \in Dbcs \cup {Null}
        BY <1>0, <2>1, Shapes DEF UV_AfterCreateConnection, At, WorkShape
      <3>2. /\ \A v \in Works : v # w => work'[v] = work[v]
            /\ work[w].op \notin RefOps /\ work'[w].op \notin RefOps
        BY <1>0, <2>1, <3>1, WorkEnded
           DEF UV_AfterCreateConnection, ConnOps, RefOps, NoWork
      <3>3. SameRefs
        BY <3>2 DEF SameRefs
      <3>4. SameConns
        BY <1>0, <1>b, <2>1, <3>1, ConnMade DEF UV_AfterCreateConnection
      <3> QED
        BY <1>0, <3>3, <3>4, RefsStay
    <2>2. CASE UV_AfterOpen(w)
      <3>1. work[w].op \in RefOps /\ work[w].op \in ConnOps
        BY <2>2 DEF UV_AfterOpen, At, RefOps, ConnOps
      <3>2. PICK c \in Conns : c = work[w].conn
        BY <1>0, <3>1, Shapes
      <3>3. PICK x : conn' = [conn EXCEPT ![c].refs = @ - 1, ![c].connected = x]
        BY <2>2, <3>2 DEF UV_AfterOpen
      <3>4. /\ conn'[c].refs = conn[c].refs - 1 /\ conn'[c].there = conn[c].there
            /\ \A e \in Conns : e # c => conn'[e] = conn[e]
        BY <1>0, <3>3 DEF ConnRecords
      <3>5. /\ work'[w].op \notin RefOps
            /\ \A v \in Works : v # w => work'[v] = work[v]
        BY <1>0, <2>2, WorkEnded DEF UV_AfterOpen, NoWork, RefOps, ConnOps
      <3> QED
        BY <1>0, <3>1, <3>2, <3>4, <3>5, RefReturned
    <2>3. CASE Finishes(w) \/ Hands(w) \/ GivesBack(w)
      <3>1. work[w].op \in RefOps
        BY <2>3 DEF Finishes, Hands, GivesBack, RefOps, ConnOps
      <3> QED
        BY <1>0, <2>3, <3>1, Unrefs DEF Finishes, Hands, GivesBack
    <2>4. CASE EndsOnly(w)
      <3>1. /\ \A v \in Works : v # w => work'[v] = work[v]
            /\ work[w].op \notin RefOps /\ work'[w].op \notin RefOps
        BY <1>0, <2>4, WorkEnded DEF EndsOnly, ConnOps, RefOps, NoWork
      <3>2. SameRefs
        BY <3>1 DEF SameRefs
      <3> QED
        BY <1>0, <1>b, <2>4, <3>2, RefsStay DEF EndsOnly
    <2>5. CASE ReportsLate(w)
      <3>1. SameRefs
        BY <1>0, <2>5 DEF SameRefs, ReportsLate, Sane, TypeOK, WorkRecords
      <3> QED
        BY <1>0, <1>b, <2>5, <3>1, RefsStay DEF ReportsLate
    <2> QED
      BY <1>6, <2>1, <2>2, <2>3, <2>4, <2>5 DEF HandlerStep
  <1>7. ASSUME NEW c \in Conns, CollectConnection(c) PROVE RefInv'
    <2>1. SameConns
      BY <1>0, <1>7 DEF CollectConnection, SameConns, NoConn, Referred
    <2> QED
      BY <1>0, <1>7, <1>a, <2>1, RefsStay DEF CollectConnection
  <1>8. ASSUME NEW o \in Objs, CollectObject(o) PROVE RefInv'
    BY <1>0, <1>8, <1>a, <1>b, RefsStay DEF CollectObject
  <1>9. CASE Forget
    <2>1. SameConns
      BY <1>0, <1>9 DEF Forget, SameConns, ConnRecords
    <2> QED
      BY <1>0, <1>9, <1>a, <2>1, RefsStay DEF Forget
  <1>10. CASE UNCHANGED vars
    BY <1>0, <1>10, <1>a, <1>b, RefsStay DEF vars
  <1>11. CASE Next
    BY <1>11, Steps, <1>1, <1>2, <1>3, <1>4, <1>5, <1>6, <1>7, <1>8, <1>9 DEF Step
  <1> QED
    BY <1>10, <1>11

LEMMA InitReferred == Init => RefInv
  <1> SUFFICES ASSUME Init PROVE RefInv
    OBVIOUS
  <1>1. \A c \in Conns : RefWorks(c) = {}
    BY DEF Init, NoWork, RefWorks, RefOps, ConnOps
  <1>2. \A c \in Conns : conn[c].refs = 0 /\ Referred(c)
    BY DEF Init, NoConn, Referred
  <1> QED
    BY <1>1, <1>2, InitSane, FS_EmptySet DEF RefInv

(* While a query, a close or any other work with a reference is under way   *)
(* on a connection, its object has not been collected.                      *)
THEOREM WorkFindsItsConnection == Spec => []WorkHasItsConnection
  <1>1. RefInv => WorkHasItsConnection
    <2> SUFFICES ASSUME RefInv, NEW w \in Works, work[w].conn # Null,
                        work[w].op \notin {"begin", "end"}
                 PROVE  conn[work[w].conn].there
      BY DEF WorkHasItsConnection
    <2>1. work[w].op \in RefOps /\ work[w].conn \in Conns
      BY Shapes DEF RefInv, WorkShape, RefOps
    <2>2. IsFiniteSet(RefWorks(work[w].conn)) /\ w \in RefWorks(work[w].conn)
      BY <2>1, WorksAssumption, FS_Subset DEF RefWorks
    <2>3. Cardinality(RefWorks(work[w].conn)) # 0
      BY <2>2, FS_EmptySet
    <2> QED
      BY <2>1, <2>3 DEF RefInv, Referred
  <1> QED
    BY <1>1, InitReferred, RefsKept, PTL DEF Spec

-----------------------------------------------------------------------------
(* Connection handles.  Everything here is about an application that is not *)
(* careless: a close finds nothing else on its connection when it begins to *)
(* disconnect, and nothing comes to it from then on.                        *)

(* A number that an object or a piece of work has is not free, and nobody   *)
(* else has it.                                                             *)
OnlyConn(c) ==
    conn[c].dbc # Null =>
        /\ dbc[conn[c].dbc] # "free"
        /\ \A e \in Conns : e # c => conn[e].dbc # conn[c].dbc
        /\ \A v \in Works : work[v].got # conn[c].dbc

OnlyWork(v) ==
    work[v].got \in Dbcs =>
        /\ dbc[work[v].got] # "free"
        /\ \A c \in Conns : conn[c].dbc # work[v].got
        /\ \A u \in Works : u # v => work[u].got # work[v].got

Owned == (\A c \in Conns : OnlyConn(c)) /\ (\A v \in Works : OnlyWork(v))

(* The worker has begun to close, and has closed. *)
Shutting(v) == work[v].op = "close" /\ work[v].phase \in {"between", "done"}
Closed(v) == work[v].op = "close" /\ work[v].phase = "done"

ClosesAlone ==
    \A v, u \in Works : Shutting(v) /\ u # v => work[u].conn # work[v].conn

ClosedIsShut == \A v \in Works : Closed(v) => ~conn[work[v].conn].connected

Opened(v) == work[v].op = "open" /\ work[v].phase = "done" /\ work[v].ok

IsOpen(c) == Connected(conn[c].dbc) \/ BeingClosed(c)

OpenedIsTrue == \A v \in Works : Opened(v) => IsOpen(work[v].conn)

SaysTrue == \A c \in Conns : conn[c].connected => IsOpen(c)

Careful == Owned /\ ClosesAlone /\ ClosedIsShut /\ OpenedIsTrue /\ SaysTrue

ConnInv == RefInv /\ (~careless => Careful)

(* What a step may do to a connection: keep its number and its state, or    *)
(* give the object up or another number.                                    *)
Stays(c) ==
    /\ conn'[c].dbc = conn[c].dbc
    /\ conn[c].dbc # Null /\ dbc[conn[c].dbc] # "free" => dbc'[conn[c].dbc] # "free"
    /\ Connected(conn[c].dbc) => IsOpen(c)'
    /\ conn'[c].connected =>
          \/ conn[c].connected
          \/ IsOpen(c)' /\ \A v \in Works : Closed(v)' => work'[v].conn # c

Fresh(c) ==
    /\ OnlyConn(c)'
    /\ ~conn'[c].connected
    /\ \A v \in Works : Opened(v)' => work'[v].conn # c

(* What it may do to the work. *)
GotCareful ==
    \A v \in Works :
        \/ work'[v].got \in Dbcs =>
              work'[v].got = work[v].got /\ dbc'[work[v].got] # "free"
        \/ OnlyWork(v)'

ClosesGoOn ==
    \A v \in Works :
        /\ work[v].op = "close" =>
              \/ work'[v].op = "close" /\ work'[v].conn = work[v].conn
              \/ Fresh(work[v].conn)
        /\ Shutting(v)' =>
              \/ Shutting(v) /\ work'[v].conn = work[v].conn
              \/ \A u \in Works : u # v => work'[u].conn # work'[v].conn
        /\ Closed(v)' =>
              \/ Closed(v) /\ work'[v].conn = work[v].conn
              \/ \E e \in Conns : e = work'[v].conn /\ Fresh(e)

OpensGoOn ==
    \A v \in Works :
        Opened(v)' => \/ Opened(v) /\ work'[v].conn = work[v].conn
                      \/ Connected(Dbc(v))'

NothingComes ==
    \A v, u \in Works :
        work'[u].conn # Null /\ work'[u].conn # work[u].conn /\ Shutting(v) =>
            work'[u].conn # work[v].conn

ConnsCareful == \A c \in Conns : Stays(c) \/ Fresh(c)

LEMMA OwnedStays ==
    ASSUME Sane, Owned, ConnsCareful, GotCareful
    PROVE  Owned'
  <1>0. \A c \in Conns : conn[c].dbc \in Dbcs \cup {Null}
    BY Numbers
  <1>1. ASSUME NEW c \in Conns PROVE OnlyConn(c)'
    <2>1. CASE Stays(c)
      <3>1. ASSUME NEW e \in Conns, e # c, conn'[c].dbc # Null
            PROVE  conn'[e].dbc # conn'[c].dbc
        <4>1. CASE Stays(e)
          BY <2>1, <3>1, <4>1 DEF Stays, Owned, OnlyConn
        <4>2. CASE Fresh(e)
          BY <3>1, <4>2 DEF Fresh, OnlyConn
        <4> QED
          BY <4>1, <4>2 DEF ConnsCareful
      <3>2. ASSUME NEW v \in Works, conn'[c].dbc # Null
            PROVE  work'[v].got # conn'[c].dbc
        <4>1. CASE OnlyWork(v)'
          BY <1>0, <2>1, <3>2, <4>1 DEF Stays, OnlyWork
        <4>2. CASE work'[v].got \in Dbcs => work'[v].got = work[v].got
          BY <1>0, <2>1, <3>2, <4>2 DEF Stays, Owned, OnlyConn
        <4> QED
          BY <4>1, <4>2 DEF GotCareful
      <3> QED
        BY <2>1, <3>1, <3>2 DEF Stays, OnlyConn, Owned
    <2> QED
      BY <2>1 DEF ConnsCareful, Fresh
  <1>2. ASSUME NEW v \in Works PROVE OnlyWork(v)'
    <2>1. CASE /\ work'[v].got \in Dbcs
               /\ work'[v].got = work[v].got /\ dbc'[work[v].got] # "free"
      <3>1. ASSUME NEW c \in Conns PROVE conn'[c].dbc # work'[v].got
        <4>1. CASE Stays(c)
          BY <2>1, <4>1 DEF Stays, Owned, OnlyWork
        <4>2. CASE Fresh(c)
          BY <2>1, <4>2, NullAssumption DEF Fresh, OnlyConn
        <4> QED
          BY <4>1, <4>2 DEF ConnsCareful
      <3>2. ASSUME NEW u \in Works, u # v PROVE work'[u].got # work'[v].got
        BY <2>1, <3>2 DEF GotCareful, Owned, OnlyWork
      <3> QED
        BY <2>1, <3>1, <3>2 DEF OnlyWork
    <2> QED
      BY <2>1 DEF GotCareful, OnlyWork
  <1> QED
    BY <1>1, <1>2 DEF Owned

LEMMA AloneStays ==
    ASSUME Sane, Sane', ClosesAlone, ClosesGoOn, NothingComes
    PROVE  ClosesAlone'
  <1> SUFFICES ASSUME NEW v \in Works, NEW u \in Works, Shutting(v)', u # v
               PROVE  work'[u].conn # work'[v].conn
    BY DEF ClosesAlone
  <1>1. CASE Shutting(v) /\ work'[v].conn = work[v].conn
    <2>1. work'[v].conn # Null
      BY <1>1, Shapes, NullAssumption DEF Shutting, ConnOps
    <2> QED
      BY <1>1, <2>1 DEF ClosesAlone, NothingComes
  <1> QED
    BY <1>1 DEF ClosesGoOn

LEMMA CarefulStays ==
    ASSUME Sane, Sane', Careful,
           ConnsCareful, GotCareful, ClosesGoOn, OpensGoOn, NothingComes
    PROVE  Careful'
  <1> USE DEF Careful
  <1>1. Owned' /\ ClosesAlone'
    BY OwnedStays, AloneStays
  <1>2. ClosedIsShut'
    <2> SUFFICES ASSUME NEW v \in Works, Closed(v)'
                 PROVE  ~conn'[work'[v].conn].connected
      BY DEF ClosedIsShut
    <2>1. CASE Closed(v) /\ work'[v].conn = work[v].conn
      <3>1. work[v].conn \in Conns
        BY <2>1, Shapes DEF Closed, ConnOps
      <3>2. ~conn[work[v].conn].connected
        BY <2>1 DEF ClosedIsShut
      <3> QED
        BY <2>1, <3>1, <3>2 DEF ConnsCareful, Stays, Fresh
    <2> QED
      BY <2>1 DEF ClosesGoOn, Fresh
  <1>3. \A c \in Conns : IsOpen(c) /\ ~Fresh(c) => IsOpen(c)'
    <2> SUFFICES ASSUME NEW c \in Conns, IsOpen(c), ~Fresh(c) PROVE IsOpen(c)'
      OBVIOUS
    <2>1. CASE BeingClosed(c)
      BY <2>1 DEF IsOpen, BeingClosed, ClosesGoOn
    <2>2. CASE Connected(conn[c].dbc)
      BY <2>2 DEF ConnsCareful, Stays
    <2> QED
      BY <2>1, <2>2 DEF IsOpen
  <1>4. OpenedIsTrue'
    <2> SUFFICES ASSUME NEW v \in Works, Opened(v)' PROVE IsOpen(work[v].conn)'
      BY DEF OpenedIsTrue
    <2>1. CASE Opened(v) /\ work'[v].conn = work[v].conn
      <3>1. work[v].conn \in Conns /\ ~Fresh(work[v].conn)
        BY <2>1, Shapes DEF Opened, ConnOps, Fresh
      <3>2. IsOpen(work[v].conn)
        BY <2>1 DEF OpenedIsTrue
      <3>3. PICK c \in Conns : c = work[v].conn
        BY <3>1
      <3>4. IsOpen(c)'
        BY <1>3, <3>1, <3>2, <3>3
      <3> QED
        BY <2>1, <3>3, <3>4 DEF IsOpen, BeingClosed
    <2>2. CASE Connected(Dbc(v))'
      BY <2>2 DEF IsOpen, Dbc
    <2> QED
      BY <2>1, <2>2 DEF OpensGoOn
  <1>5. SaysTrue'
    <2> SUFFICES ASSUME NEW c \in Conns, conn'[c].connected PROVE IsOpen(c)'
      BY DEF SaysTrue
    <2>1. ~Fresh(c) /\ Stays(c)
      BY DEF Fresh, ConnsCareful
    <2>2. CASE conn[c].connected
      BY <1>3, <2>1, <2>2 DEF SaysTrue
    <2> QED
      BY <2>1, <2>2 DEF Stays
  <1> QED
    BY <1>1, <1>2, <1>4, <1>5

(* The steps that change no number and free no connection handle. *)
DbcStays ==
    \A d \in Dbcs : /\ dbc[d] # "free" => dbc'[d] # "free"
                    /\ Connected(d) => Connected(d)'

SameNumbers ==
    \A c \in Conns : /\ conn'[c].dbc = conn[c].dbc
                     /\ conn'[c].connected = conn[c].connected

NoNewNumber ==
    \A v \in Works : work'[v].got \in Dbcs => work'[v].got = work[v].got

WorkGoesOn == NoNewNumber /\ ClosesGoOn /\ OpensGoOn /\ NothingComes

LEMMA DriverStays ==
    ASSUME Sane
    PROVE  /\ UNCHANGED dbc => DbcStays
           /\ \A d \in Dbcs \cup {Null} :
                 /\ \A on : Autocommit(d, on) => DbcStays
                 /\ EndsTran(d) => DbcStays
                 /\ AllocDbc(d) => DbcStays
                 /\ \A ok \in MayConnect(d) : Connects(d, ok) => DbcStays
           /\ \A h \in Stmts \cup {Null} : dbc' \in Touched(h) => DbcStays
           /\ \A d \in Dbcs : dbc[d] = "manual" /\ dbc' = [dbc EXCEPT ![d] = "tx"]
                 => DbcStays
  <1>0. dbc \in [Dbcs -> DbcStates] /\ \A h \in Stmts : handle[h] \in Dbcs \cup {Null}
    BY Numbers DEF Sane, TypeOK, DbcStates
  <1> USE DEF DbcStays, Connected
  <1>1. UNCHANGED dbc => DbcStays
    OBVIOUS
  <1>2. ASSUME NEW d \in Dbcs \cup {Null}, NEW on, Autocommit(d, on) PROVE DbcStays
    BY <1>0, <1>2 DEF Autocommit
  <1>7. ASSUME NEW d \in Dbcs \cup {Null}, EndsTran(d) PROVE DbcStays
    BY <1>0, <1>1, <1>2, <1>7 DEF EndsTran
  <1>3. ASSUME NEW d \in Dbcs \cup {Null}, AllocDbc(d) PROVE DbcStays
    BY <1>0, <1>3 DEF AllocDbc
  <1>4. ASSUME NEW d \in Dbcs \cup {Null}, NEW ok \in MayConnect(d), Connects(d, ok)
        PROVE  DbcStays
    BY <1>0, <1>4 DEF MayConnect, Connects
  <1>5. ASSUME NEW d \in Dbcs, dbc[d] = "manual", dbc' = [dbc EXCEPT ![d] = "tx"]
        PROVE  DbcStays
    BY <1>0, <1>5
  <1>6. ASSUME NEW h \in Stmts \cup {Null}, dbc' \in Touched(h) PROVE DbcStays
    BY <1>0, <1>1, <1>5, <1>6 DEF Touched, ValidStmt
  <1> QED
    BY <1>1, <1>2, <1>3, <1>4, <1>5, <1>6, <1>7

LEMMA QueuedGoesOn ==
    ASSUME Sane, NEW w \in Works, NEW op \in ConnOps \cup {"createConnection", "closeObject"},
           NEW c \in Conns \cup {Null}, NEW o \in Objs \cup {Null},
           NEW h \in Stmts \cup {Null}, Queues(w, op, c, o, h),
           op \in ConnOps <=> c # Null, op = "closeObject" <=> o # Null,
           h # Null => op = "cancel", c # Null => ~BeingClosed(c)
    PROVE  WorkGoesOn
  <1>1. /\ work[w].op = "none" /\ work[w].conn = Null
        /\ work'[w].op = op /\ work'[w].phase = "queued" /\ work'[w].conn = c
        /\ work'[w].got = h
        /\ \A v \in Works : v # w => work'[v] = work[v]
    BY WorkQueued
  <1>2. NoNewNumber
    BY <1>1, NumbersAssumption, NullAssumption DEF NoNewNumber
  <1>3. ClosesGoOn
    BY <1>1 DEF ClosesGoOn, Shutting, Closed
  <1>4. OpensGoOn
    BY <1>1 DEF OpensGoOn, Opened
  <1>5. NothingComes
    BY <1>1 DEF NothingComes, Shutting, BeingClosed
  <1> QED
    BY <1>2, <1>3, <1>4, <1>5 DEF WorkGoesOn

LEMMA EndedGoesOn ==
    ASSUME Sane, NEW w \in Works, Ends(w), work[w].op # "close"
    PROVE  WorkGoesOn
  <1>1. /\ work'[w].op = "none" /\ work'[w].conn = Null /\ work'[w].got = Null
        /\ work'[w].phase = "idle"
        /\ \A v \in Works : v # w => work'[v] = work[v]
    BY WorkEnded DEF NoWork
  <1> QED
    BY <1>1, NullAssumption
       DEF WorkGoesOn, NoNewNumber, ClosesGoOn, OpensGoOn, NothingComes, Shutting,
           Closed, Opened

LEMMA MovedGoesOn ==
    ASSUME Sane, NEW w \in Works,
           work[w].op \notin {"close", "open", "createConnection"},
           work'[w].got \notin Dbcs,
           \A v \in Works :
                 /\ work'[v].op = work[v].op /\ work'[v].conn = work[v].conn
                 /\ v # w => work'[v] = work[v]
    PROVE  WorkGoesOn
  BY DEF WorkGoesOn, NoNewNumber, ClosesGoOn, OpensGoOn, NothingComes, Shutting,
         Closed, Opened

LEMMA SameGoesOn == ASSUME UNCHANGED work PROVE WorkGoesOn
  BY DEF WorkGoesOn, NoNewNumber, ClosesGoOn, OpensGoOn, NothingComes, Shutting,
         Closed, Opened

LEMMA GotsStay ==
    ASSUME Sane, Owned, DbcStays, NoNewNumber
    PROVE  GotCareful
  BY DEF Owned, OnlyWork, DbcStays, NoNewNumber, GotCareful

LEMMA ConnStays ==
    ASSUME Sane, NEW c \in Conns, DbcStays, conn'[c].dbc = conn[c].dbc,
           conn'[c].connected => conn[c].connected
    PROVE  Stays(c)
  <1>1. conn[c].dbc \in Dbcs \cup {Null}
    BY Numbers
  <1> QED
    BY <1>1 DEF Stays, DbcStays, IsOpen, Connected

LEMMA OrdinaryStep ==
    ASSUME ConnInv, RefInv', ~careless' => ~careless,
           ~careless' => DbcStays /\ SameNumbers /\ WorkGoesOn
    PROVE  ConnInv'
  <1> SUFFICES ASSUME ~careless' PROVE Careful'
    BY DEF ConnInv
  <1>1. Sane /\ Sane' /\ Careful
    BY DEF ConnInv, RefInv
  <1>2. ConnsCareful
    BY <1>1, ConnStays DEF SameNumbers, ConnsCareful
  <1>3. GotCareful
    BY <1>1, GotsStay DEF Careful, WorkGoesOn
  <1> QED
    BY <1>1, <1>2, <1>3, CarefulStays DEF WorkGoesOn

LEMMA CarelessSays ==
    ASSUME Sane, NEW b, Careless(b)
    PROVE  ~careless' => ~careless /\ ~b
  BY DEF Careless

(* The changes of a connection object that leave number and state alone. *)
LEMMA NumbersSame ==
    ASSUME Sane
    PROVE  /\ UNCHANGED conn => SameNumbers
           /\ \A c \in Conns : conn' = [conn EXCEPT ![c].refs = @ + 1] => SameNumbers
           /\ \A c \in Conns : conn' = [conn EXCEPT ![c].refs = @ - 1] => SameNumbers
           /\ \A c \in Conns : conn' = [conn EXCEPT ![c].held = FALSE] => SameNumbers
           /\ \A w \in Works : work[w].op \in ConnOps /\ Unref(w) => SameNumbers
  <1>0. conn \in [Conns -> ConnRecords]
    BY DEF Sane, TypeOK
  <1> USE DEF SameNumbers, ConnRecords
  <1>1. UNCHANGED conn => SameNumbers
    OBVIOUS
  <1>2. ASSUME NEW c \in Conns, conn' = [conn EXCEPT ![c].refs = @ + 1]
        PROVE  SameNumbers
    BY <1>0, <1>2
  <1>3. ASSUME NEW c \in Conns, conn' = [conn EXCEPT ![c].refs = @ - 1]
        PROVE  SameNumbers
    BY <1>0, <1>3
  <1>4. ASSUME NEW c \in Conns, conn' = [conn EXCEPT ![c].held = FALSE]
        PROVE  SameNumbers
    BY <1>0, <1>4
  <1>5. ASSUME NEW w \in Works, work[w].op \in ConnOps, Unref(w) PROVE SameNumbers
    <2>1. PICK c \in Conns : c = work[w].conn
      BY <1>5, Shapes
    <2> QED
      BY <1>3, <1>5, <2>1 DEF Unref
  <1> QED
    BY <1>1, <1>2, <1>3, <1>4, <1>5

LEMMA CarefulCalls ==
    ASSUME ConnInv, RefInv',
           \/ \E w \in Works : CreateConnection(w)
           \/ \E w \in Works, c \in Conns : ApplicationStep(w, c)
           \/ \E o \in Objs : Objects(o)
           \/ \E o \in Objs : CollectObject(o)
           \/ Forget
    PROVE  ConnInv'
  <1>0. Sane /\ Sane'
    BY DEF ConnInv, RefInv
  <1>1. ASSUME NEW w \in Works, CreateConnection(w) PROVE ConnInv'
    <2>1. WorkGoesOn
      BY <1>0, <1>1, QueuedGoesOn DEF CreateConnection, ConnOps
    <2> QED
      BY <1>0, <1>1, <2>1, DriverStays, NumbersSame, OrdinaryStep DEF CreateConnection
  <1>2. ASSUME NEW w \in Works, NEW c \in Conns, ApplicationStep(w, c) PROVE ConnInv'
    <2>0. c # Null
      BY NullAssumption
    <2>1. ASSUME NEW op \in RefOps, NEW h \in Stmts \cup {Null},
                 op # "cancel" => h = Null, QueuesWithRef(w, op, c, h)
          PROVE  ConnInv'
      <3>1. ASSUME ~BeingClosed(c) PROVE WorkGoesOn
        BY <1>0, <2>0, <2>1, <3>1, QueuedGoesOn DEF QueuesWithRef, RefOps, ConnOps
      <3> QED
        BY <1>0, <2>1, <3>1, CarelessSays, DriverStays, NumbersSame, OrdinaryStep
           DEF QueuesWithRef
    <2>2. ASSUME NEW o \in Objs, Cancel(w, c, o) PROVE ConnInv'
      BY <1>0, <2>1, <2>2, Numbers DEF Cancel, RefOps, ConnOps
    <2>3. ASSUME NEW op \in {"begin", "end"}, CallsWithoutRef(w, c, op) PROVE ConnInv'
      <3>1. ASSUME ~BeingClosed(c) PROVE WorkGoesOn
        BY <1>0, <2>0, <2>3, <3>1, QueuedGoesOn DEF CallsWithoutRef, ConnOps
      <3> QED
        BY <1>0, <2>3, <3>1, CarelessSays, DriverStays, NumbersSame, OrdinaryStep
           DEF CallsWithoutRef
    <2> QED
      BY <1>2, <2>1, <2>2, <2>3 DEF ApplicationStep
  <1>3. ASSUME NEW o \in Objs, Objects(o) PROVE ConnInv'
    <2>1. ASSUME NEW w \in Works, CloseObject(w, o) PROVE ConnInv'
      <3>1. WorkGoesOn
        BY <1>0, <2>1, QueuedGoesOn, NullAssumption DEF CloseObject, ConnOps
      <3> QED
        BY <1>0, <2>1, <3>1, DriverStays, NumbersSame, OrdinaryStep DEF CloseObject
    <2>2. ASSUME NEW p \in Objs, Execute(o, p) PROVE ConnInv'
      BY <1>0, <2>2, CarelessSays, Numbers, DriverStays, NumbersSame, SameGoesOn,
         OrdinaryStep DEF Execute
    <2>3. CASE CloseObjectSync(o)
      <3>1. ~careless' => ~careless
        BY <1>0, <2>3, CarelessSays DEF CloseObjectSync
      <3> QED
        BY <1>0, <2>3, <3>1, DriverStays, NumbersSame, SameGoesOn, OrdinaryStep
           DEF CloseObjectSync
    <2> QED
      BY <1>3, <2>1, <2>2, <2>3 DEF Objects
  <1>4. ASSUME NEW o \in Objs, CollectObject(o) PROVE ConnInv'
    <2>1. ~careless' => ~careless
      BY <1>0, <1>4, CarelessSays DEF CollectObject
    <2> QED
      BY <1>0, <1>4, <2>1, DriverStays, NumbersSame, SameGoesOn, OrdinaryStep
         DEF CollectObject
  <1>5. CASE Forget
    BY <1>0, <1>5, DriverStays, NumbersSame, SameGoesOn, OrdinaryStep DEF Forget
  <1> QED
    BY <1>1, <1>2, <1>3, <1>4, <1>5

(* A connection object that nobody refers to gets a number, or loses it. *)
LEMMA FreshStays ==
    ASSUME Sane, Sane', Careful, NEW c \in Conns, Fresh(c),
           \A e \in Conns : e # c =>
              /\ conn'[e].dbc = conn[e].dbc /\ conn'[e].connected = conn[e].connected
              /\ conn[e].dbc # Null /\ dbc[conn[e].dbc] # "free" =>
                    dbc'[conn[e].dbc] # "free"
              /\ Connected(conn[e].dbc) => Connected(conn[e].dbc)',
           GotCareful, ClosesGoOn, OpensGoOn, NothingComes
    PROVE  Careful'
  <1>1. \A e \in Conns : conn[e].dbc \in Dbcs \cup {Null}
    BY Numbers
  <1>2. \A e \in Conns : e # c => Stays(e)
    BY <1>1 DEF Stays, IsOpen, Connected
  <1>3. ConnsCareful
    BY <1>2 DEF ConnsCareful
  <1> QED
    BY <1>3, CarefulStays

(* The JavaScript thread frees the number of an object. *)
LEMMA ConnFreed ==
    ASSUME Sane, Sane', NEW c \in Conns, Free(conn[c].dbc),
           conn'[c].dbc = Null, ~conn'[c].connected,
           \A e \in Conns : e # c => conn'[e] = conn[e],
           UNCHANGED work, Careful, ~ConnInUse(c, Null)
    PROVE  Careful'
  <1>0. /\ \A e \in Conns : conn[e].dbc \in Dbcs \cup {Null}
        /\ dbc \in [Dbcs -> DbcStates]
    BY Numbers DEF Sane, TypeOK, DbcStates
  <1>1. \A v \in Works : work[v].conn # c
    BY NullAssumption DEF ConnInUse
  <1>2. Fresh(c)
    BY <1>1 DEF Fresh, OnlyConn, Opened
  <1>3. \A d \in Dbcs : d # conn[c].dbc => dbc'[d] = dbc[d]
    BY <1>0 DEF Free, FreedDbc
  <1>4. \A e \in Conns : e # c /\ conn[e].dbc # Null => conn[e].dbc # conn[c].dbc
    BY DEF Careful, Owned, OnlyConn
  <1>5. GotCareful
    <2> SUFFICES ASSUME NEW v \in Works, work[v].got \in Dbcs
                 PROVE  dbc'[work[v].got] # "free"
      BY DEF GotCareful
    <2>1. dbc[work[v].got] # "free" /\ conn[c].dbc # work[v].got
      BY DEF Careful, Owned, OnlyWork
    <2> QED
      BY <1>3, <2>1
  <1>6. ClosesGoOn /\ OpensGoOn /\ NothingComes
    BY SameGoesOn DEF WorkGoesOn
  <1>7. \A e \in Conns : e # c =>
              /\ conn'[e].dbc = conn[e].dbc /\ conn'[e].connected = conn[e].connected
              /\ conn[e].dbc # Null /\ dbc[conn[e].dbc] # "free" =>
                    dbc'[conn[e].dbc] # "free"
              /\ Connected(conn[e].dbc) => Connected(conn[e].dbc)'
    BY <1>0, <1>3, <1>4 DEF Connected
  <1> QED
    BY <1>2, <1>5, <1>6, <1>7, FreshStays

LEMMA CarefulSync ==
    ASSUME ConnInv, RefInv', NEW c \in Conns, SyncStep(c)
    PROVE  ConnInv'
  <1>0. /\ Sane /\ Sane' /\ conn[c].dbc \in Dbcs \cup {Null}
        /\ conn \in [Conns -> ConnRecords] /\ dbc \in [Dbcs -> DbcStates]
    BY Numbers DEF ConnInv, RefInv, Sane, TypeOK, DbcStates
  <1>1. CASE CreateConnectionSync(c)
    <2> SUFFICES ASSUME ~careless' PROVE Careful'
      BY <1>1 DEF ConnInv
    <2>0. Careful /\ UNCHANGED work
      BY <1>1 DEF ConnInv, CreateConnectionSync
    <2>1. PICK d \in Dbcs \cup {Null} : AllocDbc(d) /\ NewConn(c, d)
      BY <1>1 DEF CreateConnectionSync
    <2>2. /\ conn'[c].dbc = d /\ ~conn'[c].connected /\ ~conn[c].there
          /\ \A e \in Conns : e # c => conn'[e] = conn[e]
      BY <1>0, <2>1 DEF NewConn
    <2>3. DbcStays
      BY <1>0, <2>1, DriverStays
    <2>4. OnlyConn(c)'
      <3>1. ASSUME d # Null PROVE dbc[d] = "free" /\ dbc'[d] = "allocated"
        BY <1>0, <2>1, <3>1 DEF AllocDbc
      <3>2. ASSUME d # Null, NEW e \in Conns, e # c PROVE conn[e].dbc # d
        BY <2>0, <3>1, <3>2 DEF Careful, Owned, OnlyConn
      <3>3. ASSUME d # Null, NEW v \in Works PROVE work[v].got # d
        BY <2>0, <3>1, <3>3 DEF Careful, Owned, OnlyWork
      <3> QED
        BY <2>0, <2>2, <3>1, <3>2, <3>3 DEF OnlyConn
    <2>5. \A v \in Works : Opened(v) => work[v].conn # c
      <3> SUFFICES ASSUME NEW v \in Works, Opened(v), work[v].conn = c PROVE FALSE
        OBVIOUS
      <3>1. IsFiniteSet(RefWorks(c)) /\ v \in RefWorks(c)
        BY WorksAssumption, FS_Subset DEF RefWorks, Opened, RefOps, ConnOps
      <3>2. conn[c].refs # 0
        BY <3>1, FS_EmptySet DEF ConnInv, RefInv
      <3> QED
        BY <2>2, <3>2 DEF ConnInv, RefInv, Referred
    <2>6. Fresh(c)
      BY <2>0, <2>2, <2>4, <2>5 DEF Fresh, Opened
    <2>7. WorkGoesOn /\ GotCareful
      BY <1>0, <2>0, <2>3, SameGoesOn, GotsStay DEF Careful, WorkGoesOn
    <2>8. \A e \in Conns : conn[e].dbc \in Dbcs \cup {Null}
      BY <1>0, Numbers
    <2> QED
      BY <1>0, <2>0, <2>2, <2>3, <2>6, <2>7, <2>8, FreshStays
         DEF WorkGoesOn, DbcStays, Connected
  <1>2. CASE OpenSync(c)
    <2> SUFFICES ASSUME ~careless' PROVE Careful'
      BY <1>2 DEF ConnInv, OpenSync
    <2>0. Careful /\ UNCHANGED work /\ ~BeingClosed(c)
      BY <1>0, <1>2, CarelessSays DEF ConnInv, OpenSync
    <2>1. PICK ok \in MayConnect(conn[c].dbc) :
             /\ Connects(conn[c].dbc, ok)
             /\ conn' = [conn EXCEPT ![c].connected = @ \/ ok]
      BY <1>2 DEF OpenSync
    <2>2. PICK x : x = (conn[c].connected \/ ok)
      OBVIOUS
    <2>3. conn' = [conn EXCEPT ![c].connected = x]
      BY <2>1, <2>2
    <2>4. /\ conn'[c].dbc = conn[c].dbc /\ conn'[c].connected = x
          /\ \A e \in Conns : e # c => conn'[e] = conn[e]
      BY <1>0, <2>3 DEF ConnRecords
    <2>5. DbcStays
      BY <1>0, <2>1, DriverStays
    <2>6. ok => Connected(conn[c].dbc)'
      BY <1>0, <2>1, <2>4 DEF Connects, MayConnect, Connected
    <2>7. Stays(c)
      <3>1. \A v \in Works : Closed(v)' => work'[v].conn # c
        BY <2>0 DEF Closed, BeingClosed
      <3> QED
        BY <1>0, <2>2, <2>4, <2>5, <2>6, <3>1
           DEF Stays, DbcStays, IsOpen, Connected
    <2>8. ConnsCareful
      BY <1>0, <2>4, <2>5, <2>7, ConnStays DEF ConnsCareful
    <2>9. WorkGoesOn /\ GotCareful
      BY <1>0, <2>0, <2>5, SameGoesOn, GotsStay DEF Careful, WorkGoesOn
    <2> QED
      BY <1>0, <2>0, <2>8, <2>9, CarefulStays DEF WorkGoesOn
  <1>3. CASE CloseSync(c)
    <2>0. /\ conn'[c].dbc = Null /\ ~conn'[c].connected
          /\ \A e \in Conns : e # c => conn'[e] = conn[e]
      BY <1>0, <1>3 DEF CloseSync, ConnRecords
    <2> SUFFICES ASSUME ~careless' PROVE Careful'
      BY <1>3 DEF ConnInv, CloseSync
    <2>1. Careful /\ UNCHANGED work /\ ~ConnInUse(c, Null) /\ Free(conn[c].dbc)
      BY <1>0, <1>3, CarelessSays DEF ConnInv, CloseSync
    <2> QED
      BY <1>0, <2>0, <2>1, ConnFreed
  <1>4. CASE FreesDbcOnly(c)
    <2>1. CASE Careless(TRUE)
      BY <2>1 DEF Careless, ConnInv
    <2>2. CASE UNCHANGED <<dbc, handle, careless>>
      BY <1>0, <1>4, <2>2, DriverStays, NumbersSame, SameGoesOn, OrdinaryStep
         DEF FreesDbcOnly
    <2> QED
      BY <1>4, <2>1, <2>2 DEF FreesDbcOnly
  <1>5. CASE SetAttrSync(c)
    <2>1. DbcStays
      BY <1>0, <1>5, DriverStays DEF SetAttrSync
    <2> QED
      BY <1>0, <1>5, <2>1, CarelessSays, NumbersSame, SameGoesOn, OrdinaryStep
         DEF SetAttrSync
  <1>6. ASSUME NEW o \in Objs, CreateStatementSync(c, o) PROVE ConnInv'
    BY <1>0, <1>6, CarelessSays, DriverStays, NumbersSame, SameGoesOn, OrdinaryStep
       DEF CreateStatementSync
  <1>7. ASSUME NEW o \in Objs, QueriesSync(c, o) PROVE ConnInv'
    <2>1. DbcStays
      BY <1>0, <1>7, DriverStays DEF QueriesSync
    <2> QED
      BY <1>0, <1>7, <2>1, CarelessSays, NumbersSame, SameGoesOn, OrdinaryStep
         DEF QueriesSync
  <1> QED
    BY <1>1, <1>2, <1>3, <1>4, <1>5, <1>6, <1>7 DEF SyncStep

LEMMA CarefulCollected ==
    ASSUME ConnInv, RefInv', NEW c \in Conns, CollectConnection(c)
    PROVE  ConnInv'
  <1>0. Sane /\ Sane' /\ conn \in [Conns -> ConnRecords]
    BY DEF ConnInv, RefInv, Sane, TypeOK
  <1> SUFFICES ASSUME ~careless' PROVE Careful'
    BY DEF ConnInv
  <1>1. /\ conn'[c].dbc = Null /\ ~conn'[c].connected
        /\ \A e \in Conns : e # c => conn'[e] = conn[e]
    BY <1>0 DEF CollectConnection, NoConn
  <1>2. Careful /\ UNCHANGED work /\ ~ConnInUse(c, Null) /\ Free(conn[c].dbc)
    BY <1>0, CarelessSays DEF ConnInv, CollectConnection
  <1> QED
    BY <1>0, <1>1, <1>2, ConnFreed

LEMMA CarefulWorker ==
    ASSUME ConnInv, RefInv', NEW w \in Works, WorkerStep(w)
    PROVE  ConnInv'
  <1>0. /\ Sane /\ Sane' /\ conn \in [Conns -> ConnRecords]
        /\ dbc \in [Dbcs -> DbcStates] /\ work' \in [Works -> WorkRecords]
        /\ \A e \in Conns : conn[e].dbc \in Dbcs \cup {Null}
    BY Numbers DEF ConnInv, RefInv, Sane, TypeOK, DbcStates
  <1>w. \A v \in Works :
           /\ work'[v].op = work[v].op /\ work'[v].conn = work[v].conn
           /\ v # w => work'[v] = work[v]
    BY <1>0, WorkerWork
  <1>d. work[w].op \in ConnOps =>
           work[w].conn \in Conns /\ Dbc(w) \in Dbcs \cup {Null}
    BY <1>0, Shapes, Numbers
  <1>g. work'[w].op # "createConnection" => work'[w].got \notin Dbcs
    <2>1. WorkShape(work[w])'
      BY <1>0 DEF Sane, Shaped
    <2> QED
      BY <2>1 DEF WorkShape
  <1>1. ASSUME work[w].op \notin {"close", "open", "createConnection"},
               DbcStays, UNCHANGED conn, ~careless' => ~careless
        PROVE  ConnInv'
    BY <1>0, <1>1, <1>w, <1>g, MovedGoesOn, NumbersSame, OrdinaryStep
  <1>2. CASE UV_CreateConnection(w)
    <2> SUFFICES ASSUME ~careless' PROVE Careful'
      BY <1>2 DEF ConnInv, UV_CreateConnection
    <2>0. Careful /\ UNCHANGED conn
      BY <1>2 DEF ConnInv, UV_CreateConnection
    <2>1. PICK d \in Dbcs \cup {Null} :
             /\ AllocDbc(d)
             /\ work' = [work EXCEPT ![w].phase = "done", ![w].got = d]
      BY <1>2 DEF UV_CreateConnection
    <2>2. work'[w].got = d /\ work'[w].phase = "done" /\ work[w].op = "createConnection"
      BY <1>0, <1>2, <2>1 DEF UV_CreateConnection, At, Sane, TypeOK, WorkRecords
    <2>3. DbcStays
      BY <1>0, <2>1, DriverStays
    <2>4. OnlyWork(w)'
      <3>1. ASSUME d # Null PROVE dbc[d] = "free" /\ dbc'[d] = "allocated"
        BY <1>0, <2>1, <3>1 DEF AllocDbc
      <3>2. ASSUME d # Null, NEW e \in Conns PROVE conn[e].dbc # d
        BY <2>0, <3>1, <3>2 DEF Careful, Owned, OnlyConn
      <3>3. ASSUME d # Null, NEW v \in Works PROVE work[v].got # d
        BY <2>0, <3>1, <3>3 DEF Careful, Owned, OnlyWork
      <3> QED
        BY <1>w, <2>0, <2>2, <3>1, <3>2, <3>3, NullAssumption DEF OnlyWork
    <2>5. GotCareful
      <3> SUFFICES ASSUME NEW v \in Works, v # w, work'[v].got \in Dbcs
                   PROVE  work'[v].got = work[v].got /\ dbc'[work[v].got] # "free"
        BY <2>4 DEF GotCareful
      <3> QED
        BY <1>w, <2>0, <2>3 DEF Careful, Owned, OnlyWork, DbcStays
    <2>6. ClosesGoOn /\ OpensGoOn /\ NothingComes
      BY <1>w, <2>2 DEF ClosesGoOn, OpensGoOn, NothingComes, Shutting, Closed, Opened
    <2>7. ConnsCareful
      BY <1>0, <2>0, <2>3, ConnStays DEF ConnsCareful
    <2> QED
      BY <1>0, <2>0, <2>5, <2>6, <2>7, CarefulStays
  <1>3. CASE UV_Open(w)
    <2> SUFFICES ASSUME ~careless' PROVE Careful'
      BY <1>3 DEF ConnInv, UV_Open
    <2>0. /\ Careful /\ UNCHANGED conn /\ work[w].op = "open"
          /\ Dbc(w) \in Dbcs \cup {Null}
      BY <1>3, <1>d DEF ConnInv, UV_Open, At, ConnOps
    <2>1. PICK ok \in MayConnect(Dbc(w)) : Connects(Dbc(w), ok) /\ Done(w, ok)
      BY <1>3 DEF UV_Open
    <2>2. DbcStays
      BY <1>0, <2>0, <2>1, DriverStays
    <2>3. work'[w].ok = ok
      BY <1>0, <2>1 DEF Done, Sane, TypeOK, WorkRecords
    <2>4. ok => Connected(Dbc(w))'
      BY <1>0, <1>w, <2>0, <2>1 DEF Connects, MayConnect, Connected, Dbc
    <2>5. OpensGoOn
      BY <1>w, <2>3, <2>4 DEF OpensGoOn, Opened
    <2>6. ClosesGoOn /\ NothingComes
      BY <1>w, <2>0 DEF ClosesGoOn, NothingComes, Shutting, Closed
    <2>7. NoNewNumber
      BY <1>w, <1>g, <2>0 DEF NoNewNumber
    <2>8. ConnsCareful
      BY <1>0, <2>0, <2>2, ConnStays DEF ConnsCareful
    <2> QED
      BY <1>0, <2>0, <2>2, <2>5, <2>6, <2>7, <2>8, GotsStay, CarefulStays DEF Careful
  <1>4. CASE UV_CloseDisconnects(w)
    <2> SUFFICES ASSUME ~careless' PROVE Careful'
      BY <1>4 DEF ConnInv
    <2>0. /\ Careful /\ UNCHANGED conn /\ ~ConnInUse(work[w].conn, w)
          /\ work[w].op = "close" /\ work[w].phase = "queued"
          /\ work[w].conn \in Conns /\ Dbc(w) \in Dbcs \cup {Null}
      BY <1>0, <1>4, <1>d, CarelessSays DEF ConnInv, UV_CloseDisconnects, At, ConnOps
    <2>1. work'[w].phase = "between"
      BY <1>0, <1>4 DEF UV_CloseDisconnects, Sane, TypeOK, WorkRecords
    <2>2. \A d \in Dbcs : dbc[d] # "free" => dbc'[d] # "free"
      BY <1>0, <1>4 DEF UV_CloseDisconnects, Disconnects
    <2>3. \A d \in Dbcs : d # Dbc(w) => dbc'[d] = dbc[d]
      BY <1>0, <1>4 DEF UV_CloseDisconnects, Disconnects
    <2>4. \A e : e = work[w].conn => BeingClosed(e)'
      BY <1>w, <2>0 DEF BeingClosed
    <2>5. \A e \in Conns : conn[e].dbc # Null /\ e # work[w].conn =>
             conn[e].dbc # Dbc(w)
      BY <2>0 DEF Careful, Owned, OnlyConn, Dbc
    <2>6. ConnsCareful
      <3> SUFFICES ASSUME NEW e \in Conns PROVE Stays(e)
        BY DEF ConnsCareful
      <3>1. Connected(conn[e].dbc) => IsOpen(e)'
        <4>1. CASE e = work[w].conn
          BY <2>4, <4>1 DEF IsOpen
        <4>2. CASE e # work[w].conn
          BY <1>0, <2>0, <2>3, <2>5, <4>2 DEF IsOpen, Connected
        <4> QED
          BY <4>1, <4>2
      <3> QED
        BY <1>0, <2>0, <2>2, <3>1 DEF Stays
    <2>7. ClosesGoOn
      BY <1>w, <2>0, <2>1 DEF ClosesGoOn, Shutting, Closed, ConnInUse
    <2>8. OpensGoOn /\ NothingComes
      BY <1>w, <2>0 DEF OpensGoOn, NothingComes, Opened
    <2>9. GotCareful
      BY <1>w, <1>g, <2>0, <2>2 DEF GotCareful, Careful, Owned, OnlyWork
    <2> QED
      BY <1>0, <2>0, <2>6, <2>7, <2>8, <2>9, CarefulStays
  <1>5. CASE UV_Close(w)
    <2> SUFFICES ASSUME ~careless' PROVE Careful'
      BY <1>5 DEF ConnInv
    <2>0. /\ Careful /\ work[w].op = "close" /\ work[w].phase = "between"
          /\ work[w].conn \in Conns /\ Dbc(w) \in Dbcs \cup {Null}
      BY <1>0, <1>5, <1>d DEF ConnInv, UV_Close, At, ConnOps
    <2>1. PICK c \in Conns : c = work[w].conn
      BY <2>0
    <2>2. conn' = [conn EXCEPT ![c].dbc = Null, ![c].connected = FALSE]
      BY <1>5, <2>1 DEF UV_Close
    <2>3. /\ conn'[c].dbc = Null /\ ~conn'[c].connected
          /\ \A e \in Conns : e # c => conn'[e] = conn[e]
      BY <1>0, <2>2 DEF ConnRecords
    <2>4. \A u \in Works : u # w => work[u].conn # c
      BY <2>0, <2>1 DEF Careful, ClosesAlone, Shutting
    <2>5. Fresh(c)
      BY <1>w, <2>0, <2>3, <2>4 DEF Fresh, OnlyConn, Opened
    <2>6. \A d \in Dbcs : d # conn[c].dbc => dbc'[d] = dbc[d]
      BY <1>0, <1>5, <2>1 DEF UV_Close, FreedDbc, Dbc
    <2>7. \A e \in Conns : e # c /\ conn[e].dbc # Null => conn[e].dbc # conn[c].dbc
      BY <2>0 DEF Careful, Owned, OnlyConn
    <2>8. \A e \in Conns : e # c =>
              /\ conn'[e].dbc = conn[e].dbc /\ conn'[e].connected = conn[e].connected
              /\ conn[e].dbc # Null /\ dbc[conn[e].dbc] # "free" =>
                    dbc'[conn[e].dbc] # "free"
              /\ Connected(conn[e].dbc) => Connected(conn[e].dbc)'
      BY <1>0, <2>3, <2>6, <2>7 DEF Connected
    <2>9. ClosesGoOn
      BY <1>w, <2>0, <2>1, <2>5 DEF ClosesGoOn, Shutting, Closed
    <2>10. OpensGoOn /\ NothingComes
      BY <1>w, <2>0 DEF OpensGoOn, NothingComes, Opened
    <2>11. GotCareful
      <3> SUFFICES ASSUME NEW v \in Works, work'[v].got \in Dbcs
                   PROVE  work'[v].got = work[v].got /\ dbc'[work[v].got] # "free"
        BY DEF GotCareful
      <3>1. v # w /\ work'[v].got = work[v].got
        BY <1>w, <1>g, <2>0
      <3>2. dbc[work[v].got] # "free" /\ conn[c].dbc # work[v].got
        BY <2>0, <3>1 DEF Careful, Owned, OnlyWork
      <3> QED
        BY <2>6, <3>1, <3>2
    <2> QED
      BY <1>0, <2>0, <2>5, <2>8, <2>9, <2>10, <2>11, FreshStays
  <1>6. CASE UV_CloseFrees(w)
    <2>1. ~careless' => ~careless
      BY <1>0, <1>6, CarelessSays DEF UV_CloseFrees
    <2> QED
      BY <1>0, <1>1, <1>6, <2>1, DriverStays DEF UV_CloseFrees, At
  <1>7. CASE UV_CloseForgets(w) \/ Plain(w)
    BY <1>0, <1>1, <1>7, DriverStays DEF UV_CloseForgets, Plain, At
  <1>8. CASE SetsAttr(w)
    <2>1. DbcStays
      BY <1>0, <1>8, <1>d, DriverStays DEF SetsAttr, ConnOps
    <2> QED
      BY <1>1, <1>8, <2>1 DEF SetsAttr
  <1>9. CASE ExecutesFor(w)
    <2>1. DbcStays
      BY <1>0, <1>9, Shapes, DriverStays DEF ExecutesFor, Executes
    <2> QED
      BY <1>1, <1>9, <2>1 DEF ExecutesFor, Executes
  <1>10. ASSUME NEW phase \in {"done", "between"}, AllocatesFor(w, phase)
         PROVE  ConnInv'
    BY <1>0, <1>1, <1>10, DriverStays DEF AllocatesFor, Allocates
  <1> QED
    BY <1>2, <1>3, <1>4, <1>5, <1>6, <1>7, <1>8, <1>9, <1>10 DEF WorkerStep

LEMMA CarefulHandler ==
    ASSUME ConnInv, RefInv', NEW w \in Works, HandlerStep(w)
    PROVE  ConnInv'
  <1>0. /\ Sane /\ Sane' /\ conn \in [Conns -> ConnRecords]
        /\ dbc \in [Dbcs -> DbcStates]
        /\ \A e \in Conns : conn[e].dbc \in Dbcs \cup {Null}
    BY Numbers DEF ConnInv, RefInv, Sane, TypeOK, DbcStates
  <1>d. work[w].op \in ConnOps => work[w].conn \in Conns
    BY <1>0, Shapes
  <1>e. Ends(w) => /\ work'[w].op = "none" /\ work'[w].conn = Null
                   /\ work'[w].got = Null /\ work'[w].phase = "idle"
                   /\ \A v \in Works : v # w => work'[v] = work[v]
    BY <1>0, WorkEnded DEF NoWork
  <1>1. ASSUME Ends(w), work[w].op # "close", SameNumbers, UNCHANGED <<dbc, careless>>
        PROVE  ConnInv'
    BY <1>0, <1>1, EndedGoesOn, DriverStays, OrdinaryStep
  <1>2. CASE UV_AfterCreateConnection(w)
    <2>1. Ends(w) /\ work[w].op = "createConnection" /\ UNCHANGED <<dbc, careless>>
      BY <1>2 DEF UV_AfterCreateConnection, At
    <2>2. CASE UNCHANGED conn
      BY <1>0, <1>1, <2>1, <2>2, NumbersSame
    <2>3. CASE work[w].got # Null /\ \E c \in Conns : NewConn(c, work[w].got)
      <3> SUFFICES ASSUME ~careless' PROVE Careful'
        BY DEF ConnInv
      <3>0. Careful
        BY <2>1 DEF ConnInv
      <3>1. PICK c \in Conns : NewConn(c, work[w].got)
        BY <2>3
      <3>2. work[w].got \in Dbcs
        BY <1>0, <2>1, <2>3, Shapes DEF WorkShape
      <3>3. /\ conn'[c].dbc = work[w].got /\ ~conn'[c].connected /\ ~conn[c].there
            /\ \A e \in Conns : e # c => conn'[e] = conn[e]
        BY <1>0, <3>1 DEF NewConn
      <3>4. OnlyConn(c)'
        BY <1>e, <2>1, <3>0, <3>2, <3>3, NullAssumption
           DEF OnlyConn, Careful, Owned, OnlyWork
      <3>5. \A v \in Works : Opened(v) => work[v].conn # c
        <4> SUFFICES ASSUME NEW v \in Works, Opened(v), work[v].conn = c PROVE FALSE
          OBVIOUS
        <4>1. IsFiniteSet(RefWorks(c)) /\ v \in RefWorks(c)
          BY WorksAssumption, FS_Subset DEF RefWorks, Opened, RefOps, ConnOps
        <4>2. conn[c].refs # 0
          BY <4>1, FS_EmptySet DEF ConnInv, RefInv
        <4> QED
          BY <3>3, <4>2 DEF ConnInv, RefInv, Referred
      <3>6. Fresh(c)
        BY <1>e, <2>1, <3>3, <3>4, <3>5 DEF Fresh, Opened
      <3>7. WorkGoesOn /\ DbcStays /\ GotCareful
        BY <1>0, <2>1, <3>0, EndedGoesOn, DriverStays, GotsStay DEF WorkGoesOn, Careful
      <3> QED
        BY <1>0, <2>1, <3>0, <3>3, <3>6, <3>7, FreshStays DEF WorkGoesOn, Connected
    <2> QED
      BY <1>2, <2>2, <2>3 DEF UV_AfterCreateConnection
  <1>3. CASE UV_AfterOpen(w)
    <2> SUFFICES ASSUME ~careless' PROVE Careful'
      BY DEF ConnInv
    <2>0. /\ Careful /\ Ends(w) /\ UNCHANGED <<dbc, careless>>
          /\ work[w].op = "open" /\ work[w].phase = "done" /\ work[w].op \in ConnOps
      BY <1>3 DEF ConnInv, UV_AfterOpen, At, ConnOps
    <2>1. PICK c \in Conns : c = work[w].conn
      BY <1>d, <2>0
    <2>2. PICK x : x = (conn[c].connected \/ work[w].ok)
      OBVIOUS
    <2>3. conn' = [conn EXCEPT ![c].refs = @ - 1, ![c].connected = x]
      BY <1>3, <2>1, <2>2 DEF UV_AfterOpen
    <2>4. /\ conn'[c].dbc = conn[c].dbc /\ conn'[c].connected = x
          /\ \A e \in Conns : e # c => conn'[e] = conn[e]
      BY <1>0, <2>3 DEF ConnRecords
    <2>5. WorkGoesOn /\ DbcStays /\ GotCareful
      BY <1>0, <2>0, EndedGoesOn, DriverStays, GotsStay DEF WorkGoesOn, Careful
    <2>6. \A e \in Conns : IsOpen(e) => (Connected(conn[e].dbc) \/ BeingClosed(e)')
      BY <1>e, <2>0 DEF IsOpen, BeingClosed
    <2>7. x => IsOpen(c)'
      <3>1. x => IsOpen(c)
        BY <2>0, <2>1, <2>2 DEF Careful, SaysTrue, OpenedIsTrue, Opened
      <3> QED
        BY <2>0, <2>4, <2>6, <3>1 DEF IsOpen, Connected
    <2>8. Stays(c)
      <3>1. \A v \in Works : Closed(v)' => work'[v].conn # c
        BY <1>e, <2>0, <2>1 DEF Closed, Shutting, Careful, ClosesAlone
      <3> QED
        BY <2>0, <2>2, <2>4, <2>7, <3>1 DEF Stays, IsOpen, Connected
    <2>9. ConnsCareful
      BY <1>0, <2>4, <2>5, <2>8, ConnStays DEF ConnsCareful
    <2> QED
      BY <1>0, <2>0, <2>5, <2>9, CarefulStays DEF WorkGoesOn
  <1>4. CASE Finishes(w)
    <2>1. /\ Ends(w) /\ Unref(w) /\ work[w].op \in ConnOps /\ work[w].phase = "done"
          /\ UNCHANGED <<dbc, careless>> /\ SameNumbers
      BY <1>0, <1>4, NumbersSame DEF Finishes
    <2>2. CASE work[w].op # "close"
      BY <1>1, <2>1, <2>2
    <2>3. CASE work[w].op = "close"
      <3> SUFFICES ASSUME ~careless' PROVE Careful'
        BY DEF ConnInv
      <3>0. Careful
        BY <2>1 DEF ConnInv
      <3>1. PICK c \in Conns : c = work[w].conn
        BY <1>d, <2>1
      <3>2. Fresh(c)
        <4>1. OnlyConn(c)'
          BY <1>e, <2>1, <3>0, NullAssumption
             DEF Careful, Owned, OnlyConn, SameNumbers
        <4>2. ~conn'[c].connected
          BY <2>1, <2>3, <3>0, <3>1 DEF Careful, ClosedIsShut, Closed, SameNumbers
        <4>3. \A v \in Works : Opened(v)' => work'[v].conn # c
          BY <1>e, <2>1, <2>3, <3>0, <3>1
             DEF Careful, ClosesAlone, Shutting, Opened
        <4> QED
          BY <4>1, <4>2, <4>3 DEF Fresh
      <3>3. ClosesGoOn
        BY <1>e, <2>1, <3>1, <3>2 DEF ClosesGoOn, Shutting, Closed
      <3>4. OpensGoOn /\ NothingComes
        BY <1>e, <2>1 DEF OpensGoOn, NothingComes, Opened
      <3>5. DbcStays /\ NoNewNumber
        BY <1>0, <1>e, <2>1, DriverStays, NullAssumption DEF NoNewNumber
      <3>6. GotCareful
        BY <1>0, <3>0, <3>5, GotsStay DEF Careful
      <3> QED
        BY <1>0, <2>1, <3>0, <3>2, <3>3, <3>4, <3>6, FreshStays
           DEF SameNumbers, Connected
    <2> QED
      BY <2>2, <2>3
  <1>5. CASE EndsOnly(w)
    BY <1>0, <1>1, <1>5, NumbersSame DEF EndsOnly
  <1>6. CASE Hands(w) \/ GivesBack(w)
    <2>1. work[w].op \in ConnOps /\ work[w].op # "close"
      BY <1>6 DEF Hands, GivesBack, ConnOps
    <2> QED
      BY <1>0, <1>1, <1>6, <2>1, NumbersSame DEF Hands, GivesBack
  <1>7. CASE ReportsLate(w)
    <2>1. /\ \A v \in Works :
                 /\ work'[v].op = work[v].op /\ work'[v].conn = work[v].conn
                 /\ work'[v].got = work[v].got
                 /\ v # w => work'[v] = work[v]
      BY <1>0, <1>7 DEF ReportsLate, Sane, TypeOK, WorkRecords
    <2>2. work[w].op = "typeInfo" /\ work'[w].got \notin Dbcs
      BY <1>0, <1>7, <2>1, Shapes DEF ReportsLate, WorkShape
    <2>3. WorkGoesOn
      BY <1>0, <2>1, <2>2, MovedGoesOn
    <2> QED
      BY <1>0, <1>7, <2>3, DriverStays, NumbersSame, OrdinaryStep DEF ReportsLate
  <1> QED
    BY <1>2, <1>3, <1>4, <1>5, <1>6, <1>7 DEF HandlerStep

LEMMA CarefulKept == ConnInv /\ [Next]_vars => ConnInv'
  <1> SUFFICES ASSUME ConnInv, [Next]_vars PROVE ConnInv'
    OBVIOUS
  <1>0. RefInv'
    BY RefsKept DEF ConnInv
  <1>1. CASE Next
    BY <1>0, <1>1, Steps, CarefulCalls, CarefulSync, CarefulCollected,
       CarefulWorker, CarefulHandler DEF Step
  <1>2. CASE UNCHANGED vars
    <2>1. DbcStays /\ SameNumbers /\ WorkGoesOn
      BY <1>2, DriverStays, NumbersSame, SameGoesOn DEF ConnInv, RefInv, vars
    <2> QED
      BY <1>0, <1>2, <2>1, OrdinaryStep DEF vars
  <1> QED
    BY <1>1, <1>2

LEMMA InitCareful == Init => ConnInv
  <1> SUFFICES ASSUME Init PROVE ConnInv
    OBVIOUS
  <1>1. Owned
    BY NullAssumption DEF Init, NoConn, NoWork, Owned, OnlyConn, OnlyWork
  <1>2. ClosesAlone /\ ClosedIsShut /\ OpenedIsTrue /\ SaysTrue
    BY DEF Init, NoConn, NoWork, ClosesAlone, ClosedIsShut, OpenedIsTrue, SaysTrue,
           Shutting, Closed, Opened
  <1> QED
    BY <1>1, <1>2, InitReferred DEF ConnInv, Careful

(* A connection whose connected flag is set is connected in the driver, or  *)
(* is just being closed, for an application that closes nothing in use.     *)
THEOREM ConnectedMeansConnected == Spec => []ConnectedIsTrue
  <1>1. ConnInv => ConnectedIsTrue
    BY DEF ConnInv, Careful, SaysTrue, IsOpen, ConnectedIsTrue
  <1> QED
    BY <1>1, InitCareful, CarefulKept, PTL DEF Spec

-----------------------------------------------------------------------------
(* Statement handles, for an application that is not careless. *)

(* An object whose number still counts: no worker has begun to drop it. *)
Live(o) == obj[o].h # Null /\ ~Closing(o)

(* A live object's handle is there, no other object frees it, and it is not *)
(* the handle of a piece of work that is still to hand it over;             *)
ObjOk(o) ==
    Live(o) =>
        /\ handle[obj[o].h] # Null
        /\ \A p \in Objs :
              p # o /\ Live(p) /\ obj[p].canFree /\ obj[o].canFree =>
                  obj[p].h # obj[o].h
        /\ \A v \in Works : work[v].op # "cancel" => work[v].got # obj[o].h

(* the handle of a piece of work is there too, and only cancels share one.  *)
WorkOk(v) ==
    work[v].got \in Stmts =>
        /\ handle[work[v].got] # Null
        /\ \A u \in Works : u # v /\ work[u].got = work[v].got =>
              work[u].op = "cancel" /\ work[v].op = "cancel"
        /\ work[v].op # "cancel" =>
              \A o \in Objs : Live(o) => obj[o].h # work[v].got

StmtsOk == (\A o \in Objs : ObjOk(o)) /\ (\A v \in Works : WorkOk(v))

StmtInv == Sane /\ (~careless => StmtsOk)

ObjStays(o) ==
    Live(o)' => /\ Live(o) /\ obj'[o].h = obj[o].h
                /\ obj'[o].canFree => obj[o].canFree
                /\ handle'[obj[o].h] # Null

WorkStays(v) ==
    work'[v].got \in Stmts =>
        /\ work'[v].got = work[v].got /\ work'[v].op = work[v].op
        /\ handle'[work[v].got] # Null

LEMMA StmtsStay ==
    ASSUME Sane, Sane', StmtsOk,
           \A o \in Objs : ObjStays(o) \/ ObjOk(o)',
           \A v \in Works : WorkStays(v) \/ WorkOk(v)'
    PROVE  StmtsOk'
  <1>0. \A o \in Objs : Live(o)' => obj'[o].h \in Stmts
    BY DEF Live, Sane, TypeOK, ObjRecords
  <1>1. ASSUME NEW o \in Objs, ObjStays(o) PROVE ObjOk(o)'
    <2> SUFFICES ASSUME Live(o)'
                 PROVE  /\ handle'[obj'[o].h] # Null
                        /\ \A p \in Objs :
                              p # o /\ Live(p)' /\ obj'[p].canFree /\ obj'[o].canFree =>
                                  obj'[p].h # obj'[o].h
                        /\ \A v \in Works :
                              work'[v].op # "cancel" => work'[v].got # obj'[o].h
      BY DEF ObjOk
    <2>1. /\ Live(o) /\ obj'[o].h = obj[o].h /\ handle'[obj[o].h] # Null
          /\ obj'[o].canFree => obj[o].canFree
      BY <1>1 DEF ObjStays
    <2>2. ASSUME NEW p \in Objs, p # o, Live(p)', obj'[p].canFree, obj'[o].canFree
          PROVE  obj'[p].h # obj'[o].h
      <3>1. CASE ObjStays(p)
        BY <2>1, <2>2, <3>1 DEF ObjStays, StmtsOk, ObjOk
      <3>2. CASE ObjOk(p)'
        BY <2>2, <3>2 DEF ObjOk
      <3> QED
        BY <3>1, <3>2
    <2>3. ASSUME NEW v \in Works, work'[v].op # "cancel"
          PROVE  work'[v].got # obj'[o].h
      <3>1. CASE WorkStays(v)
        BY <1>0, <2>1, <2>3, <3>1 DEF WorkStays, StmtsOk, ObjOk
      <3>2. CASE WorkOk(v)'
        BY <1>0, <2>3, <3>2 DEF WorkOk
      <3> QED
        BY <3>1, <3>2
    <2> QED
      BY <2>1, <2>2, <2>3
  <1>2. ASSUME NEW v \in Works, WorkStays(v) PROVE WorkOk(v)'
    <2> SUFFICES ASSUME work'[v].got \in Stmts
                 PROVE  /\ handle'[work'[v].got] # Null
                        /\ \A u \in Works : u # v /\ work'[u].got = work'[v].got =>
                              work'[u].op = "cancel" /\ work'[v].op = "cancel"
                        /\ work'[v].op # "cancel" =>
                              \A o \in Objs : Live(o)' => obj'[o].h # work'[v].got
      BY DEF WorkOk
    <2>1. /\ work'[v].got = work[v].got /\ work'[v].op = work[v].op
          /\ handle'[work[v].got] # Null
      BY <1>2 DEF WorkStays
    <2>2. ASSUME NEW u \in Works, u # v, work'[u].got = work'[v].got
          PROVE  work'[u].op = "cancel" /\ work'[v].op = "cancel"
      <3>1. CASE WorkStays(u)
        BY <2>1, <2>2, <3>1 DEF WorkStays, StmtsOk, WorkOk
      <3>2. CASE WorkOk(u)'
        BY <2>2, <3>2 DEF WorkOk
      <3> QED
        BY <3>1, <3>2
    <2>3. ASSUME NEW o \in Objs, Live(o)', work'[v].op # "cancel"
          PROVE  obj'[o].h # work'[v].got
      <3>1. CASE ObjStays(o)
        BY <2>1, <2>3, <3>1 DEF ObjStays, StmtsOk, WorkOk
      <3>2. CASE ObjOk(o)'
        BY <2>3, <3>2 DEF ObjOk
      <3> QED
        BY <3>1, <3>2
    <2> QED
      BY <2>1, <2>2, <2>3
  <1> QED
    BY <1>1, <1>2 DEF StmtsOk

(* The steps that free no statement handle and give out none. *)
HandlesStay == \A h \in Stmts : handle[h] # Null => handle'[h] # Null

ObjsSame ==
    \A o \in Objs : obj'[o].h = obj[o].h /\ obj'[o].canFree = obj[o].canFree

ClosingsStay == \A o \in Objs : Closing(o) => Closing(o)'

GotsSame ==
    \A v \in Works : work'[v].got \in Stmts =>
        work'[v].got = work[v].got /\ work'[v].op = work[v].op

LEMMA QuietObjs ==
    ASSUME Sane, StmtsOk, HandlesStay, ClosingsStay, NEW o \in Objs,
           obj'[o].h = obj[o].h, obj'[o].canFree = obj[o].canFree
    PROVE  ObjStays(o)
  <1>1. obj[o].h \in Stmts \cup {Null}
    BY Numbers
  <1> QED
    BY <1>1 DEF ObjStays, Live, ClosingsStay, HandlesStay, StmtsOk, ObjOk

LEMMA QuietWork ==
    ASSUME StmtsOk, HandlesStay, NEW v \in Works,
           work'[v].got \in Stmts =>
              work'[v].got = work[v].got /\ work'[v].op = work[v].op
    PROVE  WorkStays(v)
  BY DEF WorkStays, HandlesStay, StmtsOk, WorkOk

LEMMA QuietStep ==
    ASSUME StmtInv, Sane', ~careless' => ~careless,
           ~careless' => HandlesStay /\ ObjsSame /\ ClosingsStay /\ GotsSame
    PROVE  StmtInv'
  <1> SUFFICES ASSUME ~careless' PROVE StmtsOk'
    BY DEF StmtInv
  <1>1. \A o \in Objs : ObjStays(o)
    BY QuietObjs DEF StmtInv, ObjsSame
  <1>2. \A v \in Works : WorkStays(v)
    BY QuietWork DEF StmtInv, GotsSame
  <1> QED
    BY <1>1, <1>2, StmtsStay DEF StmtInv

(* Dropping goes on while other work is begun, moved or ended. *)
LEMMA DroppingGoesOn ==
    ASSUME Sane, NEW w \in Works,
           work[w].op # "closeObject" \/ work[w].phase # "between",
           \A v \in Works : v # w => work'[v] = work[v]
    PROVE  ClosingsStay
  <1>1. work[w].phase = "between" => \A o \in Objs : work[w].obj # o
    BY Shapes, NullAssumption DEF WorkShape
  <1> QED
    BY <1>1 DEF ClosingsStay, Closing

LEMMA SameQuiet ==
    ASSUME UNCHANGED work
    PROVE  ClosingsStay /\ GotsSame
  BY DEF ClosingsStay, Closing, GotsSame

LEMMA QueuedQuiet ==
    ASSUME Sane, NEW w \in Works, NEW op \in ConnOps \cup {"createConnection", "closeObject"},
           NEW c \in Conns \cup {Null}, NEW o \in Objs \cup {Null},
           Queues(w, op, c, o, Null),
           op \in ConnOps <=> c # Null, op = "closeObject" <=> o # Null
    PROVE  ClosingsStay /\ GotsSame
  <1>1. /\ work[w].op = "none" /\ work'[w].got = Null
        /\ \A v \in Works : v # w => work'[v] = work[v]
    BY WorkQueued
  <1> QED
    BY <1>1, DroppingGoesOn, NullAssumption DEF GotsSame

LEMMA EndedQuiet ==
    ASSUME Sane, NEW w \in Works, Ends(w), work[w].phase # "between"
    PROVE  ClosingsStay /\ GotsSame
  <1>1. /\ work'[w].got = Null
        /\ \A v \in Works : v # w => work'[v] = work[v]
    BY WorkEnded DEF NoWork
  <1> QED
    BY <1>1, DroppingGoesOn, NullAssumption DEF GotsSame

LEMMA FreeQuiet ==
    ASSUME NEW c \in Conns, Free(conn[c].dbc), ~ConnInUse(c, Null)
    PROVE  HandlesStay
  BY DEF Free, FreesStmts, FreedStmts, Disconnects, ConnInUse, HandlesStay

LEMMA HandlesSame == ASSUME UNCHANGED handle PROVE HandlesStay
  BY DEF HandlesStay

LEMMA ObjsUnchanged == ASSUME UNCHANGED obj PROVE ObjsSame
  BY DEF ObjsSame

(* Something is allocated: whoever gets it is the only one to have it. *)
LEMMA Allocated ==
    ASSUME Sane, StmtsOk, NEW d, NEW h \in Stmts, AllocStmt(d, h)
    PROVE  /\ HandlesStay /\ handle'[h] # Null
           /\ \A o \in Objs : Live(o) => obj[o].h # h
           /\ \A v \in Works : work[v].got # h
  <1>1. /\ Connected(d) /\ handle[h] = Null /\ handle' = [handle EXCEPT ![h] = d]
        /\ d # Null /\ handle \in [Stmts -> Dbcs \cup {Null}]
    BY NullAssumption DEF AllocStmt, Connected, Sane, TypeOK
  <1>2. HandlesStay /\ handle'[h] # Null
    BY <1>1 DEF HandlesStay
  <1> QED
    BY <1>1, <1>2 DEF StmtsOk, ObjOk, WorkOk

(* An object is made. *)
LEMMA ObjMadeIs ==
    ASSUME Sane, NEW o \in Objs, NEW type, NEW h, NEW canFree,
           NewObj(o, type, h, canFree)
    PROVE  /\ obj'[o].h = h /\ obj'[o].canFree = canFree
           /\ obj[o].type = "none"
           /\ \A p \in Objs : p # o => obj'[p] = obj[p]
  BY DEF Sane, TypeOK, NewObj

(* An object is made that is the only one with its number, or has none. *)
LEMMA NewIsOk ==
    ASSUME Sane, Sane', StmtsOk, HandlesStay, ClosingsStay, NEW o \in Objs,
           NEW type, NEW h \in Stmts \cup {Null}, NewObj(o, type, h, TRUE),
           h # Null => /\ handle'[h] # Null
                       /\ \A p \in Objs : Live(p) => obj[p].h # h
                       /\ \A v \in Works : work'[v].op # "cancel" => work'[v].got # h,
           GotsSame
    PROVE  StmtsOk'
  <1>1. /\ obj'[o].h = h /\ \A p \in Objs : p # o => obj'[p] = obj[p]
    BY ObjMadeIs
  <1>2. \A p \in Objs : p # o => ObjStays(p)
    BY <1>1, QuietObjs
  <1>3. ASSUME NEW p \in Objs, p # o, Live(p)' PROVE Live(p) /\ obj'[p].h = obj[p].h
    BY <1>2, <1>3 DEF ObjStays
  <1>4. ObjOk(o)'
    BY <1>1, <1>3 DEF ObjOk, Live
  <1>5. \A v \in Works : WorkStays(v)
    BY QuietWork DEF GotsSame
  <1> QED
    BY <1>2, <1>4, <1>5, StmtsStay

LEMMA OkCalls ==
    ASSUME StmtInv, Sane',
           \/ \E w \in Works : CreateConnection(w)
           \/ \E w \in Works, c \in Conns : ApplicationStep(w, c)
    PROVE  StmtInv'
  <1>0. Sane
    BY DEF StmtInv
  <1>1. ASSUME NEW w \in Works, CreateConnection(w) PROVE StmtInv'
    <2>1. ClosingsStay /\ GotsSame
      BY <1>0, <1>1, QueuedQuiet DEF CreateConnection, ConnOps
    <2> QED
      BY <1>1, <2>1, HandlesSame, ObjsUnchanged, QuietStep DEF CreateConnection
  <1>2. ASSUME NEW w \in Works, NEW c \in Conns, ApplicationStep(w, c) PROVE StmtInv'
    <2>0. c # Null
      BY NullAssumption
    <2>1. ASSUME NEW op \in RefOps, QueuesWithRef(w, op, c, Null) PROVE StmtInv'
      <3>1. ClosingsStay /\ GotsSame
        BY <1>0, <2>0, <2>1, QueuedQuiet DEF QueuesWithRef, RefOps, ConnOps
      <3> QED
        BY <1>0, <2>1, <3>1, CarelessSays, HandlesSame, ObjsUnchanged, QuietStep
           DEF QueuesWithRef
    <2>2. ASSUME NEW o \in Objs, Cancel(w, c, o) PROVE StmtInv'
      <3> SUFFICES ASSUME ~careless' PROVE StmtsOk'
        BY DEF StmtInv
      <3> DEFINE h == obj[o].h
      <3>1. /\ h \in Stmts /\ Queues(w, "cancel", c, Null, h)
            /\ Careless(BeingClosed(c) \/ BeingDropped(h))
            /\ UNCHANGED <<obj, dbc, handle>>
        BY <1>0, <2>2, Numbers DEF Cancel, QueuesWithRef
      <3>2. StmtsOk /\ ~BeingDropped(h)
        BY <1>0, <3>1, CarelessSays DEF StmtInv
      <3>3. /\ work[w].op = "none" /\ work'[w].got = h /\ work'[w].op = "cancel"
            /\ \A v \in Works : v # w => work'[v] = work[v]
        BY <1>0, <2>0, <3>1, WorkQueued, NullAssumption DEF ConnOps
      <3>4. Live(o)
        BY <3>1, <3>2, NullAssumption DEF Live, Closing, BeingDropped
      <3>5. HandlesStay /\ ClosingsStay
        BY <1>0, <3>1, <3>3, HandlesSame, DroppingGoesOn
      <3>6. \A p \in Objs : ObjStays(p)
        BY <1>0, <3>1, <3>2, <3>5, QuietObjs
      <3>7. \A v \in Works : v # w => WorkStays(v)
        BY <3>2, <3>3, <3>5, QuietWork
      <3>8. WorkOk(w)'
        BY <3>1, <3>2, <3>3, <3>4 DEF WorkOk, StmtsOk, ObjOk
      <3> QED
        BY <1>0, <3>2, <3>6, <3>7, <3>8, StmtsStay
    <2>3. ASSUME NEW op \in {"begin", "end"}, CallsWithoutRef(w, c, op) PROVE StmtInv'
      <3>1. ClosingsStay /\ GotsSame
        BY <1>0, <2>0, <2>3, QueuedQuiet DEF CallsWithoutRef, ConnOps
      <3> QED
        BY <1>0, <2>3, <3>1, CarelessSays, HandlesSame, ObjsUnchanged, QuietStep
           DEF CallsWithoutRef
    <2> QED
      BY <1>2, <2>1, <2>2, <2>3 DEF ApplicationStep
  <1> QED
    BY <1>1, <1>2

LEMMA OkSync ==
    ASSUME StmtInv, Sane', NEW c \in Conns, SyncStep(c)
    PROVE  StmtInv'
  <1>0. Sane
    BY DEF StmtInv
  <1>1. ASSUME UNCHANGED <<work, obj>>, ~careless' => ~careless,
               ~careless' => HandlesStay
        PROVE  StmtInv'
    BY <1>1, SameQuiet, ObjsUnchanged, QuietStep
  <1>2. CASE CreateConnectionSync(c)
    BY <1>1, <1>2, HandlesSame DEF CreateConnectionSync
  <1>3. CASE OpenSync(c)
    BY <1>0, <1>1, <1>3, HandlesSame, CarelessSays DEF OpenSync
  <1>4. CASE CloseSync(c)
    <2>1. ~careless' => ~careless /\ ~ConnInUse(c, Null)
      BY <1>0, <1>4, CarelessSays DEF CloseSync
    <2> QED
      BY <1>1, <1>4, <2>1, FreeQuiet DEF CloseSync
  <1>5. CASE FreesDbcOnly(c)
    <2>1. CASE Careless(TRUE)
      BY <2>1 DEF Careless, StmtInv
    <2>2. CASE UNCHANGED <<dbc, handle, careless>>
      BY <1>1, <1>5, <2>2, HandlesSame DEF FreesDbcOnly
    <2> QED
      BY <1>5, <2>1, <2>2 DEF FreesDbcOnly
  <1>6. CASE SetAttrSync(c)
    BY <1>0, <1>1, <1>6, HandlesSame, CarelessSays DEF SetAttrSync
  <1>7. ASSUME NEW o \in Objs, NEW type, NEW h \in Stmts \cup {Null}, ~careless',
               ~careless, AllocStmt(conn[c].dbc, h), NewObj(o, type, h, TRUE),
               UNCHANGED work
        PROVE  StmtInv'
    <2>1. StmtsOk
      BY <1>7 DEF StmtInv
    <2>2. CASE h = Null
      BY <1>0, <1>7, <2>1, <2>2, SameQuiet, HandlesSame, NewIsOk DEF AllocStmt, StmtInv
    <2>3. CASE h \in Stmts
      BY <1>0, <1>7, <2>1, <2>3, SameQuiet, Allocated, NewIsOk DEF StmtInv
    <2> QED
      BY <2>2, <2>3
  <1>8. ASSUME NEW o \in Objs, CreateStatementSync(c, o) PROVE StmtInv'
    <2> SUFFICES ASSUME ~careless' PROVE StmtInv'
      BY DEF StmtInv
    <2>1. ~careless /\ conn[c].dbc # Null
      BY <1>0, <1>8, CarelessSays DEF CreateStatementSync
    <2> QED
      BY <1>7, <1>8, <2>1 DEF CreateStatementSync, AnyNumber
  <1>9. ASSUME NEW o \in Objs, QueriesSync(c, o) PROVE StmtInv'
    <2> SUFFICES ASSUME ~careless' PROVE StmtInv'
      BY DEF StmtInv
    <2>1. ~careless /\ conn[c].dbc # Null
      BY <1>0, <1>9, CarelessSays DEF QueriesSync
    <2>2. CASE \E h \in Stmts : /\ AllocStmt(conn[c].dbc, h)
                                /\ NewObj(o, "result", h, TRUE)
      BY <1>7, <1>9, <2>1, <2>2 DEF QueriesSync
    <2>3. CASE UNCHANGED <<obj, handle>>
      BY <1>1, <1>9, <2>1, <2>3, HandlesSame DEF QueriesSync
    <2>4. CASE \E h \in Stmts : AllocStmt(conn[c].dbc, h) /\ UNCHANGED obj
      <3>1. StmtsOk
        BY <2>1 DEF StmtInv
      <3>2. HandlesStay
        BY <1>0, <2>4, <3>1, Allocated
      <3> QED
        BY <1>1, <1>9, <2>1, <2>4, <3>2 DEF QueriesSync
    <2> QED
      BY <1>9, <2>1, <2>2, <2>3, <2>4 DEF QueriesSync, AnyNumber
  <1> QED
    BY <1>2, <1>3, <1>4, <1>5, <1>6, <1>8, <1>9 DEF SyncStep

(* An object is dropped that nobody else uses. *)
LEMMA DropOk ==
    ASSUME Sane, Sane', StmtsOk, NEW o \in Objs, NEW w \in Works \cup {Null},
           \/ handle' = handle
           \/ handle' = FreedStmt(obj[o].h) /\ ~ObjInUse(o, w),
           ~Live(o)',
           \A p \in Objs : p # o => obj'[p] = obj[p] /\ (Closing(p) => Closing(p)'),
           \A v \in Works : work'[v].got \in Stmts =>
              v # w /\ work'[v].got = work[v].got /\ work'[v].op = work[v].op
    PROVE  StmtsOk'
  <1>0. \A p \in Objs : obj[p].h \in Stmts \cup {Null}
    BY Numbers
  <1>1. ASSUME NEW h \in Stmts, handle[h] # Null,
               \/ \E p \in Objs : p # o /\ obj[p].h = h
               \/ \E v \in Works : v # w /\ work[v].got = h
        PROVE  handle'[h] # Null
    <2>1. CASE handle' = handle
      BY <1>1, <2>1
    <2>2. CASE handle' = FreedStmt(obj[o].h) /\ ~ObjInUse(o, w)
      <3>1. obj[o].h # h
        BY <1>1, <2>2, NullAssumption DEF ObjInUse
      <3> QED
        BY <1>0, <1>1, <2>2, <3>1 DEF FreedStmt
    <2> QED
      BY <2>1, <2>2
  <1>2. ASSUME NEW p \in Objs PROVE ObjStays(p)
    BY <1>0, <1>1 DEF ObjStays, Live, StmtsOk, ObjOk
  <1>3. ASSUME NEW v \in Works PROVE WorkStays(v)
    BY <1>1 DEF WorkStays, StmtsOk, WorkOk
  <1> QED
    BY <1>2, <1>3, StmtsStay

LEMMA OkObjects ==
    ASSUME StmtInv, Sane', NEW o \in Objs, Objects(o) \/ CollectObject(o)
    PROVE  StmtInv'
  <1>0. Sane /\ obj \in [Objs -> ObjRecords]
    BY DEF StmtInv, Sane, TypeOK
  <1>1. ASSUME NEW w \in Works, CloseObject(w, o) PROVE StmtInv'
    <2>1. ClosingsStay /\ GotsSame
      BY <1>0, <1>1, QueuedQuiet, NullAssumption DEF CloseObject, ConnOps
    <2> QED
      BY <1>1, <2>1, HandlesSame, ObjsUnchanged, QuietStep DEF CloseObject
  <1>2. ASSUME NEW p \in Objs, Execute(o, p) PROVE StmtInv'
    <2> SUFFICES ASSUME ~careless' PROVE StmtsOk'
      BY DEF StmtInv
    <2>0. StmtsOk /\ ~BeingDropped(obj[o].h) /\ UNCHANGED <<work, handle>>
      BY <1>0, <1>2, CarelessSays DEF StmtInv, Execute
    <2>1. /\ obj'[p].h = obj[o].h /\ ~obj'[p].canFree
          /\ \A q \in Objs : q # p => obj'[q] = obj[q]
      <3>1. NewObj(p, "result", obj[o].h, FALSE)
        BY <1>2 DEF Execute
      <3> QED
        BY <1>0, <3>1 DEF NewObj
    <2>2. HandlesStay /\ ClosingsStay /\ GotsSame
      BY <2>0, HandlesSame, SameQuiet
    <2>3. \A q \in Objs : q # p => ObjStays(q)
      BY <1>0, <2>0, <2>1, <2>2, QuietObjs
    <2>4. obj[o].h # Null => Live(o)
      BY <2>0, NullAssumption DEF Live, Closing, BeingDropped
    <2>5. ObjOk(p)'
      BY <2>0, <2>1, <2>4 DEF ObjOk, StmtsOk, Live
    <2>6. \A v \in Works : WorkStays(v)
      BY <2>0, <2>2, QuietWork DEF GotsSame
    <2> QED
      BY <1>0, <2>0, <2>3, <2>5, <2>6, StmtsStay
  <1>3. CASE CloseObjectSync(o) \/ CollectObject(o)
    <2> SUFFICES ASSUME ~careless' PROVE StmtsOk'
      BY DEF StmtInv
    <2>0. /\ StmtsOk /\ UNCHANGED work
          /\ \/ handle' = handle
             \/ handle' = FreedStmt(obj[o].h) /\ ~ObjInUse(o, Null)
      <3>1. /\ StmtsOk /\ UNCHANGED work
            /\ \/ UNCHANGED handle
               \/ FreesOf(o) /\ ~ObjInUse(o, Null)
        BY <1>0, <1>3, CarelessSays DEF StmtInv, CloseObjectSync, CollectObject
      <3> QED
        BY <3>1 DEF FreesOf, FreesStmt
    <2>1. obj'[o].h = Null /\ \A q \in Objs : q # o => obj'[q] = obj[q]
      BY <1>0, <1>3 DEF CloseObjectSync, CollectObject, NoObj, ObjRecords
    <2>2. \A q \in Objs : Closing(q) => Closing(q)'
      BY <2>0 DEF Closing
    <2>3. ~Live(o)'
      BY <2>1 DEF Live
    <2> QED
      BY <1>0, <2>0, <2>1, <2>2, <2>3, DropOk, NullAssumption
  <1> QED
    BY <1>1, <1>2, <1>3 DEF Objects

LEMMA OkRest ==
    ASSUME StmtInv, Sane',
           Forget \/ \E c \in Conns : CollectConnection(c)
    PROVE  StmtInv'
  <1>0. Sane
    BY DEF StmtInv
  <1>1. CASE Forget
    <2>1. ObjsSame
      BY <1>0, <1>1 DEF Forget, ObjsSame, Sane, TypeOK, ObjRecords
    <2> QED
      BY <1>1, <2>1, SameQuiet, HandlesSame, QuietStep DEF Forget
  <1>2. ASSUME NEW c \in Conns, CollectConnection(c) PROVE StmtInv'
    <2>1. ~careless' => ~careless /\ ~ConnInUse(c, Null)
      BY <1>0, <1>2, CarelessSays DEF CollectConnection
    <2> QED
      BY <1>2, <2>1, FreeQuiet, SameQuiet, ObjsUnchanged, QuietStep
         DEF CollectConnection
  <1> QED
    BY <1>1, <1>2

LEMMA OkWorker ==
    ASSUME StmtInv, Sane', NEW w \in Works, WorkerStep(w)
    PROVE  StmtInv'
  <1>0. /\ Sane /\ obj \in [Objs -> ObjRecords] /\ WorkShape(work[w])
        /\ WorkShape(work'[w]) /\ work \in [Works -> WorkRecords]
        /\ work[w] \in WorkRecords /\ work'[w] \in WorkRecords
    BY Shapes DEF StmtInv, Sane, TypeOK, Shaped
  <1>w. \A v \in Works :
           /\ work'[v].op = work[v].op /\ work'[v].conn = work[v].conn
           /\ work'[v].obj = work[v].obj
           /\ v # w => work'[v] = work[v]
    BY <1>0, WorkerWork
  <1>1. ASSUME work[w].op # "closeObject", work'[w].got = work[w].got \/ work'[w].got \notin Stmts,
               UNCHANGED obj, ~careless' => ~careless, ~careless' => HandlesStay
        PROVE  StmtInv'
    <2>1. ClosingsStay
      BY <1>0, <1>1, <1>w, DroppingGoesOn
    <2>2. GotsSame
      BY <1>1, <1>w DEF GotsSame
    <2> QED
      BY <1>1, <2>1, <2>2, ObjsUnchanged, QuietStep
  <1>2. CASE UV_CreateConnection(w)
    <2>1. work[w].op = "createConnection" /\ work'[w].got \notin Stmts
      BY <1>0, <1>2, <1>w DEF UV_CreateConnection, At, WorkShape
    <2> QED
      BY <1>1, <1>2, <2>1, HandlesSame DEF UV_CreateConnection
  <1>3. ASSUME work' = [work EXCEPT ![w].phase = "between"]
        PROVE  work'[w].got = work[w].got /\ work'[w].phase = "between"
    BY <1>0, <1>3 DEF WorkRecords
  <1>4. ASSUME NEW ok, Done(w, ok) PROVE work'[w].got = work[w].got
    BY <1>0, <1>4 DEF WorkRecords, Done
  <1>5. CASE UV_Open(w) \/ UV_Close(w)
    <2>1. work'[w].got = work[w].got
      BY <1>4, <1>5 DEF UV_Open, UV_Close
    <2> QED
      BY <1>1, <1>5, <2>1, HandlesSame DEF UV_Open, UV_Close, At
  <1>6. CASE UV_CloseDisconnects(w)
    <2>1. ~careless' => ~careless /\ ~ConnInUse(work[w].conn, w)
      BY <1>0, <1>6, CarelessSays DEF UV_CloseDisconnects
    <2>2. ~careless' => HandlesStay
      BY <1>6, <2>1
         DEF UV_CloseDisconnects, FreesStmts, FreedStmts, Disconnects, ConnInUse, Dbc,
             HandlesStay
    <2> QED
      BY <1>1, <1>3, <1>6, <2>1, <2>2 DEF UV_CloseDisconnects, At
  <1>7. CASE Plain(w) \/ SetsAttr(w) \/ ExecutesFor(w)
    <2>1. work'[w].got = work[w].got
      BY <1>4, <1>7 DEF Plain, SetsAttr, ExecutesFor, Executes
    <2> QED
      BY <1>1, <1>7, <2>1, HandlesSame DEF Plain, SetsAttr, ExecutesFor, Executes
  <1>8. ASSUME NEW phase \in {"done", "between"}, AllocatesFor(w, phase)
         PROVE  StmtInv'
    <2>1. /\ work[w].op \in {"createStatement", "query", "catalog", "typeInfo"}
          /\ UNCHANGED <<obj, careless>>
      BY <1>8 DEF AllocatesFor, Allocates
    <2>2. PICK h \in Stmts \cup {Null} :
             /\ AllocStmt(Dbc(w), h)
             /\ work' = [work EXCEPT ![w].phase = phase, ![w].got = h]
      BY <1>8 DEF AllocatesFor, Allocates
    <2>3. work'[w].got = h
      BY <1>0, <2>2 DEF WorkRecords
    <2>4. CASE h = Null
      BY <1>1, <2>1, <2>2, <2>3, <2>4, HandlesSame, NullAssumption DEF AllocStmt
    <2>5. CASE h \in Stmts
      <3> SUFFICES ASSUME ~careless' PROVE StmtsOk'
        BY DEF StmtInv
      <3>1. StmtsOk
        BY <2>1 DEF StmtInv
      <3>2. /\ HandlesStay /\ handle'[h] # Null
            /\ \A o \in Objs : Live(o) => obj[o].h # h
            /\ \A v \in Works : work[v].got # h
        BY <1>0, <2>2, <2>5, <3>1, Allocated
      <3>3. ClosingsStay
        BY <1>0, <1>w, <2>1, DroppingGoesOn
      <3>4. \A o \in Objs : ObjStays(o)
        BY <1>0, <2>1, <3>1, <3>2, <3>3, QuietObjs
      <3>5. \A v \in Works : v # w => WorkStays(v)
        BY <1>w, <3>1, <3>2, QuietWork
      <3>6. WorkOk(w)'
        BY <1>w, <2>1, <2>3, <3>2, <3>4 DEF WorkOk, ObjStays
      <3> QED
        BY <1>0, <3>1, <3>4, <3>5, <3>6, StmtsStay
    <2> QED
      BY <2>4, <2>5
  <1>9. CASE UV_CloseFrees(w) \/ UV_CloseForgets(w)
    <2> SUFFICES ASSUME ~careless' PROVE StmtsOk'
      BY DEF StmtInv
    <2>0. work[w].op = "closeObject"
      BY <1>9 DEF UV_CloseFrees, UV_CloseForgets, At
    <2>1. PICK o \in Objs : o = work[w].obj
      BY <1>0, <2>0, Shapes
    <2>2. \A v \in Works : work'[v].got \in Stmts =>
              v # w /\ work'[v].got = work[v].got /\ work'[v].op = work[v].op
      BY <1>0, <1>w, <2>0 DEF WorkShape
    <2>3. StmtsOk
      BY <1>0, <1>9, CarelessSays DEF StmtInv, UV_CloseFrees, UV_CloseForgets
    <2>4. \A p \in Objs : p # o => (Closing(p) => Closing(p)')
      BY <1>w, <2>1 DEF Closing
    <2>5. CASE UV_CloseFrees(w)
      <3>1. \/ handle' = handle
            \/ handle' = FreedStmt(obj[o].h) /\ ~ObjInUse(o, w)
        <4>1. UNCHANGED handle \/ (FreesOf(o) /\ ~ObjInUse(o, w))
          BY <1>0, <2>1, <2>5, CarelessSays DEF UV_CloseFrees
        <4> QED
          BY <4>1 DEF FreesOf, FreesStmt
      <3>2. Closing(o)'
        BY <1>3, <1>w, <2>1, <2>5 DEF UV_CloseFrees, Closing
      <3>3. ~Live(o)' /\ \A p \in Objs : p # o => obj'[p] = obj[p]
        BY <2>5, <3>2 DEF UV_CloseFrees, Live
      <3> QED
        BY <1>0, <2>2, <2>3, <2>4, <3>1, <3>3, DropOk
    <2>6. CASE UV_CloseForgets(w)
      <3>1. obj' = [obj EXCEPT ![o].h = Null, ![o].canFree = FALSE] /\ handle' = handle
        BY <2>1, <2>6 DEF UV_CloseForgets
      <3>2. obj'[o].h = Null /\ \A p \in Objs : p # o => obj'[p] = obj[p]
        BY <1>0, <3>1 DEF ObjRecords
      <3> QED
        BY <1>0, <2>2, <2>3, <2>4, <3>1, <3>2, DropOk DEF Live
    <2> QED
      BY <1>9, <2>5, <2>6
  <1> QED
    BY <1>2, <1>5, <1>6, <1>7, <1>8, <1>9 DEF WorkerStep

LEMMA OkHandler ==
    ASSUME StmtInv, Sane', NEW w \in Works, HandlerStep(w)
    PROVE  StmtInv'
  <1>0. /\ Sane /\ WorkShape(work[w]) /\ work \in [Works -> WorkRecords]
    BY Shapes DEF StmtInv, Sane, TypeOK
  <1>1. ASSUME Ends(w), work[w].phase # "between", UNCHANGED <<obj, handle, careless>>
        PROVE  StmtInv'
    BY <1>0, <1>1, EndedQuiet, HandlesSame, ObjsUnchanged, QuietStep
  <1>2. CASE UV_AfterCreateConnection(w) \/ UV_AfterOpen(w)
    BY <1>1, <1>2 DEF UV_AfterCreateConnection, UV_AfterOpen, At
  <1>3. CASE Finishes(w) \/ EndsOnly(w)
    BY <1>1, <1>3 DEF Finishes, EndsOnly
  <1>4. CASE Hands(w)
    <2> SUFFICES ASSUME ~careless' PROVE StmtsOk'
      BY DEF StmtInv
    <2>1. /\ work[w].op \in {"createStatement", "query", "catalog", "typeInfo"}
          /\ work[w].phase = "done" /\ Ends(w) /\ UNCHANGED handle /\ StmtsOk
      BY <1>4 DEF Hands, StmtInv
    <2>2. PICK o \in Objs, type \in {"statement", "result"} :
             NewObj(o, type, work[w].got, TRUE)
      BY <1>4 DEF Hands
    <2>3. ClosingsStay /\ GotsSame /\ HandlesStay
      BY <1>0, <2>1, EndedQuiet, HandlesSame
    <2>4. /\ work'[w].got = Null
          /\ \A v \in Works : v # w => work'[v] = work[v]
      BY <1>0, <2>1, WorkEnded DEF NoWork
    <2>5. PICK h \in Stmts \cup {Null} : h = work[w].got
      BY <1>0, <2>1, Shapes
    <2>6. h # Null => /\ handle'[h] # Null
                      /\ \A p \in Objs : Live(p) => obj[p].h # h
                      /\ \A v \in Works : work'[v].op # "cancel" => work'[v].got # h
      BY <2>1, <2>4, <2>5 DEF StmtsOk, WorkOk
    <2> QED
      BY <1>0, <2>1, <2>2, <2>3, <2>5, <2>6, NewIsOk
  <1>5. CASE GivesBack(w)
    <2> SUFFICES ASSUME ~careless' PROVE StmtsOk'
      BY DEF StmtInv
    <2>1. /\ work[w].op \in {"query", "catalog", "typeInfo"}
          /\ work[w].phase \in {"done", "late"} /\ Ends(w) /\ UNCHANGED obj
          /\ handle' = FreedStmt(work[w].got) \/ handle' = handle
          /\ StmtsOk
      BY <1>5 DEF GivesBack, FreesGot, FreesStmt, StmtInv
    <2>2. PICK h \in Stmts \cup {Null} : h = work[w].got
      BY <1>0, <2>1, Shapes
    <2>3. \A g \in Stmts : g # h => handle'[g] = handle[g]
      BY <1>0, <2>1, <2>2 DEF FreedStmt, Sane, TypeOK
    <2>4. ClosingsStay /\ GotsSame
      BY <1>0, <2>1, EndedQuiet
    <2>5. /\ work'[w].got = Null
          /\ \A v \in Works : v # w => work'[v] = work[v]
      BY <1>0, <2>1, WorkEnded DEF NoWork
    <2>6. h # Null => /\ \A o \in Objs : Live(o) => obj[o].h # h
                      /\ \A v \in Works : v # w => work[v].got # h
      BY <2>1, <2>2 DEF StmtsOk, WorkOk
    <2>7. \A o \in Objs : obj[o].h \in Stmts \cup {Null}
      BY <1>0, Numbers
    <2>8. \A o \in Objs : Live(o) => handle'[obj[o].h] # Null
      BY <2>1, <2>3, <2>6, <2>7 DEF StmtsOk, ObjOk, Live
    <2>9. ASSUME NEW o \in Objs PROVE ObjStays(o)
      BY <2>1, <2>4, <2>8 DEF ObjStays, Live, ClosingsStay
    <2>10. ASSUME NEW v \in Works PROVE WorkStays(v)
      BY <2>1, <2>3, <2>5, <2>6, NullAssumption DEF WorkStays, StmtsOk, WorkOk
    <2> QED
      BY <1>0, <2>1, <2>9, <2>10, StmtsStay
  <1>6. CASE ReportsLate(w)
    <2>1. \A v \in Works : work'[v].got = work[v].got /\ work'[v].op = work[v].op
      BY <1>0, <1>6 DEF ReportsLate, WorkRecords
    <2>2. \A v \in Works : v # w => work'[v] = work[v]
      BY <1>0, <1>6 DEF ReportsLate
    <2>3. ClosingsStay /\ GotsSame
      BY <1>0, <1>6, <2>1, <2>2, DroppingGoesOn DEF ReportsLate, GotsSame
    <2> QED
      BY <1>6, <2>3, HandlesSame, ObjsUnchanged, QuietStep DEF ReportsLate
  <1> QED
    BY <1>2, <1>3, <1>4, <1>5, <1>6 DEF HandlerStep

LEMMA StmtsKept == StmtInv /\ [Next]_vars => StmtInv'
  <1> SUFFICES ASSUME StmtInv, [Next]_vars PROVE StmtInv'
    OBVIOUS
  <1>0. Sane'
    BY SaneKept DEF StmtInv
  <1>1. CASE Next
    BY <1>0, <1>1, Steps, OkCalls, OkSync, OkObjects, OkRest, OkWorker, OkHandler
       DEF Step
  <1>2. CASE UNCHANGED vars
    BY <1>0, <1>2, SameQuiet, HandlesSame, ObjsUnchanged, QuietStep DEF vars
  <1> QED
    BY <1>1, <1>2

LEMMA InitOk == Init => StmtInv
  <1> SUFFICES ASSUME Init PROVE StmtInv
    OBVIOUS
  <1>1. StmtsOk
    BY NullAssumption DEF Init, NoObj, NoWork, StmtsOk, ObjOk, WorkOk, Live
  <1> QED
    BY <1>1, InitSane DEF StmtInv

(* For an application that is not careless a handle number that is in use   *)
(* is of a handle that exists, and exactly one object or piece of work will *)
(* free it: no use after free and no double free, of any kind of handle.    *)
THEOREM NoUseAfterFree == Spec => []OwnHandles
  <1>1. ConnInv /\ StmtInv => OwnHandles
    <2> SUFFICES ASSUME ConnInv, StmtInv, ~careless PROVE OwnHandles
      BY DEF OwnHandles
    <2>0. StmtsOk /\ Owned
      BY DEF ConnInv, Careful, StmtInv
    <2>1. ASSUME NEW h \in Stmts, Users(h) # {} PROVE handle[h] # Null
      <3>1. CASE \E o \in Objs : obj[o].h = h /\ ~Closing(o)
        BY <2>0, <3>1, NullAssumption DEF StmtsOk, ObjOk, Live
      <3>2. CASE \E w \in Works : work[w].got = h
        BY <2>0, <3>2 DEF StmtsOk, WorkOk
      <3> QED
        BY <2>1, <3>1, <3>2 DEF Users
    <2>2. ASSUME NEW h \in Stmts, NEW x \in Owners(h), NEW y \in Owners(h)
          PROVE  x = y
      <3>1. ASSUME NEW o \in Objs, NEW p \in Objs,
                   obj[o].h = h, obj[o].canFree, ~Closing(o),
                   obj[p].h = h, obj[p].canFree, ~Closing(p)
            PROVE  o = p
        BY <2>0, <3>1, NullAssumption DEF StmtsOk, ObjOk, Live
      <3>2. ASSUME NEW o \in Objs, NEW w \in Works, obj[o].h = h, ~Closing(o),
                   work[w].got = h, work[w].op # "cancel"
            PROVE  FALSE
        BY <2>0, <3>2, NullAssumption DEF StmtsOk, ObjOk, Live
      <3>3. ASSUME NEW v \in Works, NEW w \in Works,
                   work[v].got = h, work[v].op # "cancel",
                   work[w].got = h, work[w].op # "cancel"
            PROVE  v = w
        BY <2>0, <3>3 DEF StmtsOk, WorkOk
      <3> QED
        BY <2>2, <3>1, <3>2, <3>3 DEF Owners
    <2>3. ASSUME NEW d \in Dbcs, NEW x \in DbcOwners(d), NEW y \in DbcOwners(d)
          PROVE  x = y
      BY <2>0, <2>3, NullAssumption DEF Owned, OnlyConn, OnlyWork, DbcOwners
    <2> QED
      BY <2>1, <2>2, <2>3 DEF OwnHandles
  <1> QED
    BY <1>1, InitCareful, CarefulKept, InitOk, StmtsKept, PTL DEF Spec

-----------------------------------------------------------------------------
(* No leak of statement handles, whatever the application does: one that    *)
(* nobody will free is one the driver has refused to free.                  *)

(* A place without an object has nothing left of the last one. *)
ObjThere(o) ==
    obj[o].type = "none" =>
        obj[o].h = Null /\ ~obj[o].held /\ \A w \in Works : work[w].obj # o

OwnsObj(o) == obj[o].h # Null /\ obj[o].canFree /\ ~Closing(o)
OwnsWork(w) == work[w].got \in Stmts /\ work[w].op # "cancel"

HasOwner(h) ==
    \/ \E o \in Objs : OwnsObj(o) /\ obj[o].h = h
    \/ \E w \in Works : OwnsWork(w) /\ work[w].got = h

LeakInv ==
    /\ Sane
    /\ \A o \in Objs : ObjThere(o)
    /\ \A h \in Stmts : handle[h] # Null => HasOwner(h) \/ h \in refused

GivenUp(h) == handle'[h] = Null \/ h \in refused'

RefusedStay == \A h \in refused : handle'[h] # Null => h \in refused'

(* What owns a handle keeps it, or gives it up, or it has another owner. *)
ObjGoesOn(o) ==
    OwnsObj(o) => \/ OwnsObj(o)' /\ obj'[o].h = obj[o].h
                  \/ GivenUp(obj[o].h)

WorkKeeps(w) ==
    OwnsWork(w) => \/ OwnsWork(w)' /\ work'[w].got = work[w].got
                   \/ GivenUp(work[w].got)
                   \/ \E o \in Objs : OwnsObj(o)' /\ obj'[o].h = work[w].got

LEMMA LeakStays ==
    ASSUME LeakInv, Sane', \A o \in Objs : ObjThere(o)',
           \A o \in Objs : ObjGoesOn(o),
           \A w \in Works : WorkKeeps(w), RefusedStay,
           \A h \in Stmts : handle'[h] # Null =>
              handle[h] # Null \/ HasOwner(h)' \/ h \in refused'
    PROVE  LeakInv'
  <1> SUFFICES ASSUME NEW h \in Stmts, handle'[h] # Null
               PROVE  HasOwner(h)' \/ h \in refused'
    BY DEF LeakInv
  <1>1. CASE handle[h] # Null
    <2>1. HasOwner(h) \/ h \in refused
      BY <1>1 DEF LeakInv
    <2>2. CASE \E o \in Objs : OwnsObj(o) /\ obj[o].h = h
      BY <2>2 DEF ObjGoesOn, GivenUp, HasOwner
    <2>3. ASSUME NEW w \in Works, OwnsWork(w), work[w].got = h
          PROVE  HasOwner(h)' \/ h \in refused'
      BY <2>3 DEF WorkKeeps, GivenUp, HasOwner
    <2>4. CASE h \in refused
      BY <2>4 DEF RefusedStay
    <2> QED
      BY <2>1, <2>2, <2>3, <2>4 DEF HasOwner
  <1> QED
    BY <1>1

(* Steps that make no object, and change no object but who holds it. *)
WorkQuiet ==
    /\ \A v \in Works : work'[v].obj = work[v].obj \/ work'[v].obj = Null
    /\ \A v \in Works : OwnsWork(v) =>
          OwnsWork(v)' /\ work'[v].got = work[v].got
    /\ \A o \in Objs : Closing(o)' => Closing(o)

NoneAllocated ==
    RefusedStay /\ \A h \in Stmts : handle'[h] # Null => handle[h] # Null

LEMMA QuietLeaks ==
    ASSUME LeakInv, Sane', WorkQuiet, NoneAllocated,
           \A o \in Objs :
              /\ obj'[o].h = obj[o].h /\ obj'[o].canFree = obj[o].canFree
              /\ obj'[o].type = obj[o].type /\ (obj'[o].held => obj[o].held)
    PROVE  LeakInv'
  <1>1. \A o \in Objs : ObjThere(o)'
    BY NullAssumption DEF LeakInv, ObjThere, WorkQuiet
  <1>2. \A o \in Objs : ObjGoesOn(o)
    BY DEF ObjGoesOn, OwnsObj, WorkQuiet
  <1>3. \A w \in Works : WorkKeeps(w)
    BY DEF WorkKeeps, WorkQuiet
  <1> QED
    BY <1>1, <1>2, <1>3, LeakStays DEF NoneAllocated

LEMMA SameWorkQuiet == ASSUME UNCHANGED work PROVE WorkQuiet
  BY DEF WorkQuiet, OwnsWork, Closing

LEMMA QueuedKeeps ==
    ASSUME Sane, NEW w \in Works, NEW op \in ConnOps \cup {"createConnection"},
           NEW c \in Conns \cup {Null}, NEW h \in Stmts \cup {Null},
           Queues(w, op, c, Null, h), op \in ConnOps <=> c # Null,
           h # Null => op = "cancel"
    PROVE  WorkQuiet
  <1>0. op # "closeObject"
    BY DEF ConnOps
  <1>1. /\ work[w].got = Null /\ work'[w].obj = Null
        /\ \A v \in Works : v # w => work'[v] = work[v]
    BY <1>0, WorkQueued
  <1> QED
    BY <1>1, NullAssumption DEF WorkQuiet, OwnsWork, Closing

LEMMA EndedKeeps ==
    ASSUME Sane, NEW w \in Works, Ends(w),
           work[w].op \notin {"createStatement", "query", "catalog", "typeInfo"}
    PROVE  WorkQuiet
  <1>1. /\ work'[w].obj = Null
        /\ \A v \in Works : v # w => work'[v] = work[v]
    BY WorkEnded DEF NoWork
  <1>2. ~OwnsWork(w)
    BY Shapes DEF OwnsWork, WorkShape
  <1> QED
    BY <1>1, <1>2, NullAssumption DEF WorkQuiet, OwnsWork, Closing

LEMMA MovedKeeps ==
    ASSUME Sane, NEW w \in Works, work[w].op # "closeObject",
           OwnsWork(w) => work'[w].got = work[w].got,
           \A v \in Works :
                 /\ work'[v].op = work[v].op /\ work'[v].obj = work[v].obj
                 /\ v # w => work'[v] = work[v]
    PROVE  WorkQuiet
  <1>1. \A o \in Objs : work[w].obj # o
    BY Shapes, NullAssumption DEF WorkShape
  <1> QED
    BY <1>1 DEF WorkQuiet, OwnsWork, Closing

(* Freeing allocates nothing. *)
LEMMA FreedNone ==
    ASSUME Sane
    PROVE  /\ UNCHANGED <<handle, refused>> => NoneAllocated
           /\ UNCHANGED refused => RefusedStay
           /\ \A d : FreesStmts(d) => NoneAllocated
           /\ \A b : \A h \in Stmts \cup {Null} : FreesStmt(h, b) =>
                 /\ NoneAllocated
                 /\ h # Null => GivenUp(h)
           /\ \A d : Free(d) => NoneAllocated
  <1>0. handle \in [Stmts -> Dbcs \cup {Null}] /\ refused \subseteq Stmts
    BY DEF Sane, TypeOK
  <1>1. /\ UNCHANGED <<handle, refused>> => NoneAllocated
        /\ UNCHANGED refused => RefusedStay
    BY DEF NoneAllocated, RefusedStay
  <1>2. ASSUME NEW d, FreesStmts(d) PROVE NoneAllocated
    BY <1>0, <1>2, NullAssumption DEF FreesStmts, FreedStmts, NoneAllocated, RefusedStay
  <1>3. ASSUME NEW h \in Stmts \cup {Null}, NEW b, FreesStmt(h, b)
        PROVE  NoneAllocated /\ (h # Null => GivenUp(h))
    <2>1. CASE handle' = FreedStmt(h) /\ refused' = refused \ {h}
      BY <1>0, <2>1, NullAssumption DEF FreedStmt, NoneAllocated, RefusedStay, GivenUp
    <2>2. CASE refused' = refused \cup {h} /\ UNCHANGED handle
      BY <2>2 DEF NoneAllocated, RefusedStay, GivenUp
    <2> QED
      BY <1>3, <2>1, <2>2 DEF FreesStmt
  <1>4. ASSUME NEW d, Free(d) PROVE NoneAllocated
    BY <1>1, <1>2, <1>4 DEF Free
  <1> QED
    BY <1>1, <1>2, <1>3, <1>4

(* An object takes over a handle: a new one, or that of work that ends. *)
LEMMA MadeKeeps ==
    ASSUME LeakInv, Sane', NEW o \in Objs, NEW type \in {"statement", "result"},
           NEW h, NEW canFree, NewObj(o, type, h, canFree)
    PROVE  /\ obj'[o].type # "none" /\ obj'[o].h = h
           /\ canFree => obj'[o].canFree
           /\ obj[o].type = "none"
           /\ \A p \in Objs : p # o => obj'[p] = obj[p]
           /\ ~OwnsObj(o) /\ \A w \in Works : work[w].obj # o
  <1>1. /\ obj[o].type = "none"
        /\ obj' = [obj EXCEPT ![o] = [type |-> type, h |-> h, canFree |-> canFree,
                                      held |-> TRUE]]
        /\ obj \in [Objs -> ObjRecords]
    BY DEF NewObj, LeakInv, Sane, TypeOK
  <1>2. /\ obj'[o].type # "none" /\ obj'[o].h = h
        /\ canFree => obj'[o].canFree
        /\ \A p \in Objs : p # o => obj'[p] = obj[p]
    BY <1>1
  <1> QED
    BY <1>1, <1>2 DEF LeakInv, ObjThere, OwnsObj

LEMMA MadeLeaks ==
    ASSUME LeakInv, Sane', NEW o \in Objs, NEW type \in {"statement", "result"},
           NEW h \in Stmts \cup {Null}, NEW canFree \in BOOLEAN,
           NewObj(o, type, h, canFree),
           \A v \in Works :
              /\ work'[v].obj = work[v].obj \/ work'[v].obj = Null
              /\ OwnsWork(v) => \/ OwnsWork(v)' /\ work'[v].got = work[v].got
                                \/ canFree /\ work[v].got = h,
           \A p \in Objs : Closing(p)' => Closing(p), RefusedStay,
           \A g \in Stmts : handle'[g] # Null => handle[g] # Null \/ (canFree /\ g = h)
    PROVE  LeakInv'
  <1>1. /\ obj'[o].type # "none" /\ obj'[o].h = h
        /\ canFree => obj'[o].canFree
        /\ \A p \in Objs : p # o => obj'[p] = obj[p]
        /\ ~OwnsObj(o) /\ \A w \in Works : work[w].obj # o
    BY MadeKeeps
  <1>2. canFree /\ h # Null => OwnsObj(o)'
    BY <1>1 DEF OwnsObj, Closing
  <1>3. \A p \in Objs : ObjThere(p)'
    BY <1>1, NullAssumption DEF ObjThere, LeakInv
  <1>4. \A p \in Objs : ObjGoesOn(p)
    BY <1>1 DEF ObjGoesOn, OwnsObj
  <1>5. \A w \in Works : WorkKeeps(w)
    BY <1>1, <1>2, NullAssumption DEF WorkKeeps, OwnsWork
  <1>6. \A g \in Stmts : handle'[g] # Null => handle[g] # Null \/ HasOwner(g)'
    BY <1>1, <1>2, NullAssumption DEF HasOwner
  <1> QED
    BY <1>3, <1>4, <1>5, <1>6, LeakStays

LEMMA DropLeaks ==
    ASSUME LeakInv, Sane', NEW o \in Objs,
           FreesOf(o) \/ UNCHANGED <<handle, refused>>,
           OwnsObj(o) => GivenUp(obj[o].h),
           \A p \in Objs : p # o => obj'[p] = obj[p],
           ObjThere(o)',
           \A v \in Works :
              /\ work'[v].obj = work[v].obj \/ work'[v].obj = Null
              /\ OwnsWork(v) => OwnsWork(v)' /\ work'[v].got = work[v].got,
           \A p \in Objs : p # o /\ Closing(p)' => Closing(p)
    PROVE  LeakInv'
  <1>1. NoneAllocated
    BY FreedNone, Numbers DEF LeakInv, FreesOf
  <1>2. \A p \in Objs : ObjThere(p)'
    BY NullAssumption DEF LeakInv, ObjThere
  <1>3. \A p \in Objs : ObjGoesOn(p)
    BY DEF ObjGoesOn, OwnsObj
  <1>4. \A w \in Works : WorkKeeps(w)
    BY DEF WorkKeeps
  <1> QED
    BY <1>1, <1>2, <1>3, <1>4, LeakStays DEF NoneAllocated

LEMMA LeakCalls ==
    ASSUME LeakInv, Sane',
           \/ \E w \in Works : CreateConnection(w)
           \/ \E w \in Works, c \in Conns : ApplicationStep(w, c)
           \/ \E c \in Conns : CollectConnection(c)
           \/ Forget
    PROVE  LeakInv'
  <1>0. Sane /\ obj \in [Objs -> ObjRecords]
    BY DEF LeakInv, Sane, TypeOK
  <1>1. ASSUME NEW w \in Works, CreateConnection(w) PROVE LeakInv'
    <2>1. WorkQuiet
      BY <1>0, <1>1, QueuedKeeps DEF CreateConnection, ConnOps
    <2> QED
      BY <1>0, <1>1, <2>1, FreedNone, QuietLeaks DEF CreateConnection
  <1>2. ASSUME NEW w \in Works, NEW c \in Conns, ApplicationStep(w, c) PROVE LeakInv'
    <2>0. c # Null
      BY NullAssumption
    <2>1. ASSUME NEW op \in RefOps, NEW h \in Stmts \cup {Null},
                 op # "cancel" => h = Null, QueuesWithRef(w, op, c, h)
          PROVE  LeakInv'
      <3>1. WorkQuiet
        BY <1>0, <2>0, <2>1, QueuedKeeps DEF QueuesWithRef, RefOps
      <3> QED
        BY <1>0, <2>1, <3>1, FreedNone, QuietLeaks DEF QueuesWithRef
    <2>2. ASSUME NEW o \in Objs, Cancel(w, c, o) PROVE LeakInv'
      BY <1>0, <2>1, <2>2, Numbers DEF Cancel, RefOps, ConnOps
    <2>3. ASSUME NEW op \in {"begin", "end"}, CallsWithoutRef(w, c, op) PROVE LeakInv'
      <3>1. WorkQuiet
        BY <1>0, <2>0, <2>3, QueuedKeeps DEF CallsWithoutRef, ConnOps
      <3> QED
        BY <1>0, <2>3, <3>1, FreedNone, QuietLeaks DEF CallsWithoutRef
    <2> QED
      BY <1>2, <2>1, <2>2, <2>3 DEF ApplicationStep
  <1>3. ASSUME NEW c \in Conns, CollectConnection(c) PROVE LeakInv'
    BY <1>0, <1>3, SameWorkQuiet, FreedNone, QuietLeaks DEF CollectConnection
  <1>4. CASE Forget
    <2>1. \A o \in Objs :
              /\ obj'[o].h = obj[o].h /\ obj'[o].canFree = obj[o].canFree
              /\ obj'[o].type = obj[o].type /\ (obj'[o].held => obj[o].held)
      BY <1>0, <1>4 DEF Forget, ObjRecords
    <2> QED
      BY <1>0, <1>4, <2>1, SameWorkQuiet, FreedNone, QuietLeaks DEF Forget
  <1> QED
    BY <1>1, <1>2, <1>3, <1>4

LEMMA LeakSync ==
    ASSUME LeakInv, Sane', NEW c \in Conns, SyncStep(c)
    PROVE  LeakInv'
  <1>0. Sane /\ handle \in [Stmts -> Dbcs \cup {Null}]
    BY DEF LeakInv, Sane, TypeOK
  <1>1. ASSUME UNCHANGED <<work, obj>>, NoneAllocated PROVE LeakInv'
    BY <1>1, SameWorkQuiet, QuietLeaks
  <1>2. CASE \/ CreateConnectionSync(c) \/ OpenSync(c) \/ CloseSync(c)
             \/ FreesDbcOnly(c) \/ SetAttrSync(c)
    BY <1>0, <1>1, <1>2, FreedNone
       DEF CreateConnectionSync, OpenSync, CloseSync, FreesDbcOnly, SetAttrSync
  <1>3. ASSUME NEW o \in Objs, NEW type \in {"statement", "result"},
               NEW h \in Stmts \cup {Null}, NewObj(o, type, h, TRUE), UNCHANGED work,
               AllocStmt(conn[c].dbc, h) \/ UNCHANGED handle, UNCHANGED refused
        PROVE  LeakInv'
    <2>1. \A v \in Works :
              /\ work'[v].obj = work[v].obj \/ work'[v].obj = Null
              /\ OwnsWork(v) => OwnsWork(v)' /\ work'[v].got = work[v].got
      BY <1>3 DEF OwnsWork
    <2>2. \A p \in Objs : Closing(p)' => Closing(p)
      BY <1>3 DEF Closing
    <2>3. \A g \in Stmts : handle'[g] # Null => handle[g] # Null \/ g = h
      BY <1>0, <1>3 DEF AllocStmt
    <2> QED
      BY <1>0, <1>3, <2>1, <2>2, <2>3, FreedNone, MadeLeaks
  <1>4. ASSUME NEW o \in Objs, CreateStatementSync(c, o) PROVE LeakInv'
    BY <1>3, <1>4 DEF CreateStatementSync
  <1>5. ASSUME NEW o \in Objs, QueriesSync(c, o) PROVE LeakInv'
    <2>1. CASE \E h \in Stmts : /\ AllocStmt(conn[c].dbc, h)
                                /\ NewObj(o, "result", h, TRUE)
                                /\ UNCHANGED refused
      BY <1>3, <1>5, <2>1 DEF QueriesSync
    <2>2. CASE \E h \in AnyNumber(conn[c].dbc) : FreesStmt(h, TRUE) /\ UNCHANGED obj
      <3>1. AnyNumber(conn[c].dbc) \subseteq Stmts \cup {Null}
        BY DEF AnyNumber
      <3> QED
        BY <1>0, <1>1, <1>5, <2>2, <3>1, FreedNone DEF QueriesSync
    <2>3. CASE UNCHANGED <<obj, handle, refused>>
      BY <1>0, <1>1, <1>5, <2>3, FreedNone DEF QueriesSync
    <2>4. ASSUME NEW h \in Stmts, AllocStmt(conn[c].dbc, h),
                 refused' = refused \cup {h}, UNCHANGED obj
          PROVE  LeakInv'
      <3>1. UNCHANGED work
        BY <1>5 DEF QueriesSync
      <3>2. \A p \in Objs : ObjThere(p)' /\ ObjGoesOn(p)
        BY <2>4, <3>1 DEF LeakInv, ObjThere, ObjGoesOn, OwnsObj, Closing
      <3>3. \A w \in Works : WorkKeeps(w)
        BY <3>1 DEF WorkKeeps, OwnsWork
      <3>4. /\ RefusedStay
            /\ \A g \in Stmts : handle'[g] # Null => handle[g] # Null \/ g \in refused'
        BY <1>0, <2>4 DEF RefusedStay, AllocStmt
      <3> QED
        BY <3>2, <3>3, <3>4, LeakStays
    <2> QED
      BY <1>5, <2>1, <2>2, <2>3, <2>4 DEF QueriesSync
  <1> QED
    BY <1>2, <1>4, <1>5 DEF SyncStep

LEMMA LeakObjects ==
    ASSUME LeakInv, Sane', NEW o \in Objs, Objects(o) \/ CollectObject(o)
    PROVE  LeakInv'
  <1>0. Sane /\ obj \in [Objs -> ObjRecords] /\ obj[o].h \in Stmts \cup {Null}
    BY Numbers DEF LeakInv, Sane, TypeOK
  <1>1. ASSUME NEW w \in Works, CloseObject(w, o) PROVE LeakInv'
    <2>1. /\ work[w].got = Null /\ work'[w].obj = o /\ work'[w].phase = "queued"
          /\ \A v \in Works : v # w => work'[v] = work[v]
      BY <1>0, <1>1, WorkQueued, NullAssumption DEF CloseObject, ConnOps
    <2>2. obj[o].type # "none" /\ UNCHANGED <<obj, handle, refused>>
      BY <1>1 DEF CloseObject, LeakInv, ObjThere
    <2>3. \A p \in Objs : ObjThere(p)'
      BY <2>1, <2>2 DEF LeakInv, ObjThere
    <2>4. \A p \in Objs : Closing(p)' => Closing(p)
      BY <2>1 DEF Closing
    <2>5. \A p \in Objs : ObjGoesOn(p)
      BY <2>2, <2>4 DEF ObjGoesOn, OwnsObj
    <2>6. \A v \in Works : WorkKeeps(v)
      BY <2>1, NullAssumption DEF WorkKeeps, OwnsWork
    <2> QED
      BY <1>0, <2>2, <2>3, <2>5, <2>6, FreedNone, LeakStays
  <1>2. ASSUME NEW p \in Objs, Execute(o, p) PROVE LeakInv'
    <2>1. NewObj(p, "result", obj[o].h, FALSE) /\ UNCHANGED <<work, handle, refused>>
      BY <1>2 DEF Execute
    <2>2. \A v \in Works : OwnsWork(v) => OwnsWork(v)' /\ work'[v].got = work[v].got
      BY <2>1 DEF OwnsWork
    <2>3. \A q \in Objs : Closing(q)' => Closing(q)
      BY <2>1 DEF Closing
    <2> QED
      BY <1>0, <2>1, <2>2, <2>3, FreedNone, MadeLeaks
  <1>3. CASE CloseObjectSync(o) \/ CollectObject(o)
    <2>1. UNCHANGED work /\ \A p \in Objs : p # o => obj'[p] = obj[p]
      BY <1>0, <1>3 DEF CloseObjectSync, CollectObject
    <2>2. IF Drops(o) THEN FreesOf(o) ELSE UNCHANGED <<handle, refused>>
      BY <1>3 DEF CloseObjectSync, CollectObject
    <2>3. OwnsObj(o) => GivenUp(obj[o].h)
      BY <1>0, <2>2, FreedNone DEF OwnsObj, Drops, FreesOf
    <2>4. ObjThere(o)'
      <3>1. CASE CloseObjectSync(o)
        <4>1. obj'[o].type = obj[o].type /\ obj[o].held
          BY <1>0, <3>1 DEF CloseObjectSync, ObjRecords
        <4> QED
          BY <4>1 DEF ObjThere, LeakInv
      <3>2. CASE CollectObject(o)
        <4>1. obj'[o] = NoObj /\ \A w \in Works : work'[w].obj # o
          BY <1>0, <3>2 DEF CollectObject
        <4> QED
          BY <4>1 DEF ObjThere, NoObj
      <3> QED
        BY <1>3, <3>1, <3>2
    <2>5. \A v \in Works : OwnsWork(v) => OwnsWork(v)' /\ work'[v].got = work[v].got
      BY <2>1 DEF OwnsWork
    <2>6. \A q \in Objs : Closing(q)' => Closing(q)
      BY <2>1 DEF Closing
    <2> QED
      BY <2>1, <2>2, <2>3, <2>4, <2>5, <2>6, DropLeaks
  <1> QED
    BY <1>1, <1>2, <1>3 DEF Objects

LEMMA LeakWorker ==
    ASSUME LeakInv, Sane', NEW w \in Works, WorkerStep(w)
    PROVE  LeakInv'
  <1>0. /\ Sane /\ obj \in [Objs -> ObjRecords] /\ WorkShape(work[w])
        /\ work \in [Works -> WorkRecords] /\ handle \in [Stmts -> Dbcs \cup {Null}]
    BY Shapes DEF LeakInv, Sane, TypeOK
  <1>w. \A v \in Works :
           /\ work'[v].op = work[v].op /\ work'[v].conn = work[v].conn
           /\ work'[v].obj = work[v].obj
           /\ v # w => work'[v] = work[v]
    BY <1>0, WorkerWork
  <1>1. ASSUME work[w].op # "closeObject", OwnsWork(w) => work'[w].got = work[w].got,
               UNCHANGED obj, NoneAllocated
        PROVE  LeakInv'
    BY <1>0, <1>1, <1>w, MovedKeeps, QuietLeaks
  <1>2. CASE UV_CreateConnection(w)
    BY <1>0, <1>1, <1>2, FreedNone DEF UV_CreateConnection, At, OwnsWork, WorkShape
  <1>3. ASSUME work' = [work EXCEPT ![w].phase = "between"]
        PROVE  work'[w].got = work[w].got
    BY <1>0, <1>3 DEF WorkRecords
  <1>4. ASSUME NEW ok, Done(w, ok) PROVE work'[w].got = work[w].got
    BY <1>0, <1>4 DEF WorkRecords, Done
  <1>5. CASE UV_Open(w) \/ UV_Close(w)
    <2>1. work'[w].got = work[w].got
      BY <1>4, <1>5 DEF UV_Open, UV_Close
    <2> QED
      BY <1>0, <1>1, <1>5, <2>1, FreedNone DEF UV_Open, UV_Close, At
  <1>6. CASE UV_CloseDisconnects(w)
    BY <1>0, <1>1, <1>3, <1>6, FreedNone DEF UV_CloseDisconnects, At
  <1>7. CASE Plain(w) \/ SetsAttr(w) \/ ExecutesFor(w)
    <2>1. work'[w].got = work[w].got
      BY <1>4, <1>7 DEF Plain, SetsAttr, ExecutesFor, Executes
    <2> QED
      BY <1>0, <1>1, <1>7, <2>1, FreedNone DEF Plain, SetsAttr, ExecutesFor, Executes
  <1>8. ASSUME NEW phase \in {"done", "between"}, AllocatesFor(w, phase)
         PROVE  LeakInv'
    <2>1. /\ work[w].op \in {"createStatement", "query", "catalog", "typeInfo"}
          /\ work[w].phase = "queued" /\ UNCHANGED obj /\ work[w].got = Null
      BY <1>0, <1>8 DEF AllocatesFor, Allocates, WorkShape
    <2>2. PICK h \in Stmts \cup {Null} :
             /\ AllocStmt(Dbc(w), h)
             /\ work' = [work EXCEPT ![w].phase = phase, ![w].got = h]
      BY <1>8 DEF AllocatesFor, Allocates
    <2>3. work'[w].got = h
      BY <1>0, <2>2 DEF WorkRecords
    <2>4. \A p \in Objs : Closing(p)' => Closing(p)
      <3>1. \A p \in Objs : work[w].obj # p
        BY <1>0, <2>1, NullAssumption DEF WorkShape
      <3> QED
        BY <1>w, <3>1 DEF Closing
    <2>5. \A p \in Objs : ObjThere(p)' /\ ObjGoesOn(p)
      BY <1>w, <2>1, <2>4 DEF LeakInv, ObjThere, ObjGoesOn, OwnsObj
    <2>6. \A v \in Works : WorkKeeps(v)
      BY <1>w, <2>1, NullAssumption DEF WorkKeeps, OwnsWork
    <2>7. h # Null => OwnsWork(w)'
      BY <1>w, <2>1, <2>3 DEF OwnsWork
    <2>8. \A g \in Stmts : handle'[g] # Null => handle[g] # Null \/ HasOwner(g)'
      BY <1>0, <2>2, <2>3, <2>7 DEF AllocStmt, HasOwner
    <2>9. RefusedStay
      BY <1>0, <1>8, FreedNone DEF AllocatesFor, Allocates
    <2> QED
      BY <2>5, <2>6, <2>8, <2>9, LeakStays
  <1>9. CASE UV_CloseFrees(w) \/ UV_CloseForgets(w)
    <2>0. work[w].op = "closeObject"
      BY <1>9 DEF UV_CloseFrees, UV_CloseForgets, At
    <2>1. PICK o \in Objs : o = work[w].obj
      BY <1>0, <2>0, Shapes
    <2>2. /\ \A p \in Objs : p # o => obj'[p] = obj[p]
          /\ obj'[o].type = obj[o].type
      BY <1>0, <1>9, <2>1 DEF UV_CloseFrees, UV_CloseForgets, ObjRecords
    <2>3. ObjThere(o)'
      BY <2>1, <2>2 DEF LeakInv, ObjThere
    <2>4. \A v \in Works : OwnsWork(v) => OwnsWork(v)' /\ work'[v].got = work[v].got
      BY <1>0, <1>w, <2>0 DEF OwnsWork, WorkShape
    <2>5. \A p \in Objs : p # o /\ Closing(p)' => Closing(p)
      BY <1>w, <2>1 DEF Closing
    <2>6. obj[o].h \in Stmts \cup {Null}
      BY <1>0, Numbers
    <2>7. CASE UV_CloseFrees(w)
      <3>1. IF Drops(o) THEN FreesOf(o) ELSE UNCHANGED <<handle, refused>>
        BY <2>1, <2>7 DEF UV_CloseFrees
      <3>2. OwnsObj(o) => GivenUp(obj[o].h)
        BY <1>0, <2>6, <3>1, FreedNone DEF OwnsObj, Drops, FreesOf
      <3> QED
        BY <1>w, <2>2, <2>3, <2>4, <2>5, <3>1, <3>2, DropLeaks
    <2>8. CASE UV_CloseForgets(w)
      <3>1. ~OwnsObj(o) /\ UNCHANGED <<handle, refused>>
        BY <2>1, <2>8 DEF UV_CloseForgets, At, OwnsObj, Closing
      <3> QED
        BY <1>w, <2>2, <2>3, <2>4, <2>5, <3>1, DropLeaks
    <2> QED
      BY <1>9, <2>7, <2>8
  <1> QED
    BY <1>2, <1>5, <1>6, <1>7, <1>8, <1>9 DEF WorkerStep

LEMMA LeakHandler ==
    ASSUME LeakInv, Sane', NEW w \in Works, HandlerStep(w)
    PROVE  LeakInv'
  <1>0. /\ Sane /\ WorkShape(work[w]) /\ work \in [Works -> WorkRecords]
    BY Shapes DEF LeakInv, Sane, TypeOK
  <1>1. ASSUME Ends(w), UNCHANGED <<obj, handle, refused>>,
               work[w].op \notin {"createStatement", "query", "catalog", "typeInfo"}
        PROVE  LeakInv'
    BY <1>0, <1>1, EndedKeeps, FreedNone, QuietLeaks
  <1>e. Ends(w) =>
           /\ work'[w].obj = Null /\ work'[w].phase = "idle"
           /\ \A v \in Works : v # w => work'[v] = work[v]
           /\ \A p \in Objs : Closing(p)' => Closing(p)
    <2> SUFFICES ASSUME Ends(w)
                 PROVE  /\ work'[w].obj = Null /\ work'[w].phase = "idle"
                        /\ \A v \in Works : v # w => work'[v] = work[v]
                        /\ \A p \in Objs : Closing(p)' => Closing(p)
      OBVIOUS
    <2>1. /\ work'[w].obj = Null /\ work'[w].phase = "idle"
          /\ \A v \in Works : v # w => work'[v] = work[v]
      BY <1>0, WorkEnded DEF NoWork
    <2> QED
      BY <2>1 DEF Closing
  <1>2. CASE UV_AfterCreateConnection(w) \/ UV_AfterOpen(w)
    BY <1>1, <1>2 DEF UV_AfterCreateConnection, UV_AfterOpen, At
  <1>3. CASE Finishes(w) \/ EndsOnly(w)
    BY <1>1, <1>3 DEF Finishes, EndsOnly
  <1>4. CASE Hands(w)
    <2>1. Ends(w) /\ UNCHANGED <<handle, refused>>
      BY <1>4 DEF Hands
    <2>2. PICK o \in Objs, type \in {"statement", "result"} :
             NewObj(o, type, work[w].got, TRUE)
      BY <1>4 DEF Hands
    <2>3. work[w].got \in Stmts \cup {Null}
      BY <1>0, <1>4, Shapes DEF Hands
    <2>4. \A v \in Works :
              /\ work'[v].obj = work[v].obj \/ work'[v].obj = Null
              /\ OwnsWork(v) => \/ OwnsWork(v)' /\ work'[v].got = work[v].got
                                \/ work[v].got = work[w].got
      BY <1>e, <2>1 DEF OwnsWork
    <2> QED
      BY <1>0, <1>e, <2>1, <2>2, <2>3, <2>4, FreedNone, MadeLeaks
  <1>5. CASE GivesBack(w)
    <2>1. /\ Ends(w) /\ UNCHANGED obj
          /\ \E b : FreesStmt(work[w].got, b)
      BY <1>5 DEF GivesBack, FreesGot
    <2>2. work[w].got \in Stmts \cup {Null}
      BY <1>0, <1>5, Shapes DEF GivesBack
    <2>3. NoneAllocated /\ (work[w].got # Null => GivenUp(work[w].got))
      BY <1>0, <2>1, <2>2, FreedNone
    <2>4. \A p \in Objs : ObjThere(p)' /\ ObjGoesOn(p)
      BY <1>e, <2>1, NullAssumption DEF LeakInv, ObjThere, ObjGoesOn, OwnsObj
    <2>5. \A v \in Works : WorkKeeps(v)
      BY <1>e, <2>1, <2>3, NullAssumption DEF WorkKeeps, OwnsWork
    <2> QED
      BY <2>3, <2>4, <2>5, LeakStays DEF NoneAllocated
  <1>6. CASE ReportsLate(w)
    <2>1. \A v \in Works :
             /\ work'[v].op = work[v].op /\ work'[v].obj = work[v].obj
             /\ work'[v].got = work[v].got
             /\ v # w => work'[v] = work[v]
      BY <1>0, <1>6 DEF ReportsLate, WorkRecords
    <2>2. WorkQuiet
      BY <1>0, <1>6, <2>1, MovedKeeps DEF ReportsLate
    <2> QED
      BY <1>0, <1>6, <2>2, FreedNone, QuietLeaks DEF ReportsLate
  <1> QED
    BY <1>2, <1>3, <1>4, <1>5, <1>6 DEF HandlerStep

LEMMA LeakKept == LeakInv /\ [Next]_vars => LeakInv'
  <1> SUFFICES ASSUME LeakInv, [Next]_vars PROVE LeakInv'
    OBVIOUS
  <1>0. Sane'
    BY SaneKept DEF LeakInv
  <1>1. CASE Next
    BY <1>0, <1>1, Steps, LeakCalls, LeakSync, LeakObjects, LeakWorker, LeakHandler
       DEF Step
  <1>2. CASE UNCHANGED vars
    BY <1>0, <1>2, SameWorkQuiet, FreedNone, QuietLeaks DEF LeakInv, vars
  <1> QED
    BY <1>1, <1>2

LEMMA InitLeak == Init => LeakInv
  BY InitSane, NullAssumption DEF Init, LeakInv, ObjThere, NoObj, NoWork

-----------------------------------------------------------------------------
(* No leak of connection handles, for an application that is not careless:  *)
(* only one that is in a transaction is left behind.                        *)

HasDbcOwner(d) ==
    (\E c \in Conns : conn[c].dbc = d) \/ (\E w \in Works : work[w].got = d)

Raised == {"allocated", "auto", "manual"}

Between(w) == work[w].op = "close" /\ work[w].phase = "between"

(* SQLFreeHandle will not refuse for want of a disconnect. *)
Shut == \A w \in Works : Between(w) =>
            Dbc(w) = Null \/ dbc[Dbc(w)] \notin {"auto", "manual"}

DbcKept == \A d \in Dbcs : dbc[d] \in Raised => HasDbcOwner(d)

(* A place without an object has no number left of the last one. *)
Blank == \A c \in Conns : ~conn[c].there => conn[c].dbc = Null

DbcInv == ConnInv /\ Blank /\ (~careless => Shut /\ DbcKept)

(* Steps that give up no number, and raise no handle that is being closed. *)
WorkStill ==
    \A v \in Works : /\ Between(v)' => work'[v] = work[v]
                     /\ work[v].got \in Dbcs => work'[v].got = work[v].got

SameDbcs ==
    \A c \in Conns : conn'[c].dbc = conn[c].dbc /\ conn'[c].there = conn[c].there

RaisesOwn ==
    \A d \in Dbcs :
        \/ dbc'[d] = dbc[d]
        \/ dbc'[d] = "tx"
        \/ \E c \in Conns : /\ conn[c].dbc = d
                            /\ \A v \in Works : Between(v) => work[v].conn # c

LEMMA ShutStays ==
    ASSUME Sane, Owned, Shut, NEW w \in Works, Between(w),
           work'[w] = work[w], conn'[work[w].conn].dbc = conn[work[w].conn].dbc,
           RaisesOwn
    PROVE  Dbc(w)' = Null \/ dbc'[Dbc(w)'] \notin {"auto", "manual"}
  <1>1. work[w].conn \in Conns /\ Dbc(w) \in Dbcs \cup {Null}
    BY Shapes, Numbers DEF Between, ConnOps
  <1>2. Dbc(w)' = Dbc(w)
    BY DEF Dbc
  <1> SUFFICES ASSUME Dbc(w) # Null PROVE dbc'[Dbc(w)] \notin {"auto", "manual"}
    BY <1>2
  <1>3. dbc[Dbc(w)] \notin {"auto", "manual"} /\ Dbc(w) \in Dbcs
    BY <1>1 DEF Shut
  <1>4. \A c \in Conns : conn[c].dbc = Dbc(w) => c = work[w].conn
    BY <1>1 DEF Owned, OnlyConn, Dbc
  <1>5. dbc'[Dbc(w)] = dbc[Dbc(w)] \/ dbc'[Dbc(w)] = "tx"
    BY <1>3, <1>4 DEF RaisesOwn
  <1> QED
    BY <1>3, <1>5

LEMMA StillStep ==
    ASSUME DbcInv, ConnInv', ~careless' => ~careless, SameDbcs,
           ~careless' => WorkStill /\ RaisesOwn
    PROVE  DbcInv'
  <1>a. Blank'
    BY DEF DbcInv, Blank, SameDbcs
  <1> SUFFICES ASSUME ~careless' PROVE Shut' /\ DbcKept'
    BY <1>a DEF DbcInv
  <1>0. Sane /\ Owned /\ Shut /\ DbcKept /\ WorkStill /\ SameDbcs /\ RaisesOwn
    BY DEF DbcInv, ConnInv, RefInv, Careful
  <1>1. Shut'
    <2> SUFFICES ASSUME NEW w \in Works, Between(w)'
                 PROVE  Dbc(w)' = Null \/ dbc'[Dbc(w)'] \notin {"auto", "manual"}
      BY DEF Shut
    <2>1. work'[w] = work[w] /\ Between(w)
      BY <1>0 DEF WorkStill, Between
    <2>2. conn'[work[w].conn].dbc = conn[work[w].conn].dbc
      BY <1>0, <2>1, Shapes DEF SameDbcs, Between, ConnOps
    <2> QED
      BY <1>0, <2>1, <2>2, ShutStays
  <1>2. DbcKept'
    <2> SUFFICES ASSUME NEW d \in Dbcs, dbc'[d] \in Raised PROVE HasDbcOwner(d)'
      BY DEF DbcKept
    <2>1. HasDbcOwner(d)
      BY <1>0 DEF RaisesOwn, DbcKept, HasDbcOwner, Raised
    <2> QED
      BY <1>0, <2>1 DEF HasDbcOwner, WorkStill, SameDbcs
  <1> QED
    BY <1>1, <1>2

LEMMA SameStill == ASSUME UNCHANGED work PROVE WorkStill
  BY DEF WorkStill, Between

LEMMA QueuedStill ==
    ASSUME Sane, NEW w \in Works, NEW op, NEW c, NEW o, NEW h, Queues(w, op, c, o, h)
    PROVE  WorkStill
  <1>1. /\ work'[w].phase = "queued"
        /\ \A v \in Works : v # w => work'[v] = work[v]
    BY DEF Queues, Sane, TypeOK
  <1>2. work[w].op = "none"
    BY Shapes DEF Queues, Idle, WorkShape
  <1>3. work[w].got \notin Dbcs
    BY <1>2, Shapes DEF WorkShape
  <1> QED
    BY <1>1, <1>3 DEF WorkStill, Between

LEMMA EndedStill ==
    ASSUME Sane, NEW w \in Works, Ends(w), work[w].op # "createConnection"
    PROVE  WorkStill
  <1>1. /\ work'[w].phase = "idle"
        /\ \A v \in Works : v # w => work'[v] = work[v]
    BY WorkEnded DEF NoWork
  <1>2. work[w].got \notin Dbcs
    BY Shapes DEF WorkShape
  <1> QED
    BY <1>1, <1>2 DEF WorkStill, Between

LEMMA MovedStill ==
    ASSUME Sane, NEW w \in Works, work[w].op \notin {"close", "createConnection"},
           \A v \in Works :
                 /\ work'[v].op = work[v].op
                 /\ v # w => work'[v] = work[v]
    PROVE  WorkStill
  <1>2. work[w].got \notin Dbcs
    BY Shapes DEF WorkShape
  <1> QED
    BY <1>2 DEF WorkStill, Between

LEMMA DbcsSame ==
    ASSUME Sane
    PROVE  /\ UNCHANGED conn => SameDbcs
           /\ \A c \in Conns : conn' = [conn EXCEPT ![c].refs = @ + 1] => SameDbcs
           /\ \A c \in Conns : conn' = [conn EXCEPT ![c].held = FALSE] => SameDbcs
           /\ \A c \in Conns : \A x : conn' = [conn EXCEPT ![c].connected = x] => SameDbcs
           /\ \A c \in Conns : \A x :
                 conn' = [conn EXCEPT ![c].refs = @ - 1, ![c].connected = x] => SameDbcs
           /\ \A w \in Works : work[w].op \in ConnOps /\ Unref(w) => SameDbcs
  <1>0. conn \in [Conns -> ConnRecords]
    BY DEF Sane, TypeOK
  <1> USE DEF SameDbcs, ConnRecords
  <1>1. UNCHANGED conn => SameDbcs
    OBVIOUS
  <1>2. ASSUME NEW c \in Conns, conn' = [conn EXCEPT ![c].refs = @ + 1]
        PROVE  SameDbcs
    BY <1>0, <1>2
  <1>3. ASSUME NEW c \in Conns, conn' = [conn EXCEPT ![c].held = FALSE]
        PROVE  SameDbcs
    BY <1>0, <1>3
  <1>4. ASSUME NEW c \in Conns, NEW x, conn' = [conn EXCEPT ![c].connected = x]
        PROVE  SameDbcs
    BY <1>0, <1>4
  <1>5. ASSUME NEW c \in Conns, NEW x,
               conn' = [conn EXCEPT ![c].refs = @ - 1, ![c].connected = x]
        PROVE  SameDbcs
    BY <1>0, <1>5
  <1>6. ASSUME NEW w \in Works, work[w].op \in ConnOps, Unref(w) PROVE SameDbcs
    <2>1. PICK c \in Conns : c = work[w].conn
      BY <1>6, Shapes
    <2>2. conn' = [conn EXCEPT ![c].refs = @ - 1]
      BY <1>6, <2>1 DEF Unref
    <2> QED
      BY <1>0, <2>2
  <1> QED
    BY <1>1, <1>2, <1>3, <1>4, <1>5, <1>6

LEMMA TouchedOwn ==
    ASSUME Sane
    PROVE  /\ UNCHANGED dbc => RaisesOwn
           /\ \A h \in Stmts \cup {Null} : dbc' \in Touched(h) => RaisesOwn
           /\ \A d \in Dbcs : dbc' = [dbc EXCEPT ![d] = "tx"] => RaisesOwn
           /\ \A c \in Conns : \A s :
                 /\ conn[c].dbc # Null /\ dbc' = [dbc EXCEPT ![conn[c].dbc] = s]
                 /\ \A v \in Works : Between(v) => work[v].conn # c
                 => RaisesOwn
  <1>0. /\ dbc \in [Dbcs -> DbcStates]
        /\ \A h \in Stmts : handle[h] \in Dbcs \cup {Null}
        /\ \A c \in Conns : conn[c].dbc \in Dbcs \cup {Null}
    BY Numbers DEF Sane, TypeOK, DbcStates
  <1> USE DEF RaisesOwn
  <1>1. UNCHANGED dbc => RaisesOwn
    OBVIOUS
  <1>2. ASSUME NEW d \in Dbcs, dbc' = [dbc EXCEPT ![d] = "tx"] PROVE RaisesOwn
    BY <1>0, <1>2
  <1>3. ASSUME NEW h \in Stmts \cup {Null}, dbc' \in Touched(h) PROVE RaisesOwn
    BY <1>0, <1>1, <1>2, <1>3 DEF Touched, ValidStmt
  <1>4. ASSUME NEW c \in Conns, NEW s, conn[c].dbc # Null,
               dbc' = [dbc EXCEPT ![conn[c].dbc] = s],
               \A v \in Works : Between(v) => work[v].conn # c
        PROVE  RaisesOwn
    BY <1>0, <1>4
  <1> QED
    BY <1>1, <1>2, <1>3, <1>4

(* Autocommit and connecting raise the caller's own handle. *)
LEMMA RaisedOwn ==
    ASSUME Sane, NEW c \in Conns,
           \/ \E on : Autocommit(conn[c].dbc, on)
           \/ EndsTran(conn[c].dbc)
           \/ \E ok \in MayConnect(conn[c].dbc) : Connects(conn[c].dbc, ok),
           \A v \in Works : Between(v) => work[v].conn # c
    PROVE  RaisesOwn
  <1>1. CASE UNCHANGED dbc
    BY <1>1, TouchedOwn
  <1>2. CASE conn[c].dbc # Null /\ \E s : dbc' = [dbc EXCEPT ![conn[c].dbc] = s]
    BY <1>2, TouchedOwn
  <1>3. CASE \E on : Autocommit(conn[c].dbc, on)
    <2>1. PICK on : Autocommit(conn[c].dbc, on)
      BY <1>3
    <2>2. CASE ~Connected(conn[c].dbc)
      BY <1>1, <2>1, <2>2 DEF Autocommit
    <2>3. CASE Connected(conn[c].dbc)
      <3>1. PICK s : s = IF on THEN "auto" ELSE IF dbc[conn[c].dbc] = "tx" THEN "tx"
                                                                        ELSE "manual"
        OBVIOUS
      <3>2. dbc' = [dbc EXCEPT ![conn[c].dbc] = s]
        BY <2>1, <2>3, <3>1 DEF Autocommit
      <3> QED
        BY <1>2, <2>3, <3>2 DEF Connected
    <2> QED
      BY <2>2, <2>3
  <1>4. CASE \E ok \in MayConnect(conn[c].dbc) : Connects(conn[c].dbc, ok)
    BY <1>1, <1>2, <1>4 DEF MayConnect, Connects
  <1>5. CASE EndsTran(conn[c].dbc)
    BY <1>1, <1>2, <1>3, <1>5 DEF EndsTran, Connected
  <1> QED
    BY <1>3, <1>4, <1>5

LEMMA KeptCalls ==
    ASSUME DbcInv, ConnInv',
           \/ \E w \in Works : CreateConnection(w)
           \/ \E w \in Works, c \in Conns : ApplicationStep(w, c)
           \/ \E o \in Objs : Objects(o)
           \/ \E o \in Objs : CollectObject(o)
           \/ Forget
    PROVE  DbcInv'
  <1>0. Sane
    BY DEF DbcInv, ConnInv, RefInv
  <1>1. ASSUME NEW w \in Works, CreateConnection(w) PROVE DbcInv'
    BY <1>0, <1>1, QueuedStill, DbcsSame, TouchedOwn, StillStep DEF CreateConnection
  <1>2. ASSUME NEW w \in Works, NEW c \in Conns, ApplicationStep(w, c) PROVE DbcInv'
    <2>1. ASSUME NEW op, NEW h, QueuesWithRef(w, op, c, h) PROVE DbcInv'
      <3>1. WorkStill
        BY <1>0, <2>1, QueuedStill DEF QueuesWithRef
      <3> QED
        BY <1>0, <2>1, <3>1, CarelessSays, DbcsSame, TouchedOwn, StillStep
           DEF QueuesWithRef
    <2>2. ASSUME NEW op, CallsWithoutRef(w, c, op) PROVE DbcInv'
      <3>1. WorkStill
        BY <1>0, <2>2, QueuedStill DEF CallsWithoutRef
      <3> QED
        BY <1>0, <2>2, <3>1, CarelessSays, DbcsSame, TouchedOwn, StillStep
           DEF CallsWithoutRef
    <2> QED
      BY <1>2, <2>1, <2>2 DEF ApplicationStep, Cancel
  <1>3. ASSUME NEW o \in Objs, Objects(o) PROVE DbcInv'
    <2>1. ASSUME NEW w \in Works, CloseObject(w, o) PROVE DbcInv'
      <3>1. WorkStill
        BY <1>0, <2>1, QueuedStill DEF CloseObject
      <3> QED
        BY <1>0, <2>1, <3>1, DbcsSame, TouchedOwn, StillStep DEF CloseObject
    <2>2. ASSUME NEW p \in Objs, Execute(o, p) PROVE DbcInv'
      <3>1. RaisesOwn
        BY <1>0, <2>2, Numbers, TouchedOwn DEF Execute
      <3> QED
        BY <1>0, <2>2, <3>1, CarelessSays, SameStill, DbcsSame, StillStep DEF Execute
    <2>3. CASE CloseObjectSync(o)
      <3>1. ~careless' => ~careless
        BY <1>0, <2>3, CarelessSays DEF CloseObjectSync
      <3> QED
        BY <1>0, <2>3, <3>1, SameStill, DbcsSame, TouchedOwn, StillStep
           DEF CloseObjectSync
    <2> QED
      BY <1>3, <2>1, <2>2, <2>3 DEF Objects
  <1>4. ASSUME NEW o \in Objs, CollectObject(o) PROVE DbcInv'
    <2>1. ~careless' => ~careless
      BY <1>0, <1>4, CarelessSays DEF CollectObject
    <2> QED
      BY <1>0, <1>4, <2>1, SameStill, DbcsSame, TouchedOwn, StillStep
         DEF CollectObject
  <1>5. CASE Forget
    BY <1>0, <1>5, SameStill, DbcsSame, TouchedOwn, StillStep DEF Forget
  <1> QED
    BY <1>1, <1>2, <1>3, <1>4, <1>5

(* Nothing is under way on a connection that is not there. *)
LEMMA NothingOnAbsent ==
    ASSUME RefInv, NEW c \in Conns, ~conn[c].there
    PROVE  \A v \in Works : Between(v) => work[v].conn # c
  <1> SUFFICES ASSUME NEW v \in Works, Between(v), work[v].conn = c PROVE FALSE
    OBVIOUS
  <1>1. IsFiniteSet(RefWorks(c)) /\ v \in RefWorks(c)
    BY WorksAssumption, FS_Subset DEF RefWorks, Between, RefOps, ConnOps
  <1>2. conn[c].refs # 0
    BY <1>1, FS_EmptySet DEF RefInv
  <1> QED
    BY <1>2 DEF RefInv, Referred

(* A connection object is made with a number, or gives its number up; what  *)
(* the others have, and what is being closed, stays.                        *)
LEMMA KeptOnOne ==
    ASSUME DbcInv, ConnInv', ~careless', ~careless, NEW c \in Conns,
           \A e \in Conns : e # c => conn'[e] = conn[e],
           conn'[c].dbc = Null \/ conn'[c].there,
           \A v \in Works : Between(v)' => work'[v] = work[v] /\ work[v].conn # c,
           \A d \in Dbcs : dbc'[d] \in Raised =>
              \/ conn'[c].dbc = d
              \/ \E v \in Works : work'[v].got = d
              \/ /\ dbc'[d] = dbc[d] /\ conn[c].dbc # d
                 /\ \A v \in Works : work[v].got = d => work'[v].got = d,
           \A d \in Dbcs : \A e \in Conns :
              e # c /\ conn[e].dbc = d => dbc'[d] = dbc[d]
    PROVE  DbcInv'
  <1>0. Sane /\ Owned /\ Shut /\ DbcKept /\ Blank
    BY DEF DbcInv, ConnInv, RefInv, Careful
  <1>1. Blank'
    BY <1>0 DEF Blank
  <1>2. Shut'
    <2> SUFFICES ASSUME NEW w \in Works, Between(w)'
                 PROVE  Dbc(w)' = Null \/ dbc'[Dbc(w)'] \notin {"auto", "manual"}
      BY DEF Shut
    <2>1. work'[w] = work[w] /\ Between(w) /\ work[w].conn # c
      BY DEF Between
    <2>2. work[w].conn \in Conns /\ Dbc(w) \in Dbcs \cup {Null}
      BY <1>0, <2>1, Shapes, Numbers DEF Between, ConnOps
    <2>3. Dbc(w)' = Dbc(w) /\ conn[work[w].conn].dbc = Dbc(w)
      BY <2>1, <2>2 DEF Dbc
    <2>4. Dbc(w) # Null => dbc'[Dbc(w)] = dbc[Dbc(w)]
      BY <2>1, <2>2, <2>3
    <2> QED
      BY <1>0, <2>1, <2>3, <2>4 DEF Shut
  <1>3. DbcKept'
    <2> SUFFICES ASSUME NEW d \in Dbcs, dbc'[d] \in Raised PROVE HasDbcOwner(d)'
      BY DEF DbcKept
    <2>1. CASE conn'[c].dbc = d \/ \E v \in Works : work'[v].got = d
      BY <2>1 DEF HasDbcOwner
    <2>2. CASE /\ dbc'[d] = dbc[d] /\ conn[c].dbc # d
               /\ \A v \in Works : work[v].got = d => work'[v].got = d
      <3>1. HasDbcOwner(d)
        BY <1>0, <2>2 DEF DbcKept
      <3> QED
        BY <2>2, <3>1 DEF HasDbcOwner
    <2> QED
      BY <2>1, <2>2
  <1> QED
    BY <1>1, <1>2, <1>3 DEF DbcInv

(* Free leaves a handle free, or in its transaction. *)
LEMMA KeptFreed ==
    ASSUME DbcInv, ConnInv', ~careless', ~careless, NEW c \in Conns,
           Free(conn[c].dbc), conn'[c].dbc = Null,
           \A e \in Conns : e # c => conn'[e] = conn[e],
           UNCHANGED work, ~ConnInUse(c, Null)
    PROVE  DbcInv'
  <1>0. /\ Sane /\ Owned /\ \A e \in Conns : conn[e].dbc \in Dbcs \cup {Null}
        /\ dbc \in [Dbcs -> DbcStates]
    BY Numbers DEF DbcInv, ConnInv, RefInv, Careful, Sane, TypeOK, DbcStates
  <1>1. \A v \in Works : work[v].conn # c
    BY NullAssumption DEF ConnInUse
  <1>2. \A d \in Dbcs : d # conn[c].dbc => dbc'[d] = dbc[d]
    BY <1>0 DEF Free, FreedDbc
  <1>3. conn[c].dbc \in Dbcs => dbc'[conn[c].dbc] \notin Raised
    BY <1>0, NullAssumption DEF Free, FreedDbc, Disconnects, Raised, DbcStates
  <1>4. \A e \in Conns : e # c /\ conn[e].dbc # Null => conn[e].dbc # conn[c].dbc
    BY <1>0 DEF Owned, OnlyConn
  <1>5. \A d \in Dbcs : \A e \in Conns :
              e # c /\ conn[e].dbc = d => dbc'[d] = dbc[d]
    BY <1>2, <1>4, NullAssumption
  <1>6. \A v \in Works : Between(v)' => work'[v] = work[v] /\ work[v].conn # c
    BY <1>1
  <1>7. \A d \in Dbcs : dbc'[d] \in Raised =>
              /\ dbc'[d] = dbc[d] /\ conn[c].dbc # d
              /\ \A v \in Works : work[v].got = d => work'[v].got = d
    BY <1>2, <1>3
  <1> QED
    BY <1>5, <1>6, <1>7, KeptOnOne

LEMMA KeptSync ==
    ASSUME DbcInv, ConnInv', NEW c \in Conns, SyncStep(c) \/ CollectConnection(c)
    PROVE  DbcInv'
  <1>0. /\ Sane /\ conn[c].dbc \in Dbcs \cup {Null} /\ RefInv
        /\ conn \in [Conns -> ConnRecords] /\ dbc \in [Dbcs -> DbcStates]
    BY Numbers DEF DbcInv, ConnInv, RefInv, Sane, TypeOK, DbcStates
  <1>1. CASE CreateConnectionSync(c)
    <2>1. PICK d \in Dbcs \cup {Null} : AllocDbc(d) /\ NewConn(c, d)
      BY <1>1 DEF CreateConnectionSync
    <2>2. /\ conn'[c].dbc = d /\ conn'[c].there /\ ~conn[c].there
          /\ \A e \in Conns : e # c => conn'[e] = conn[e]
          /\ UNCHANGED <<work, careless>>
      BY <1>0, <1>1, <2>1 DEF NewConn, CreateConnectionSync
    <2>3. Blank'
      BY <2>2 DEF Blank, DbcInv
    <2> SUFFICES ASSUME ~careless' PROVE DbcInv'
      BY <2>3 DEF DbcInv
    <2>4. /\ \A g \in Dbcs : g # d => dbc'[g] = dbc[g]
          /\ d # Null => dbc[d] = "free"
      BY <1>0, <2>1 DEF AllocDbc
    <2>5. conn[c].dbc = Null
      BY <2>2 DEF DbcInv, Blank
    <2>6. \A e \in Conns : conn[e].dbc # Null => dbc[conn[e].dbc] # "free"
      BY <2>2 DEF DbcInv, ConnInv, Careful, Owned, OnlyConn
    <2>7. \A v \in Works : Between(v)' => work'[v] = work[v] /\ work[v].conn # c
      BY <1>0, <2>2, NothingOnAbsent DEF Between
    <2>8. \A g \in Dbcs : dbc'[g] \in Raised =>
              \/ conn'[c].dbc = g
              \/ /\ dbc'[g] = dbc[g] /\ conn[c].dbc # g
                 /\ \A v \in Works : work[v].got = g => work'[v].got = g
      BY <2>2, <2>4, <2>5, NullAssumption
    <2>9. \A g \in Dbcs : \A e \in Conns :
              e # c /\ conn[e].dbc = g => dbc'[g] = dbc[g]
      BY <2>4, <2>6, NullAssumption
    <2> QED
      BY <2>2, <2>7, <2>8, <2>9, KeptOnOne
  <1>2. CASE OpenSync(c) \/ SetAttrSync(c)
    <2>1. (~careless' => ~careless /\ ~BeingClosed(c)) /\ UNCHANGED work
      BY <1>0, <1>2, CarelessSays DEF OpenSync, SetAttrSync
    <2>2. ~careless' => RaisesOwn
      <3>1. ~BeingClosed(c) => \A v \in Works : Between(v) => work[v].conn # c
        BY DEF BeingClosed, Between
      <3> QED
        BY <1>0, <1>2, <2>1, <3>1, RaisedOwn DEF OpenSync, SetAttrSync
    <2>3. SameDbcs
      <3>1. CASE UNCHANGED conn
        BY <1>0, <3>1, DbcsSame
      <3>2. CASE \E ok \in MayConnect(conn[c].dbc) :
                    conn' = [conn EXCEPT ![c].connected = @ \/ ok]
        <4>1. PICK x : conn' = [conn EXCEPT ![c].connected = x]
          BY <3>2
        <4> QED
          BY <1>0, <4>1, DbcsSame
      <3> QED
        BY <1>2, <3>1, <3>2 DEF OpenSync, SetAttrSync
    <2> QED
      BY <2>1, <2>2, <2>3, SameStill, StillStep
  <1>3. CASE CloseSync(c) \/ CollectConnection(c)
    <2>1. /\ conn'[c].dbc = Null
          /\ \A e \in Conns : e # c => conn'[e] = conn[e]
      BY <1>0, <1>3 DEF CloseSync, CollectConnection, NoConn, ConnRecords
    <2>2. Blank'
      BY <2>1 DEF Blank, DbcInv
    <2> SUFFICES ASSUME ~careless' PROVE DbcInv'
      BY <2>2 DEF DbcInv
    <2>3. ~careless /\ ~ConnInUse(c, Null) /\ Free(conn[c].dbc) /\ UNCHANGED work
      BY <1>0, <1>3, CarelessSays DEF CloseSync, CollectConnection
    <2> QED
      BY <2>1, <2>3, KeptFreed
  <1>4. CASE FreesDbcOnly(c)
    <2>1. CASE Careless(TRUE)
      BY <1>0, <1>4, <2>1 DEF Careless, DbcInv, Blank, FreesDbcOnly
    <2>2. CASE UNCHANGED <<dbc, handle, careless>>
      BY <1>0, <1>4, <2>2, SameStill, DbcsSame, TouchedOwn, StillStep
         DEF FreesDbcOnly
    <2> QED
      BY <1>4, <2>1, <2>2 DEF FreesDbcOnly
  <1>5. ASSUME NEW o \in Objs, CreateStatementSync(c, o) PROVE DbcInv'
    BY <1>0, <1>5, CarelessSays, SameStill, DbcsSame, TouchedOwn, StillStep
       DEF CreateStatementSync
  <1>6. ASSUME NEW o \in Objs, QueriesSync(c, o) PROVE DbcInv'
    <2>1. RaisesOwn
      BY <1>0, <1>6, TouchedOwn DEF QueriesSync
    <2> QED
      BY <1>0, <1>6, <2>1, CarelessSays, SameStill, DbcsSame, StillStep
         DEF QueriesSync
  <1> QED
    BY <1>1, <1>2, <1>3, <1>4, <1>5, <1>6 DEF SyncStep

LEMMA KeptWorker ==
    ASSUME DbcInv, ConnInv', NEW w \in Works, WorkerStep(w)
    PROVE  DbcInv'
  <1>0. /\ Sane /\ conn \in [Conns -> ConnRecords] /\ dbc \in [Dbcs -> DbcStates]
        /\ \A e \in Conns : conn[e].dbc \in Dbcs \cup {Null}
        /\ work[w].op \in ConnOps =>
              work[w].conn \in Conns /\ Dbc(w) \in Dbcs \cup {Null}
        /\ WorkShape(work[w]) /\ WorkShape(work'[w])
        /\ Blank /\ (~careless => Careful /\ Shut /\ DbcKept)
    BY Numbers, Shapes
       DEF DbcInv, ConnInv, RefInv, Sane, TypeOK, DbcStates, Shaped
  <1>w. \A v \in Works :
           /\ work'[v].op = work[v].op /\ work'[v].conn = work[v].conn
           /\ v # w => work'[v] = work[v]
    BY <1>0, WorkerWork
  <1>1. ASSUME work[w].op \notin {"close", "createConnection"}, UNCHANGED conn,
               ~careless' => ~careless, ~careless' => RaisesOwn
        PROVE  DbcInv'
    <2>1. WorkStill
      BY <1>0, <1>1, <1>w, MovedStill
    <2> QED
      BY <1>0, <1>1, <2>1, DbcsSame, StillStep
  <1>2. CASE UV_CreateConnection(w)
    <2>1. PICK d \in Dbcs \cup {Null} :
             /\ AllocDbc(d)
             /\ work' = [work EXCEPT ![w].phase = "done", ![w].got = d]
      BY <1>2 DEF UV_CreateConnection
    <2>2. /\ work'[w].got = d /\ work[w].op = "createConnection"
          /\ work[w].got \notin Dbcs /\ UNCHANGED <<conn, careless>>
      <3>1. /\ work[w].op = "createConnection" /\ work[w].phase = "queued"
            /\ UNCHANGED <<conn, careless>>
        BY <1>2 DEF UV_CreateConnection, At
      <3>2. work \in [Works -> WorkRecords]
        BY <1>0 DEF Sane, TypeOK
      <3>3. work'[w].got = d
        BY <2>1, <3>2 DEF WorkRecords
      <3>4. work[w].got = Null
        BY <1>0, <3>1 DEF WorkShape
      <3> QED
        BY <3>1, <3>3, <3>4, NullAssumption
    <2>3. /\ \A g \in Dbcs : g # d => dbc'[g] = dbc[g]
          /\ d # Null => dbc[d] = "free"
      BY <1>0, <2>1 DEF AllocDbc
    <2>4. Blank'
      BY <1>0, <2>2 DEF Blank
    <2>5. ASSUME ~careless' PROVE Shut'
      <3> SUFFICES ASSUME NEW v \in Works, Between(v)'
                   PROVE  Dbc(v)' = Null \/ dbc'[Dbc(v)'] \notin {"auto", "manual"}
        BY DEF Shut
      <3>1. v # w /\ work'[v] = work[v] /\ Between(v)
        BY <1>w, <2>2 DEF Between
      <3>2. work[v].conn \in Conns
        BY <1>0, <3>1, Shapes DEF Between, ConnOps
      <3>3. Dbc(v)' = Dbc(v) /\ Dbc(v) \in Dbcs \cup {Null}
        BY <1>0, <2>2, <3>1, <3>2 DEF Dbc
      <3>4. Dbc(v) # Null => dbc[Dbc(v)] # "free"
        BY <1>0, <2>2, <2>5, <3>2 DEF Dbc, Careful, Owned, OnlyConn
      <3>5. Dbc(v) # Null => dbc'[Dbc(v)] = dbc[Dbc(v)]
        BY <2>3, <3>3, <3>4
      <3> QED
        BY <1>0, <2>2, <2>5, <3>1, <3>3, <3>5 DEF Shut
    <2>6. ASSUME ~careless' PROVE DbcKept'
      <3> SUFFICES ASSUME NEW g \in Dbcs, dbc'[g] \in Raised PROVE HasDbcOwner(g)'
        BY DEF DbcKept
      <3>1. CASE g = d
        BY <2>2, <3>1 DEF HasDbcOwner
      <3>2. CASE g # d
        <4>1. HasDbcOwner(g)
          BY <1>0, <2>2, <2>3, <2>6, <3>2 DEF DbcKept
        <4> QED
          BY <1>w, <2>2, <4>1 DEF HasDbcOwner
      <3> QED
        BY <3>1, <3>2
    <2> QED
      BY <2>4, <2>5, <2>6 DEF DbcInv
  <1>3. CASE UV_Open(w) \/ SetsAttr(w)
    <2>1. /\ work[w].op \in {"open", "setAttr", "begin", "end"}
          /\ work[w].op \in ConnOps /\ UNCHANGED <<conn, careless>>
      BY <1>3 DEF UV_Open, SetsAttr, At, ConnOps
    <2>2. PICK c \in Conns : c = work[w].conn
      BY <1>0, <2>1
    <2>3. ~careless => \A v \in Works : Between(v) => work[v].conn # c
      BY <1>0, <2>1, <2>2 DEF Careful, ClosesAlone, Shutting, Between
    <2>4. \/ \E on : Autocommit(conn[c].dbc, on)
          \/ EndsTran(conn[c].dbc)
          \/ \E ok \in MayConnect(conn[c].dbc) : Connects(conn[c].dbc, ok)
      BY <1>3, <2>2 DEF UV_Open, SetsAttr, Dbc
    <2>5. ~careless' => RaisesOwn
      BY <1>0, <2>1, <2>3, <2>4, RaisedOwn, TouchedOwn
    <2> QED
      BY <1>1, <2>1, <2>5
  <1>4. CASE UV_CloseDisconnects(w)
    <2>1. /\ work[w].op = "close" /\ work[w].op \in ConnOps /\ UNCHANGED conn
          /\ ~careless' => ~careless
      BY <1>0, <1>4, CarelessSays DEF UV_CloseDisconnects, At, ConnOps
    <2>2. PICK c \in Conns : c = work[w].conn
      BY <1>0, <2>1
    <2>3. /\ \A d \in Dbcs : dbc'[d] \in {"auto", "manual"} =>
                dbc'[d] = dbc[d] /\ d # conn[c].dbc
          /\ \A d \in Dbcs : d # conn[c].dbc => dbc'[d] = dbc[d]
      <3>1. Dbc(w) = conn[c].dbc
        BY <2>2 DEF Dbc
      <3>2. CASE Disconnects(conn[c].dbc)
        <4>1. dbc' = [dbc EXCEPT ![conn[c].dbc] = "allocated"]
          BY <1>4, <3>1, <3>2 DEF UV_CloseDisconnects
        <4> QED
          BY <1>0, <4>1
      <3>3. CASE ~Disconnects(conn[c].dbc)
        <4>1. dbc' = dbc
          BY <1>4, <3>1, <3>3 DEF UV_CloseDisconnects
        <4> QED
          BY <3>3, <4>1, NullAssumption DEF Disconnects
      <3> QED
        BY <3>2, <3>3
    <2>4. Blank'
      BY <1>0, <2>1 DEF Blank
    <2>5. ASSUME ~careless' PROVE Shut'
      <3> SUFFICES ASSUME NEW v \in Works, Between(v)'
                   PROVE  Dbc(v)' = Null \/ dbc'[Dbc(v)'] \notin {"auto", "manual"}
        BY DEF Shut
      <3>1. work[v].op = "close" /\ work'[v].conn = work[v].conn /\ work[v].conn \in Conns
        BY <1>0, <1>w, Shapes DEF Between, ConnOps
      <3>2. Dbc(v)' = conn[work[v].conn].dbc /\ Dbc(v)' \in Dbcs \cup {Null}
        BY <1>0, <2>1, <3>1 DEF Dbc
      <3>3. CASE v = w
        BY <2>2, <2>3, <3>2, <3>3
      <3>4. CASE v # w
        <4>1. Between(v) /\ Dbc(v) = conn[work[v].conn].dbc
          BY <1>w, <3>4 DEF Between, Dbc
        <4> QED
          BY <1>0, <2>1, <2>3, <2>5, <3>2, <4>1 DEF Shut
      <3> QED
        BY <3>3, <3>4
    <2>6. ASSUME ~careless' PROVE DbcKept'
      <3> SUFFICES ASSUME NEW g \in Dbcs, dbc'[g] \in Raised PROVE HasDbcOwner(g)'
        BY DEF DbcKept
      <3>1. CASE g = conn[c].dbc
        BY <2>1, <3>1 DEF HasDbcOwner
      <3>2. CASE g # conn[c].dbc
        <4>1. HasDbcOwner(g)
          BY <1>0, <2>1, <2>3, <2>6, <3>2 DEF DbcKept
        <4>2. work[w].got \notin Dbcs
          BY <1>0, <2>1 DEF WorkShape
        <4> QED
          BY <1>w, <2>1, <4>1, <4>2 DEF HasDbcOwner
      <3> QED
        BY <3>1, <3>2
    <2> QED
      BY <2>4, <2>5, <2>6 DEF DbcInv
  <1>5. CASE UV_Close(w)
    <2>1. /\ work[w].op = "close" /\ Between(w) /\ work[w].op \in ConnOps
          /\ UNCHANGED careless
      BY <1>5 DEF UV_Close, At, ConnOps, Between
    <2>2. PICK c \in Conns : c = work[w].conn
      BY <1>0, <2>1
    <2>3. conn' = [conn EXCEPT ![c].dbc = Null, ![c].connected = FALSE]
      BY <1>5, <2>2 DEF UV_Close
    <2>4. conn'[c].dbc = Null /\ \A e \in Conns : e # c => conn'[e] = conn[e]
      BY <1>0, <2>3 DEF ConnRecords
    <2>5. Blank'
      BY <1>0, <2>4 DEF Blank
    <2> SUFFICES ASSUME ~careless' PROVE DbcInv'
      BY <2>5 DEF DbcInv
    <2>6. /\ \A d \in Dbcs : d # conn[c].dbc => dbc'[d] = dbc[d]
          /\ conn[c].dbc # Null => dbc'[conn[c].dbc] \notin Raised
      <3>1. dbc' = FreedDbc(conn[c].dbc)
        BY <1>5, <2>2 DEF UV_Close, Dbc
      <3>2. conn[c].dbc # Null => dbc[conn[c].dbc] \notin {"auto", "manual"}
        BY <1>0, <2>1, <2>2 DEF Shut, Dbc
      <3> QED
        BY <1>0, <3>1, <3>2 DEF FreedDbc, Raised, DbcStates
    <2>7. \A v \in Works : Between(v)' => work'[v] = work[v] /\ work[v].conn # c
      <3>1. work'[w].phase = "done"
        BY <1>0, <1>5 DEF UV_Close, Done, Sane, TypeOK, WorkRecords
      <3> QED
        BY <1>0, <1>w, <2>1, <2>2, <3>1
           DEF Between, Careful, ClosesAlone, Shutting
    <2>8. work[w].got \notin Dbcs
      BY <1>0, <2>1 DEF WorkShape
    <2>9. \A d \in Dbcs : dbc'[d] \in Raised =>
              /\ dbc'[d] = dbc[d] /\ conn[c].dbc # d
              /\ \A v \in Works : work[v].got = d => work'[v].got = d
      BY <1>w, <2>6, <2>8, NullAssumption
    <2>10. \A d \in Dbcs : \A e \in Conns :
              e # c /\ conn[e].dbc = d => dbc'[d] = dbc[d]
      BY <1>0, <2>1, <2>6, NullAssumption DEF Careful, Owned, OnlyConn
    <2> QED
      BY <2>1, <2>4, <2>7, <2>9, <2>10, KeptOnOne
  <1>6. CASE UV_CloseFrees(w)
    <2>1. ~careless' => ~careless
      BY <1>0, <1>6, CarelessSays DEF UV_CloseFrees
    <2> QED
      BY <1>0, <1>1, <1>6, <2>1, TouchedOwn DEF UV_CloseFrees, At
  <1>7. CASE UV_CloseForgets(w) \/ Plain(w)
    BY <1>0, <1>1, <1>7, TouchedOwn DEF UV_CloseForgets, Plain, At
  <1>8. CASE ExecutesFor(w)
    <2>1. RaisesOwn
      BY <1>0, <1>8, Shapes, TouchedOwn DEF ExecutesFor, Executes
    <2> QED
      BY <1>1, <1>8, <2>1 DEF ExecutesFor, Executes
  <1>9. ASSUME NEW phase \in {"done", "between"}, AllocatesFor(w, phase)
        PROVE  DbcInv'
    BY <1>0, <1>1, <1>9, TouchedOwn DEF AllocatesFor, Allocates
  <1> QED
    BY <1>2, <1>3, <1>4, <1>5, <1>6, <1>7, <1>8, <1>9 DEF WorkerStep

LEMMA KeptHandler ==
    ASSUME DbcInv, ConnInv', NEW w \in Works, HandlerStep(w)
    PROVE  DbcInv'
  <1>0. /\ Sane /\ RefInv /\ conn \in [Conns -> ConnRecords]
        /\ WorkShape(work[w]) /\ Blank
        /\ work[w].op \in ConnOps => work[w].conn \in Conns
    BY Shapes DEF DbcInv, ConnInv, RefInv, Sane, TypeOK
  <1>e. Ends(w) =>
           /\ work'[w].got = Null /\ work'[w].phase = "idle"
           /\ \A v \in Works : v # w => work'[v] = work[v]
    BY <1>0, WorkEnded DEF NoWork
  <1>1. ASSUME Ends(w), work[w].op # "createConnection", SameDbcs,
               UNCHANGED <<dbc, careless>>
        PROVE  DbcInv'
    BY <1>0, <1>1, EndedStill, TouchedOwn, StillStep
  <1>2. CASE UV_AfterCreateConnection(w)
    <2>1. Ends(w) /\ work[w].op = "createConnection" /\ UNCHANGED <<dbc, careless>>
      BY <1>2 DEF UV_AfterCreateConnection, At
    <2>2. CASE work[w].got = Null /\ UNCHANGED conn
      <3>1. WorkStill
        BY <1>e, <2>1, <2>2, NullAssumption DEF WorkStill, Between
      <3> QED
        BY <1>0, <2>1, <2>2, <3>1, DbcsSame, TouchedOwn, StillStep
    <2>3. CASE work[w].got # Null /\ \E c \in Conns : NewConn(c, work[w].got)
      <3>1. PICK c \in Conns : NewConn(c, work[w].got)
        BY <2>3
      <3>3. /\ conn'[c].dbc = work[w].got /\ conn'[c].there /\ ~conn[c].there
            /\ \A e \in Conns : e # c => conn'[e] = conn[e]
        BY <1>0, <3>1 DEF NewConn
      <3>4. Blank'
        BY <1>0, <3>3 DEF Blank
      <3> SUFFICES ASSUME ~careless' PROVE DbcInv'
        BY <3>4 DEF DbcInv
      <3>5. conn[c].dbc = Null
        BY <1>0, <3>3 DEF Blank
      <3>6. \A v \in Works : Between(v)' => work'[v] = work[v] /\ work[v].conn # c
        BY <1>0, <1>e, <2>1, <3>3, NothingOnAbsent DEF Between
      <3>7. \A d \in Dbcs : dbc'[d] \in Raised =>
              \/ conn'[c].dbc = d
              \/ /\ dbc'[d] = dbc[d] /\ conn[c].dbc # d
                 /\ \A v \in Works : work[v].got = d => work'[v].got = d
        BY <1>e, <2>1, <3>3, <3>5, NullAssumption
      <3> QED
        BY <2>1, <3>3, <3>6, <3>7, KeptOnOne
    <2> QED
      BY <1>2, <2>2, <2>3 DEF UV_AfterCreateConnection
  <1>3. CASE UV_AfterOpen(w)
    <2>1. work[w].op \in ConnOps /\ work[w].op # "createConnection"
      BY <1>3 DEF UV_AfterOpen, At, ConnOps
    <2>2. PICK c \in Conns : c = work[w].conn
      BY <1>0, <2>1
    <2>3. PICK x : conn' = [conn EXCEPT ![c].refs = @ - 1, ![c].connected = x]
      BY <1>3, <2>2 DEF UV_AfterOpen
    <2>4. SameDbcs
      BY <1>0, <2>3, DbcsSame
    <2> QED
      BY <1>1, <1>3, <2>1, <2>4 DEF UV_AfterOpen
  <1>4. CASE Finishes(w) \/ Hands(w) \/ GivesBack(w)
    <2>1. work[w].op \in ConnOps /\ work[w].op # "createConnection"
      BY <1>4 DEF Finishes, Hands, GivesBack, ConnOps
    <2>2. SameDbcs
      BY <1>0, <1>4, <2>1, DbcsSame DEF Finishes, Hands, GivesBack
    <2> QED
      BY <1>1, <1>4, <2>1, <2>2 DEF Finishes, Hands, GivesBack
  <1>5. CASE EndsOnly(w)
    BY <1>0, <1>1, <1>5, DbcsSame DEF EndsOnly
  <1>6. CASE ReportsLate(w)
    <2>1. WorkStill
      BY <1>0, <1>6, MovedStill DEF ReportsLate, Sane, TypeOK, WorkRecords
    <2> QED
      BY <1>0, <1>6, <2>1, DbcsSame, TouchedOwn, StillStep DEF ReportsLate
  <1> QED
    BY <1>2, <1>3, <1>4, <1>5, <1>6 DEF HandlerStep

LEMMA DbcKeptAll == DbcInv /\ [Next]_vars => DbcInv'
  <1> SUFFICES ASSUME DbcInv, [Next]_vars PROVE DbcInv'
    OBVIOUS
  <1>0. ConnInv'
    BY CarefulKept DEF DbcInv
  <1>1. CASE Next
    BY <1>0, <1>1, Steps, KeptCalls, KeptSync, KeptWorker, KeptHandler DEF Step
  <1>2. CASE UNCHANGED vars
    BY <1>0, <1>2, SameStill, DbcsSame, TouchedOwn, StillStep
       DEF DbcInv, ConnInv, RefInv, vars
  <1> QED
    BY <1>1, <1>2

LEMMA InitKept == Init => DbcInv
  <1> SUFFICES ASSUME Init PROVE DbcInv
    OBVIOUS
  <1>1. Shut /\ DbcKept /\ Blank
    BY DEF Init, NoWork, NoConn, Shut, Between, DbcKept, Raised, Blank
  <1> QED
    BY <1>1, InitCareful DEF DbcInv

(* Whoever allocates a statement handle hands it on or has it freed, on     *)
(* every path of every handler: one that nobody has any more is one that    *)
(* the driver has refused to free, and a connection handle that nobody has  *)
(* any more is one that was closed within its transaction.                  *)
THEOREM NothingForgotten == Spec => []NoLeak
  <1>1. LeakInv /\ DbcInv => NoLeak
    <2> SUFFICES ASSUME LeakInv, DbcInv PROVE NoLeak
      OBVIOUS
    <2>1. ASSUME NEW h \in Stmts, handle[h] # Null
          PROVE  Owners(h) # {} \/ h \in refused
      <3>1. HasOwner(h) \/ h \in refused
        BY <2>1 DEF LeakInv
      <3> QED
        BY <3>1 DEF HasOwner, OwnsObj, OwnsWork, Owners
    <2>2. ASSUME NEW d \in Dbcs, dbc[d] # "free", dbc[d] # "tx", ~careless
          PROVE  DbcOwners(d) # {}
      <3>1. dbc[d] \in Raised
        BY <2>2 DEF LeakInv, Sane, TypeOK, Raised
      <3>2. HasDbcOwner(d)
        BY <2>2, <3>1 DEF DbcInv, DbcKept
      <3> QED
        BY <3>2 DEF HasDbcOwner, DbcOwners
    <2> QED
      BY <2>1, <2>2 DEF NoLeak
  <1> QED
    BY <1>1, InitLeak, LeakKept, InitKept, DbcKeptAll, PTL DEF Spec
=============================================================================
