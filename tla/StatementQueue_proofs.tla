------------------------ MODULE StatementQueue_proofs ------------------------
(***************************************************************************)
(* Proofs about StatementQueue, for every number of calls: they reach the  *)
(* driver one at a time, parameters outlive what reads them, errors are    *)
(* delivered to the calls that met them.                                   *)
(***************************************************************************)
EXTENDS StatementQueue, FiniteSetTheorems, TLAPS

-----------------------------------------------------------------------------
(* Types: the native object. *)

Rets == {"ok", "info", "noData", "need", "error", "invalid"}
Needs == {"no", "asked", "token", "data"}
Phases == {"idle", "queued", "running", "dropping", "done", "blocked", "endless"}

WorkRecords == [op : Ops, phase : Phases, ret : Rets, read : Someone]
StmtRecords == [open : BOOLEAN, params : Someone, late : Someone]
Faults == {"freedInUse", "freedRead", "foreignOutputs", "foreignError",
           "wipedError"}

LEMMA NoWorkTyped ==
    /\ Nobody \in Someone
    /\ NoWork \in WorkRecords /\ NoWork.op = "none" /\ NoWork.phase = "idle"
    /\ \A o \in Ops, p \in Phases :
          [NoWork EXCEPT !.op = o, !.phase = p] \in WorkRecords
  BY DEF NoWork, WorkRecords, Someone, Rets, Phases, Ops

(* The work of a call is replaced. *)
LEMMA WorkTyped ==
    ASSUME work \in [Calls -> WorkRecords], NEW c \in Calls,
           NEW r \in WorkRecords, work' = [work EXCEPT ![c] = r]
    PROVE  work' \in [Calls -> WorkRecords]
  OBVIOUS

LEMMA Native ==
    NativeTypeOK <=>
        /\ stmt \in StmtRecords
        /\ shape \in [Calls -> {"plain", "chunked", "streaming"}]
        /\ cli \in [alive : BOOLEAN, bound : Someone, needs : Needs,
                    diag : Someone]
        /\ work \in [Calls -> WorkRecords]
        /\ js \in Someone
        /\ faults \subseteq Faults
  BY DEF NativeTypeOK, WorkRecords, StmtRecords, Faults, Rets, Needs, Phases

LEMMA FaultsTyped ==
    /\ FreeFaults \subseteq Faults /\ ReadFaults \subseteq Faults
    /\ \A c \in Calls : OutputFaults(c) \subseteq Faults
                        /\ ErrorRead(c) \subseteq Faults
  BY DEF FreeFaults, ReadFaults, OutputFaults, ErrorRead, Faults

LEMMA DiagnosedTyped ==
    ASSUME NativeTypeOK, NEW c \in Someone, NEW n \in Needs
    PROVE  /\ Diagnosed(c) \in [alive : BOOLEAN, bound : Someone, needs : Needs,
                                diag : Someone]
           /\ [Diagnosed(c) EXCEPT !.needs = n] \in
                  [alive : BOOLEAN, bound : Someone, needs : Needs, diag : Someone]
  BY Native DEF Diagnosed

LEMMA OutcomesTyped ==
    /\ \A normal \in SUBSET Rets : Outcomes(normal) \subseteq Rets
    /\ Outcomes({"ok"}) \subseteq Rets /\ Outcomes({"ok", "error"}) \subseteq Rets
    /\ NativeTypeOK => /\ ExecuteOutcomes \subseteq Rets \X Needs
                       /\ StreamingOutcomes \subseteq Rets \X Needs
                       /\ ParamOutcomes \subseteq Rets \X Needs
                       /\ PutOutcomes \subseteq Rets \X Needs
  <1>1. \A normal \in SUBSET Rets : Outcomes(normal) \subseteq Rets
    BY DEF Outcomes, Rets
  <1>2. {} \in SUBSET Rets /\ Results \in SUBSET Rets
        /\ {"ok"} \in SUBSET Rets /\ {"ok", "error"} \in SUBSET Rets
    BY DEF Results, Rets
  <1>3. ASSUME NativeTypeOK
        PROVE  /\ ExecuteOutcomes \subseteq Rets \X Needs
               /\ StreamingOutcomes \subseteq Rets \X Needs
               /\ ParamOutcomes \subseteq Rets \X Needs
               /\ PutOutcomes \subseteq Rets \X Needs
    <2>1. cli.needs \in Needs
      BY <1>3, Native
    <2>2. /\ \A r \in Outcomes({}) : r \in Rets
          /\ \A r \in Outcomes(Results) : r \in Rets
      BY <1>1, <1>2
    <2>3. LoopOutcomes \subseteq Rets \X Needs
      BY DEF LoopOutcomes, Results, Rets, Needs
    <2>4. ExecuteOutcomes \subseteq Rets \X Needs
      BY <2>1, <2>2, <2>3 DEF ExecuteOutcomes, Results, Rets, Needs
    <2>5. StreamingOutcomes \subseteq Rets \X Needs
      BY <2>1, <2>2 DEF StreamingOutcomes, Results, Rets, Needs
    <2>6. ParamOutcomes \subseteq Rets \X Needs
      BY <2>1 DEF ParamOutcomes, Results, Rets, Needs
    <2>7. PutOutcomes \subseteq Rets \X Needs
      BY <2>1 DEF PutOutcomes, Results, Rets, Needs
    <2> QED
      BY <2>4, <2>5, <2>6, <2>7
  <1> QED
    BY <1>1, <1>2, <1>3

(* The methods that queue work. *)
LEMMA QueuesTyped ==
    ASSUME NativeTypeOK, NEW c \in Calls, NEW o \in Ops, Queues(c, o)
    PROVE  NativeTypeOK'
  <1>1. [NoWork EXCEPT !.op = o, !.phase = "queued"] \in WorkRecords
    BY NoWorkTyped DEF Phases
  <1>2. work' \in [Calls -> WorkRecords]
    BY <1>1, Native, WorkTyped DEF Queues
  <1> QED
    BY <1>2, Native DEF Queues, NativeTypeOK, WorkRecords, Rets, Phases

LEMMA MakesTyped ==
    ASSUME NativeTypeOK, NEW c \in Calls, Makes(c)
    PROVE  /\ stmt' \in StmtRecords
           /\ shape' \in [Calls -> {"plain", "chunked", "streaming"}]
           /\ faults' \subseteq Faults
  BY Native, FaultsTyped, ShapesAssumption DEF StmtRecords, Faults, Makes, Someone

(* A step that changes the work of one call to another well-formed record. *)
LEMMA StepTyped ==
    ASSUME NativeTypeOK, NEW c \in Calls, NEW r \in WorkRecords,
           work' = [work EXCEPT ![c] = r] \/ work' = work,
           stmt' \in StmtRecords,
           shape' \in [Calls -> {"plain", "chunked", "streaming"}],
           cli' \in [alive : BOOLEAN, bound : Someone, needs : Needs,
                     diag : Someone],
           js' \in Someone,
           faults' \subseteq Faults
    PROVE  NativeTypeOK'
  <1>1. work' \in [Calls -> WorkRecords]
    BY Native, WorkTyped
  <1> QED
    BY <1>1 DEF StmtRecords, Faults, NativeTypeOK, WorkRecords, Rets, Phases, Needs

LEMMA ReturnTyped ==
    ASSUME NativeTypeOK, NEW c \in Calls, NEW r \in Rets, Return(c, r)
    PROVE  \E w \in WorkRecords : work' = [work EXCEPT ![c] = w]
  <1>1. work \in [Calls -> WorkRecords] /\ work[c] \in WorkRecords
    BY Native
  <1>2. [work[c] EXCEPT !.phase = "done", !.ret = r] \in WorkRecords
    BY <1>1 DEF WorkRecords, Phases
  <1>3. work' = [work EXCEPT ![c] = [work[c] EXCEPT !.phase = "done", !.ret = r]]
    BY <1>1 DEF Return
  <1> QED
    BY <1>2, <1>3

LEMMA BindTyped ==
    ASSUME NativeTypeOK, NEW c \in Calls, Bind(c)
    PROVE  NativeTypeOK'
  <1> DEFINE r == [NoWork EXCEPT !.op = "bind", !.phase = "queued"]
  <1>1. r \in WorkRecords
    BY NoWorkTyped DEF Phases, Ops
  <1>2. Makes(c) /\ work' = [work EXCEPT ![c] = r] /\ UNCHANGED <<cli, js>>
    BY DEF Bind
  <1> HIDE DEF r
  <1> QED
    BY <1>1, <1>2, MakesTyped, StepTyped, Native

(* What the threads of the pool do. *)
LEMMA WorkerTyped ==
    ASSUME NativeTypeOK, NEW c \in Calls, Worker(c)
    PROVE  NativeTypeOK'
  <1>0. /\ stmt \in StmtRecords
        /\ shape \in [Calls -> {"plain", "chunked", "streaming"}]
        /\ cli \in [alive : BOOLEAN, bound : Someone, needs : Needs,
                    diag : Someone]
        /\ work \in [Calls -> WorkRecords] /\ work[c] \in WorkRecords
        /\ js \in Someone
        /\ faults \subseteq Faults
        /\ c \in Someone /\ Nobody \in Someone /\ cli.bound \in Someone
    BY Native DEF Someone
  <1>d. /\ \A n \in Needs : [Diagnosed(c) EXCEPT !.needs = n] \in
              [alive : BOOLEAN, bound : Someone, needs : Needs, diag : Someone]
        /\ Diagnosed(c) \in
              [alive : BOOLEAN, bound : Someone, needs : Needs, diag : Someone]
        /\ \A x \in Someone : [Diagnosed(c) EXCEPT !.bound = x] \in
              [alive : BOOLEAN, bound : Someone, needs : Needs, diag : Someone]
    BY <1>0, DiagnosedTyped
  <1>1. CASE UV_BindEnters(c)
    <2> DEFINE r == [work[c] EXCEPT !.phase = "running", !.read = stmt.params]
    <2>1. r \in WorkRecords
      BY <1>0 DEF StmtRecords, WorkRecords, Phases
    <2>2. work' = [work EXCEPT ![c] = r]
      BY <1>0, <1>1 DEF UV_BindEnters
    <2>3. UNCHANGED <<stmt, shape, cli, js, faults>>
      BY <1>1 DEF UV_BindEnters
    <2> HIDE DEF r
    <2> QED
      BY <1>0, <2>1, <2>2, <2>3, StepTyped
  <1>2. CASE UV_BindReturns(c)
    <2>1. PICK r \in Rets : Return(c, r)
      BY <1>2, OutcomesTyped DEF UV_BindReturns
    <2>2. cli' \in [alive : BOOLEAN, bound : Someone, needs : Needs, diag : Someone]
      BY <1>0, <1>d, <1>2 DEF UV_BindReturns, WorkRecords
    <2>3. UNCHANGED <<stmt, shape, js, faults>>
      BY <1>2 DEF UV_BindReturns
    <2> QED
      BY <1>0, <2>1, <2>2, <2>3, ReturnTyped, StepTyped
  <1>3. CASE \E o \in {"execute", "nonQuery", "direct", "streaming"} : Enters(c, o)
    <2>1. PICK o \in {"execute", "nonQuery", "direct", "streaming"} : Enters(c, o)
      BY <1>3
    <2> DEFINE x == IF o = "direct" THEN Nobody ELSE cli.bound
               r == [work[c] EXCEPT !.phase = "running", !.read = x]
    <2>2. x \in Someone
      BY <1>0
    <2>3. work' = [work EXCEPT ![c] = r]
      BY <1>0, <2>1 DEF Enters
    <2> HIDE DEF x
    <2>4. r \in WorkRecords
      BY <1>0, <2>2 DEF WorkRecords, Phases
    <2>5. /\ faults' \subseteq Faults
          /\ UNCHANGED <<stmt, shape, cli, js>>
      BY <1>0, <2>1, FaultsTyped DEF Enters
    <2> HIDE DEF r
    <2> QED
      BY <1>0, <2>3, <2>4, <2>5, StepTyped
  <1>4. CASE \E o \in Ops, xs \in SUBSET (Rets \X Needs) :
                 Leaves(c, o, xs) \/ Sends(c, o, xs)
    <2>1. PICK x \in Rets \X Needs :
             /\ Return(c, x[1]) /\ cli' = [Diagnosed(c) EXCEPT !.needs = x[2]]
             /\ UNCHANGED <<stmt, shape, js, faults>>
      BY <1>4 DEF Leaves, Sends
    <2>2. x[1] \in Rets /\ x[2] \in Needs
      OBVIOUS
    <2>3. cli' \in [alive : BOOLEAN, bound : Someone, needs : Needs, diag : Someone]
      BY <1>d, <2>1, <2>2
    <2> QED
      BY <1>0, <2>1, <2>2, <2>3, ReturnTyped, StepTyped
  <1>5. CASE \E o \in Ops, normal \in SUBSET Rets : WorkerCalls(c, o, normal)
    <2>1. PICK r \in Rets : Return(c, r)
      BY <1>5, OutcomesTyped DEF WorkerCalls
    <2>2. cli' = Diagnosed(c) /\ UNCHANGED <<stmt, shape, js, faults>>
      BY <1>5 DEF WorkerCalls
    <2> QED
      BY <1>0, <1>d, <2>1, <2>2, ReturnTyped, StepTyped
  <1>6. CASE UV_CloseFreesParams(c)
    <2> DEFINE r == [work[c] EXCEPT !.phase = "dropping"]
    <2>1. r \in WorkRecords
      BY <1>0 DEF WorkRecords, Phases
    <2>2. work' = [work EXCEPT ![c] = r]
      BY <1>0, <1>6 DEF UV_CloseFreesParams
    <2>3. /\ faults' \subseteq Faults
          /\ stmt' \in StmtRecords
          /\ UNCHANGED <<shape, cli, js>>
      BY <1>0, <1>6, FaultsTyped DEF StmtRecords, UV_CloseFreesParams
    <2> HIDE DEF r
    <2> QED
      BY <1>0, <2>1, <2>2, <2>3, StepTyped
  <1>7. CASE UV_Close(c)
    <2>1. PICK r \in Rets : Return(c, r)
      <3>1. "ok" \in Rets
        BY DEF Rets
      <3> QED
        BY <1>7, <3>1, OutcomesTyped DEF UV_Close
    <2>2. /\ stmt' \in StmtRecords
          /\ cli' \in [alive : BOOLEAN, bound : Someone, needs : Needs,
                       diag : Someone]
      <3>1. CASE FreeHandle
        BY <1>0, <3>1 DEF StmtRecords, FreeHandle
      <3>2. CASE UNCHANGED stmt /\ \E o \in Options : cli' = FreeStmt(c, o)
        BY <1>0, <1>d, <3>2 DEF FreeStmt
      <3> QED
        BY <1>7, <3>1, <3>2 DEF UV_Close, Options
    <2>3. UNCHANGED <<shape, js, faults>>
      BY <1>7 DEF UV_Close
    <2> QED
      BY <1>0, <2>1, <2>2, <2>3, ReturnTyped, StepTyped
  <1>8. CASE UV_Cancel(c)
    <2>1. PICK r \in Rets : Return(c, r)
      BY <1>8 DEF UV_Cancel, Rets
    <2>2. "no" \in Needs /\ Diagnosed(c).needs \in Needs
      BY <1>d DEF Needs
    <2>3. cli' \in [alive : BOOLEAN, bound : Someone, needs : Needs, diag : Someone]
      BY <1>d, <1>8, <2>2 DEF UV_Cancel, Cancelled
    <2>4. UNCHANGED <<stmt, shape, js, faults>>
      BY <1>8 DEF UV_Cancel
    <2> QED
      BY <1>0, <2>1, <2>3, <2>4, ReturnTyped, StepTyped
  <1> QED
    <2>1. /\ {"ok", "error"} \in SUBSET Rets
          /\ {<<r, cli.needs>> : r \in Outcomes(Results)} \in SUBSET (Rets \X Needs)
      <3>1. Results \in SUBSET Rets
        BY DEF Results, Rets
      <3>2. Outcomes(Results) \subseteq Rets
        BY <3>1, OutcomesTyped
      <3> QED
        BY <1>0, <3>2 DEF Rets
    <2>2. {"execute", "nonQuery", "direct", "streaming", "paramData", "putData",
           "prepare", "setAttr", "primaryKeys", "foreignKeys", "procedures",
           "procedureColumns"} \subseteq Ops
      BY DEF Ops
    <2>3. /\ ExecuteOutcomes \in SUBSET (Rets \X Needs)
          /\ StreamingOutcomes \in SUBSET (Rets \X Needs)
          /\ ParamOutcomes \in SUBSET (Rets \X Needs)
          /\ PutOutcomes \in SUBSET (Rets \X Needs)
      BY OutcomesTyped
    <2>4. CASE UV_ExecuteEnters(c) \/ UV_ExecuteNonQueryEnters(c)
               \/ UV_ExecuteDirectEnters(c) \/ UV_ExecuteForStreamingEnters(c)
      BY <1>3, <2>4 DEF UV_ExecuteEnters, UV_ExecuteNonQueryEnters,
                        UV_ExecuteDirectEnters, UV_ExecuteForStreamingEnters
    <2>5. CASE UV_Execute(c) \/ UV_ExecuteNonQuery(c) \/ UV_ExecuteDirect(c)
               \/ UV_ExecuteForStreaming(c) \/ UV_ParamData(c) \/ UV_PutData(c)
      BY <1>4, <2>1, <2>2, <2>3, <2>5
         DEF UV_Execute, UV_ExecuteNonQuery, UV_ExecuteDirect,
             UV_ExecuteForStreaming, UV_ParamData, UV_PutData
    <2>6. CASE UV_Prepare(c) \/ UV_SetAttr(c) \/ UV_PrimaryKeys(c)
               \/ UV_ForeignKeys(c) \/ UV_Procedures(c) \/ UV_ProcedureColumns(c)
      BY <1>5, <2>1, <2>2, <2>6
         DEF UV_Prepare, UV_SetAttr, UV_PrimaryKeys, UV_ForeignKeys,
             UV_Procedures, UV_ProcedureColumns, Catalog
    <2> QED
      BY <1>1, <1>2, <1>6, <1>7, <1>8, <2>4, <2>5, <2>6 DEF Worker

(* The handlers of finished work. *)
LEMMA DeliversTyped ==
    ASSUME NativeTypeOK, NEW c \in Calls, NEW o, Delivers(c, o),
           stmt' \in StmtRecords,
           cli' \in [alive : BOOLEAN, bound : Someone, needs : Needs,
                     diag : Someone],
           faults' \subseteq Faults,
           UNCHANGED <<shape, js>>
    PROVE  NativeTypeOK'
  <1>1. work' = [work EXCEPT ![c] = NoWork]
    BY DEF Delivers
  <1> QED
    BY <1>1, Native, NoWorkTyped, StepTyped

LEMMA ReportsTyped ==
    ASSUME NativeTypeOK, NEW c \in Calls, NEW o, Reports(c, o)
    PROVE  NativeTypeOK'
  BY Native, FaultsTyped, DeliversTyped DEF Reports

LEMMA AfterExecutionTyped ==
    ASSUME NativeTypeOK, NEW c \in Calls,
           UV_AfterExecute(c) \/ UV_AfterExecuteNonQuery(c)
    PROVE  NativeTypeOK'
  <1>1. CASE UV_AfterExecute(c)
    <2>1. stmt' \in StmtRecords
      BY <1>1, Native DEF StmtRecords, UV_AfterExecute, Someone
    <2>2. faults' \subseteq Faults
      BY <1>1, Native, FaultsTyped DEF UV_AfterExecute
    <2> QED
      BY <1>1, <2>1, <2>2, Native, DeliversTyped DEF UV_AfterExecute
  <1>2. CASE UV_AfterExecuteNonQuery(c)
    <2>1. /\ cli' = Diagnosed(Nobody) \/ cli' = cli
          /\ stmt' = [stmt EXCEPT !.late = c] /\ UNCHANGED <<shape, js>>
      BY <1>2 DEF UV_AfterExecuteNonQuery, ClosesLater
    <2>2. faults' \subseteq Faults
      BY <1>2, Native, FaultsTyped DEF UV_AfterExecuteNonQuery
    <2>3. "no" \in Needs /\ Nobody \in Someone /\ c \in Someone
      BY DEF Needs, Someone
    <2>4. stmt' \in StmtRecords
      BY <2>1, <2>3, Native DEF StmtRecords
    <2> QED
      BY <1>2, <2>1, <2>2, <2>3, <2>4, Native, DiagnosedTyped, DeliversTyped
         DEF UV_AfterExecuteNonQuery
  <1> QED
    BY <1>1, <1>2

LEMMA FetchesAllTyped ==
    ASSUME NativeTypeOK, NEW c \in Calls, NEW o, FetchesAll(c, o)
    PROVE  NativeTypeOK'
  <1>1. work[c] \in WorkRecords /\ work \in [Calls -> WorkRecords]
    BY Native
  <1>2. \E r \in WorkRecords : work' = [work EXCEPT ![c] = r]
    <2>1. [work[c] EXCEPT !.phase = "endless"] \in WorkRecords
      BY <1>1 DEF WorkRecords, Phases
    <2>2. CASE work' = [work EXCEPT ![c].phase = "endless"]
      <3>1. work' = [work EXCEPT ![c] = [work[c] EXCEPT !.phase = "endless"]]
        BY <1>1, <2>2
      <3> QED
        BY <2>1, <3>1
    <2>3. CASE work' = [work EXCEPT ![c] = NoWork]
      BY <2>3, NoWorkTyped
    <2> QED
      BY <2>2, <2>3 DEF FetchesAll, Delivers
  <1>3. /\ js' \in Someone /\ UNCHANGED shape
        /\ cli' = Diagnosed(Nobody) \/ cli' = cli
        /\ stmt' = stmt \/ stmt' = [stmt EXCEPT !.late = c]
        /\ faults' = faults \/ faults' = faults \cup ErrorRead(c)
    BY Native DEF FetchesAll, ClosesLater, Someone
  <1>4. faults' \subseteq Faults
    BY <1>3, Native, FaultsTyped
  <1>5. "no" \in Needs /\ Nobody \in Someone /\ c \in Someone
    BY DEF Needs, Someone
  <1>6. stmt' \in StmtRecords
    BY <1>3, <1>5, Native DEF StmtRecords
  <1> QED
    BY <1>2, <1>3, <1>4, <1>5, <1>6, Native, DiagnosedTyped, StepTyped

LEMMA LateTyped ==
    ASSUME NativeTypeOK, LateFreeStmt
    PROVE  NativeTypeOK'
  <1>1. "no" \in Needs /\ Nobody \in Someone
    BY DEF Needs, Someone
  <1>2. stmt' \in StmtRecords
    BY <1>1, Native DEF LateFreeStmt, StmtRecords
  <1>3. cli' \in [alive : BOOLEAN, bound : Someone, needs : Needs, diag : Someone]
    BY <1>1, DiagnosedTyped DEF LateFreeStmt
  <1> QED
    BY <1>2, <1>3, Native
       DEF LateFreeStmt, NativeTypeOK, WorkRecords, StmtRecords, Faults, Rets,
           Needs, Phases

(* What ends a blocking synchronous call, and the connection's end. *)
LEMMA UnblockTyped ==
    ASSUME NativeTypeOK, NEW c \in Calls, Unblock(c)
    PROVE  NativeTypeOK'
  <1>1. /\ work' = [work EXCEPT ![c] = NoWork] /\ js' = Nobody
        /\ UNCHANGED <<shape, faults>>
    BY DEF Unblock, BindSyncReturns, CloseSyncDrops
  <1>2. /\ stmt' \in StmtRecords
        /\ cli' \in [alive : BOOLEAN, bound : Someone, needs : Needs,
                     diag : Someone]
    <2>1. /\ Nobody \in Someone /\ "no" \in Needs /\ stmt.params \in Someone
          /\ Diagnosed(Nobody) \in [alive : BOOLEAN, bound : Someone,
                                    needs : Needs, diag : Someone]
      BY Native, DiagnosedTyped DEF StmtRecords, Someone, Needs
    <2>2. CASE BindSyncReturns(c)
      BY <2>1, <2>2, Native DEF BindSyncReturns
    <2>3. CASE CloseSyncDrops(c)
      BY <2>1, <2>3, Native DEF StmtRecords, CloseSyncDrops, FreeHandle
    <2> QED
      BY <2>2, <2>3 DEF Unblock
  <1>3. Nobody \in Someone
    BY DEF Someone
  <1> QED
    BY <1>1, <1>2, <1>3, Native, NoWorkTyped, StepTyped

LEMMA DisconnectTyped ==
    ASSUME NativeTypeOK, Disconnect
    PROVE  NativeTypeOK'
  BY Native DEF Disconnect, Someone, NativeTypeOK, WorkRecords, Rets, Needs,
                Phases

(* The synchronous methods. *)
LEMMA SyncTyped ==
    ASSUME NativeTypeOK, NEW c \in Calls,
           \/ BindSync(c) \/ SyncExecution(c) \/ CancelSync(c)
           \/ (\E o \in Options : CloseSync(c, o))
           \/ SyncCatalog(c) \/ SyncOther(c)
    PROVE  NativeTypeOK'
  <1>0. /\ stmt \in StmtRecords
        /\ cli \in [alive : BOOLEAN, bound : Someone, needs : Needs,
                    diag : Someone]
        /\ shape \in [Calls -> {"plain", "chunked", "streaming"}]
        /\ work \in [Calls -> WorkRecords]
        /\ js \in Someone
        /\ faults \subseteq Faults
        /\ c \in Someone /\ Nobody \in Someone /\ "no" \in Needs
        /\ Diagnosed(Nobody) \in [alive : BOOLEAN, bound : Someone,
                                  needs : Needs, diag : Someone]
        /\ \A n \in Needs : [Diagnosed(Nobody) EXCEPT !.needs = n] \in
              [alive : BOOLEAN, bound : Someone, needs : Needs, diag : Someone]
    BY Native, DiagnosedTyped DEF Someone, Needs
  <1>1. CASE BindSync(c)
    <2> DEFINE r == [NoWork EXCEPT !.op = "bindSync", !.phase = "blocked"]
    <2>1. r \in WorkRecords
      BY NoWorkTyped DEF Phases, Ops
    <2>2. /\ Makes(c) /\ work' = [work EXCEPT ![c] = r] /\ js' = c
          /\ UNCHANGED cli
      BY <1>1 DEF BindSync
    <2> HIDE DEF r
    <2> QED
      BY <1>0, <2>1, <2>2, MakesTyped, StepTyped
  <1>2. CASE \E xs \in SUBSET (Rets \X Needs) :
                \E x \in xs :
                   /\ cli' = [Diagnosed(Nobody) EXCEPT !.needs = x[2]]
                   /\ stmt' \in {stmt, [stmt EXCEPT !.params = Nobody]}
                   /\ faults' \subseteq faults \cup ReadFaults \cup {"foreignOutputs"}
                   /\ UNCHANGED <<shape, work, js>>
    <2>1. PICK x \in Rets \X Needs :
                   /\ cli' = [Diagnosed(Nobody) EXCEPT !.needs = x[2]]
                   /\ stmt' \in {stmt, [stmt EXCEPT !.params = Nobody]}
                   /\ faults' \subseteq faults \cup ReadFaults \cup {"foreignOutputs"}
                   /\ UNCHANGED <<shape, work, js>>
      BY <1>2
    <2>2. x[2] \in Needs
      OBVIOUS
    <2>3. faults' \subseteq Faults
      BY <1>0, <2>1, FaultsTyped DEF StmtRecords, Faults
    <2>4. stmt' \in StmtRecords
      BY <1>0, <2>1 DEF StmtRecords
    <2> QED
      BY <1>0, <2>1, <2>2, <2>3, <2>4, NoWorkTyped, StepTyped
  <1>3. CASE CancelSync(c)
    <2>1. Diagnosed(Nobody).needs \in Needs
      BY <1>0
    <2>2. cli' \in [alive : BOOLEAN, bound : Someone, needs : Needs, diag : Someone]
      BY <1>0, <1>3, <2>1 DEF CancelSync, Cancelled
    <2>3. UNCHANGED <<stmt, shape, work, js, faults>>
      BY <1>3 DEF CancelSync
    <2> QED
      BY <1>0, <2>2, <2>3, NoWorkTyped, StepTyped
  <1>4. CASE \E o \in Options : CloseSync(c, o)
    <2>1. PICK o \in Options : CloseSync(c, o)
      BY <1>4
    <2>2. CASE o = "drop"
      <3> DEFINE r == [NoWork EXCEPT !.op = "closeSync", !.phase = "blocked"]
      <3>1. r \in WorkRecords
        BY NoWorkTyped DEF Phases, Ops
      <3>2. /\ work' = [work EXCEPT ![c] = r] /\ js' = c
            /\ stmt' = [stmt EXCEPT !.params = Nobody]
            /\ faults' = faults \cup FreeFaults
            /\ UNCHANGED <<shape, cli>>
        BY <2>1, <2>2 DEF CloseSync
      <3> HIDE DEF r
      <3>3. stmt' \in StmtRecords
        BY <1>0, <3>2 DEF StmtRecords
      <3>4. faults' \subseteq Faults
        BY <1>0, <3>2, FaultsTyped
      <3> QED
        BY <1>0, <3>1, <3>2, <3>3, <3>4, StepTyped
    <2>3. CASE o # "drop"
      <3>1. cli' = FreeStmt(Nobody, o) /\ UNCHANGED <<stmt, shape, faults, js, work>>
        BY <2>1, <2>3 DEF CloseSync
      <3>2. cli' \in [alive : BOOLEAN, bound : Someone, needs : Needs, diag : Someone]
        BY <1>0, <3>1 DEF FreeStmt
      <3> QED
        BY <1>0, <3>1, <3>2, NoWorkTyped, StepTyped
    <2> QED
      BY <2>2, <2>3
  <1>5. CASE \E o \in Ops : FetchesAllSync(c, o)
    <2>1. PICK o \in Ops : FetchesAllSync(c, o)
      BY <1>5
    <2> DEFINE r == [NoWork EXCEPT !.op = o, !.phase = "endless"]
    <2>2. r \in WorkRecords
      BY NoWorkTyped DEF Phases
    <2>3. /\ work' = [work EXCEPT ![c] = r] \/ work' = work
          /\ js' \in Someone
          /\ cli' = Diagnosed(Nobody) /\ UNCHANGED <<stmt, shape, faults>>
      BY <1>0, <2>1 DEF FetchesAllSync
    <2> HIDE DEF r
    <2> QED
      BY <1>0, <2>2, <2>3, StepTyped
  <1>6. CASE SyncCalls(c)
    <2>1. cli' = Diagnosed(Nobody) /\ UNCHANGED <<stmt, shape, work, js, faults>>
      BY <1>6 DEF SyncCalls
    <2> QED
      BY <1>0, <2>1, NoWorkTyped, StepTyped
  <1> QED
    <2>1. /\ ExecuteOutcomes \in SUBSET (Rets \X Needs)
          /\ StreamingOutcomes \in SUBSET (Rets \X Needs)
          /\ ParamOutcomes \in SUBSET (Rets \X Needs)
          /\ PutOutcomes \in SUBSET (Rets \X Needs)
      BY OutcomesTyped
    <2>2. SyncExecution(c) =>
             \E xs \in SUBSET (Rets \X Needs) :
                \E x \in xs :
                   /\ cli' = [Diagnosed(Nobody) EXCEPT !.needs = x[2]]
                   /\ stmt' \in {stmt, [stmt EXCEPT !.params = Nobody]}
                   /\ faults' \subseteq faults \cup ReadFaults \cup {"foreignOutputs"}
                   /\ UNCHANGED <<shape, work, js>>
      <3>1. CASE ExecuteSync(c)
        BY <2>1, <3>1 DEF ExecuteSync
      <3>2. CASE ExecuteNonQuerySync(c)
        BY <2>1, <3>2 DEF ExecuteNonQuerySync
      <3>3. CASE ExecuteForStreamingSync(c)
        BY <2>1, <3>3 DEF ExecuteForStreamingSync
      <3> QED
        BY <3>1, <3>2, <3>3 DEF SyncExecution
    <2>3. ParamDataSync(c) \/ PutDataSync(c) =>
             \E xs \in SUBSET (Rets \X Needs) :
                \E x \in xs :
                   /\ cli' = [Diagnosed(Nobody) EXCEPT !.needs = x[2]]
                   /\ stmt' \in {stmt, [stmt EXCEPT !.params = Nobody]}
                   /\ faults' \subseteq faults \cup ReadFaults \cup {"foreignOutputs"}
                   /\ UNCHANGED <<shape, work, js>>
      BY <2>1 DEF ParamDataSync, PutDataSync, SendsSync
    <2>4. SyncCatalog(c) => \E o \in Ops : FetchesAllSync(c, o)
      BY DEF SyncCatalog, PrimaryKeysSync, ForeignKeysSync, ProceduresSync,
             ProcedureColumnsSync, Ops
    <2>5. SyncOther(c) => SyncCalls(c) \/ ParamDataSync(c) \/ PutDataSync(c)
      BY DEF SyncOther, ExecuteDirectSync, PrepareSync, SetAttrSync
    <2> QED
      BY <1>1, <1>2, <1>3, <1>4, <1>5, <1>6, <2>2, <2>3, <2>4, <2>5

-----------------------------------------------------------------------------
(* Types: the queues. *)

LEMMA StartsTyped ==
    ASSUME NativeTypeOK, NEW c \in Calls, NEW o, Starts(c, o)
    PROVE  NativeTypeOK'
  <1>1. Bind(c) \/ \E p \in Ops : Queues(c, p)
    BY DEF Starts, Execute, ExecuteNonQuery, ExecuteDirect, ExecuteForStreaming,
           ParamData, PutData, Prepare, PrimaryKeys, ForeignKeys, Procedures,
           ProcedureColumns, Cancel, Close, Ops
  <1> QED
    BY <1>1, BindTyped, QueuesTyped

QueueTypeOK ==
    /\ kind \in [Calls -> Kinds \cup {"none"}]
    /\ stage \in [Calls -> Stages]
    /\ chunks \in [Calls -> 0..MaxChunks]
    /\ fifo \in Seq(Calls) /\ binds \in Seq(Calls) /\ attrs \in Seq(Calls)
    /\ {executing, turn, bindBusy, bindTurn, attrBusy} \subseteq BOOLEAN
    /\ then \in Someone
    /\ answered \in [Calls -> Nat]

LEMMA Types == TypeOK <=> NativeTypeOK /\ QueueTypeOK
  BY DEF TypeOK, QueueTypeOK

LEMMA AnswerTyped ==
    ASSUME QueueTypeOK, NEW c \in Calls, Answer(c) \/ \E k : ParseParams(c, k)
    PROVE  answered' \in [Calls -> Nat]
  <1>1. PICK n \in {0, 1} : answered' = [answered EXCEPT ![c] = @ + n]
    BY DEF Answer, ParseParams
  <1>2. answered \in [Calls -> Nat] /\ answered[c] + n \in Nat
    BY DEF QueueTypeOK
  <1> QED
    BY <1>1, <1>2

LEMMA ApplicationTyped ==
    ASSUME TypeOK, NEW c \in Calls, Application(c)
    PROVE  TypeOK'
  <1>0. NativeTypeOK /\ QueueTypeOK
    BY Types
  <1>1. ASSUME NEW k \in Kinds, Push(c, k) PROVE TypeOK'
    <2>1. k \in Queued /\ FirstStage(k) \in Stages
      BY <1>1 DEF Push, Queued, WithParams, Plain, FirstStage, Stages, Options
    <2>2. (IF k = "stream" THEN MaxChunks ELSE 0) \in 0..MaxChunks
      BY ChunksAssumption
    <2>3. UNCHANGED nativeVars
      BY <1>1 DEF Push
    <2>4. NativeTypeOK'
      BY <1>0, <2>3 DEF NativeTypeOK, nativeVars
    <2>5. /\ kind' = [kind EXCEPT ![c] = k]
          /\ stage' = [stage EXCEPT ![c] = FirstStage(k)]
          /\ chunks' = [chunks EXCEPT ![c] = IF k = "stream" THEN MaxChunks ELSE 0]
          /\ fifo' = Append(fifo, c) /\ turn' = ~executing
          /\ UNCHANGED <<executing, then, binds, bindBusy, bindTurn, attrs,
                         attrBusy, answered>>
      BY <1>1 DEF Push
    <2>6. QueueTypeOK'
      BY <1>0, <2>1, <2>2, <2>5 DEF QueueTypeOK
    <2> QED
      BY <2>4, <2>6, Types DEF TypeOK, QueueTypeOK
  <1>2. ASSUME NEW k \in Kinds, CallSync(c, k) PROVE TypeOK'
    <2>1. NativeTypeOK'
      BY <1>0, <1>2, SyncTyped DEF CallSync
    <2>2. QueueTypeOK'
      BY <1>0, <1>2 DEF CallSync, QueueTypeOK
    <2> QED
      BY <2>1, <2>2 DEF TypeOK, QueueTypeOK
  <1>3. CASE PushBind(c)
    <2>1. NativeTypeOK'
      BY <1>0, <1>3 DEF PushBind, NativeTypeOK, nativeVars
    <2>2. "bind" \in Kinds
      BY <1>3 DEF PushBind, MayMake
    <2>3. QueueTypeOK'
      BY <1>0, <1>3, <2>2 DEF PushBind, QueueTypeOK
    <2> QED
      BY <2>1, <2>3 DEF TypeOK, QueueTypeOK
  <1>4. CASE PushSetAttr(c)
    <2>1. NativeTypeOK'
      <3>1. CASE UNCHANGED nativeVars
        BY <1>0, <3>1 DEF NativeTypeOK, nativeVars
      <3>2. CASE Queues(c, "setAttr")
        BY <1>0, <3>2, QueuesTyped DEF Ops
      <3> QED
        BY <1>4, <3>1, <3>2 DEF PushSetAttr, SetAttr
    <2>2. "setAttr" \in Kinds
      BY <1>4 DEF PushSetAttr, MayMake
    <2>3. attrs' \in Seq(Calls) /\ attrBusy' \in BOOLEAN
      <3>1. attrs \in Seq(Calls) /\ attrBusy \in BOOLEAN
        BY <1>0 DEF QueueTypeOK
      <3>2. CASE attrBusy
        BY <1>4, <3>1, <3>2 DEF PushSetAttr
      <3>3. CASE ~attrBusy
        BY <1>4, <3>1, <3>3 DEF PushSetAttr
      <3> QED
        BY <3>2, <3>3
    <2>4. QueueTypeOK'
      BY <1>0, <1>4, <2>2, <2>3 DEF PushSetAttr, QueueTypeOK
    <2> QED
      BY <2>1, <2>4 DEF TypeOK, QueueTypeOK
  <1> QED
    BY <1>1, <1>2, <1>3, <1>4 DEF Application

LEMMA TurnsTyped ==
    ASSUME TypeOK,
           BindTurn \/ QueueEmpty \/ Turn \/ GoOn \/ CallbackReturns
    PROVE  TypeOK'
  <1>0. NativeTypeOK /\ QueueTypeOK
    BY Types
  <1>1. CASE BindTurn
    <2>1. CASE binds = <<>>
      <3>1. NativeTypeOK'
        BY <1>0, <1>1, <2>1 DEF BindTurn, NativeTypeOK, nativeVars
      <3>2. QueueTypeOK'
        BY <1>0, <1>1, <2>1 DEF BindTurn, QueueTypeOK
      <3> QED
        BY <3>1, <3>2 DEF TypeOK, QueueTypeOK
    <2>2. CASE binds # <<>>
      <3>1. PICK c \in Calls : c = Head(binds)
        BY <1>0, <2>2 DEF QueueTypeOK
      <3>2. /\ Bind(c) /\ ParseParams(c, "bind")
            /\ binds' = Tail(binds) /\ bindBusy' = TRUE
        BY <1>1, <2>2, <3>1 DEF BindTurn
      <3>3. NativeTypeOK' /\ answered' \in [Calls -> Nat] /\ binds' \in Seq(Calls)
        BY <1>0, <2>2, <3>2, BindTyped, AnswerTyped DEF QueueTypeOK
      <3>4. QueueTypeOK'
        BY <1>0, <1>1, <3>2, <3>3 DEF BindTurn, QueueTypeOK
      <3> QED
        BY <3>3, <3>4 DEF TypeOK, QueueTypeOK
    <2> QED
      BY <2>1, <2>2
  <1>2. CASE QueueEmpty
    <2>1. NativeTypeOK'
      BY <1>0, <1>2 DEF QueueEmpty, NativeTypeOK, nativeVars
    <2>2. QueueTypeOK'
      BY <1>0, <1>2 DEF QueueEmpty, QueueTypeOK
    <2> QED
      BY <2>1, <2>2 DEF TypeOK, QueueTypeOK
  <1>3. CASE Turn
    <2>1. PICK c \in Calls : c = Head(fifo)
      BY <1>0, <1>3 DEF QueueTypeOK, Turn
    <2>2. /\ Starts(c, stage[c]) /\ ParseParams(c, kind[c])
          /\ executing' = (stage[c] # "prepare") /\ turn' = (stage[c] = "prepare")
          /\ fifo' = Tail(fifo) /\ fifo # <<>>
          /\ UNCHANGED <<kind, stage, chunks, then, binds, bindBusy, bindTurn,
                         attrs, attrBusy>>
      BY <1>3, <2>1 DEF Turn
    <2>3. NativeTypeOK' /\ answered' \in [Calls -> Nat] /\ fifo' \in Seq(Calls)
      BY <1>0, <2>2, StartsTyped, AnswerTyped DEF QueueTypeOK
    <2>4. QueueTypeOK'
      BY <1>0, <2>2, <2>3 DEF QueueTypeOK
    <2> QED
      BY <2>3, <2>4 DEF TypeOK, QueueTypeOK
  <1>4. CASE GoOn
    <2>1. PICK c \in Calls : c = then
      BY <1>0, <1>4 DEF GoOn, QueueTypeOK, Someone
    <2>2. /\ Queues(c, "execute") \/ Queues(c, "nonQuery")
          /\ then' = Nobody
          /\ UNCHANGED <<kind, stage, chunks, fifo, executing, turn, binds,
                         bindBusy, bindTurn, attrs, attrBusy, answered>>
      BY <1>4, <2>1 DEF GoOn, Execute, ExecuteNonQuery
    <2>3. NativeTypeOK'
      BY <1>0, <2>2, QueuesTyped DEF Ops
    <2>4. QueueTypeOK'
      BY <1>0, <2>2 DEF QueueTypeOK, Someone
    <2> QED
      BY <2>3, <2>4 DEF TypeOK, QueueTypeOK
  <1>5. CASE CallbackReturns
    <2>1. NativeTypeOK'
      BY <1>0, <1>5 DEF CallbackReturns, NativeTypeOK, nativeVars
    <2>2. /\ then' = Nobody /\ executing' = FALSE /\ turn' = TRUE
          /\ bindTurn' \in BOOLEAN
          /\ UNCHANGED <<kind, stage, chunks, fifo, binds, bindBusy, attrs,
                         attrBusy, answered>>
      BY <1>0, <1>5 DEF CallbackReturns, NextCall, QueueTypeOK
    <2>3. QueueTypeOK'
      BY <1>0, <2>2 DEF QueueTypeOK, Someone
    <2> QED
      BY <2>1, <2>3 DEF TypeOK, QueueTypeOK
  <1> QED
    BY <1>1, <1>2, <1>3, <1>4, <1>5

(* A call goes on to another native method, perhaps through queue. *)
LEMMA MovesTyped ==
    ASSUME QueueTypeOK, NEW c \in Calls,
           \E s \in Stages : stage' = [stage EXCEPT ![c] = s],
           fifo' = fifo \/ fifo' = Append(fifo, c)
    PROVE  stage' \in [Calls -> Stages] /\ fifo' \in Seq(Calls)
  <1>1. stage \in [Calls -> Stages] /\ fifo \in Seq(Calls)
    BY DEF QueueTypeOK
  <1>2. Append(fifo, c) \in Seq(Calls)
    BY <1>1
  <1>3. stage' \in [Calls -> Stages]
    BY <1>1
  <1> QED
    BY <1>1, <1>2, <1>3

(* A handler that answers a call and moves queue on. *)
LEMMA EndsTyped ==
    ASSUME QueueTypeOK, NEW c \in Calls, Ends(c), bindTurn' \in BOOLEAN
    PROVE  QueueTypeOK'
  <1>1. answered' \in [Calls -> Nat]
    BY AnswerTyped DEF Ends
  <1> QED
    BY <1>1 DEF Ends, NextCall, QueueTypeOK

(* A handler that calls the application back and has more to do. *)
LEMMA CallsBackTyped ==
    ASSUME QueueTypeOK, NEW c \in Calls, CallsBack(c)
    PROVE  QueueTypeOK'
  <1>1. answered' \in [Calls -> Nat]
    BY AnswerTyped DEF CallsBack
  <1>2. stage' \in [Calls -> Stages]
    BY DEF CallsBack, QueueTypeOK, Stages
  <1> QED
    BY <1>1, <1>2 DEF CallsBack, QueueTypeOK, Someone

LEMMA HandlerTyped ==
    ASSUME TypeOK, NEW c \in Calls, Handler(c)
    PROVE  TypeOK'
  <1>0. NativeTypeOK /\ QueueTypeOK /\ bindTurn \in BOOLEAN /\ bindBusy \in BOOLEAN
    BY Types DEF QueueTypeOK
  <1>1. CASE AfterBindOfParams(c)
    <2>1. NativeTypeOK'
      BY <1>0, <1>1, ReportsTyped DEF AfterBindOfParams, UV_AfterBind
    <2>2. CASE Failed(c)
      <3>1. QueueTypeOK'
        BY <1>0, <1>1, <2>2, EndsTyped DEF AfterBindOfParams
      <3> QED
        BY <2>1, <3>1 DEF TypeOK, QueueTypeOK
    <2>3. CASE ~Failed(c)
      <3>1. /\ \E s \in Stages : stage' = [stage EXCEPT ![c] = s]
            /\ then' = c
            /\ UNCHANGED <<kind, chunks, fifo, executing, turn, binds,
                           bindBusy, bindTurn, attrs, attrBusy, answered>>
        BY <1>1, <2>3 DEF AfterBindOfParams, Stages
      <3>2. QueueTypeOK'
        BY <1>0, <3>1 DEF QueueTypeOK, Someone
      <3> QED
        BY <2>1, <3>2 DEF TypeOK, QueueTypeOK
    <2> QED
      BY <2>2, <2>3
  <1>2. CASE AfterExecution(c)
    <2>1. NativeTypeOK'
      BY <1>0, <1>2, AfterExecutionTyped DEF AfterExecution
    <2>2. QueueTypeOK'
      BY <1>0, <1>2, EndsTyped, CallsBackTyped DEF AfterExecution
    <2> QED
      BY <2>1, <2>2 DEF TypeOK, QueueTypeOK
  <1>3. CASE AfterOther(c)
    <2>1. NativeTypeOK'
      BY <1>0, <1>3, ReportsTyped, FetchesAllTyped
         DEF AfterOther, UV_AfterExecuteDirect, UV_AfterCancel,
             UV_AfterPrimaryKeys, UV_AfterForeignKeys, UV_AfterProcedures,
             UV_AfterProcedureColumns, UV_AfterClose
    <2>2. QueueTypeOK'
      <3>1. CASE CallsBack(c) \/ (Ends(c) /\ UNCHANGED bindTurn)
        BY <1>0, <3>1, EndsTyped, CallsBackTyped
      <3>2. CASE UNCHANGED queueVars
        BY <1>0, <3>2 DEF QueueTypeOK, queueVars
      <3> QED
        BY <1>3, <3>1, <3>2 DEF AfterOther
    <2> QED
      BY <2>1, <2>2 DEF TypeOK, QueueTypeOK
  <1>4. CASE AfterUnqueued(c)
    <2>1. NativeTypeOK'
      BY <1>0, <1>4, ReportsTyped
         DEF AfterUnqueued, UV_AfterPrepare, UV_AfterSetAttr, UV_AfterBind
    <2>2. answered' \in [Calls -> Nat]
      BY <1>0, <1>4, AnswerTyped DEF AfterUnqueued
    <2>3. QueueTypeOK'
      BY <1>0, <1>4, <2>2 DEF AfterUnqueued, QueueTypeOK
    <2> QED
      BY <2>1, <2>3 DEF TypeOK, QueueTypeOK
  <1>5. CASE AfterStreaming(c)
    <2>1. NativeTypeOK'
      BY <1>0, <1>5, ReportsTyped
         DEF AfterStreaming, UV_AfterExecuteForStreaming, UV_AfterParamData,
             UV_AfterPutData
    <2>2. (\E o \in {"paramData", "putData"} : Again(c, o)) \/ Done(c)
             \/ GivesUp(c) \/ Reads(c)
      BY <1>5 DEF AfterStreaming
    <2>3. /\ \E s \in Stages : stage' = [stage EXCEPT ![c] = s]
          /\ fifo' = fifo \/ fifo' = Append(fifo, c)
          /\ answered' = answered \/ Answer(c)
      BY <2>2 DEF Again, Done, GivesUp, Reads, Stages
    <2>4. answered' \in [Calls -> Nat]
      BY <1>0, <2>3, AnswerTyped DEF QueueTypeOK
    <2>5. stage' \in [Calls -> Stages] /\ fifo' \in Seq(Calls)
      BY <1>0, <2>3, MovesTyped
    <2>6. /\ executing' = FALSE /\ turn' = TRUE
          /\ UNCHANGED <<kind, chunks, then, binds, bindBusy, bindTurn, attrs,
                         attrBusy>>
      BY <1>5 DEF AfterStreaming, NextCall
    <2>7. QueueTypeOK'
      BY <1>0, <2>4, <2>5, <2>6 DEF QueueTypeOK
    <2> QED
      BY <2>1, <2>7 DEF TypeOK, QueueTypeOK
  <1>6. CASE StreamData(c) \/ StreamEnd(c) \/ StreamError(c)
    <2>1. NativeTypeOK'
      BY <1>0, <1>6 DEF StreamData, StreamEnd, StreamError, NativeTypeOK,
                        nativeVars
    <2>2. answered' \in [Calls -> Nat]
      <3>1. answered' = answered \/ Answer(c)
        BY <1>6 DEF StreamData, StreamEnd, StreamError, Again
      <3> QED
        BY <1>0, <3>1, AnswerTyped DEF QueueTypeOK
    <2>3. chunks' \in [Calls -> 0..MaxChunks]
      <3>1. chunks \in [Calls -> 0..MaxChunks]
        BY <1>0 DEF QueueTypeOK
      <3>2. CASE StreamData(c)
        <4>1. chunks[c] - 1 \in 0..MaxChunks
          BY <3>1, <3>2, ChunksAssumption DEF StreamData
        <4> QED
          BY <3>1, <3>2, <4>1 DEF StreamData
      <3>3. CASE chunks' = chunks
        BY <3>1, <3>3
      <3> QED
        BY <1>6, <3>2, <3>3 DEF StreamEnd, StreamError
    <2>4. stage' \in [Calls -> Stages] /\ fifo' \in Seq(Calls)
      <3>1. /\ \E s \in Stages : stage' = [stage EXCEPT ![c] = s]
            /\ fifo' = fifo \/ fifo' = Append(fifo, c)
        BY <1>6 DEF StreamData, StreamEnd, StreamError, Again, Stages
      <3> QED
        BY <1>0, <3>1, MovesTyped
    <2>5. /\ turn' \in BOOLEAN
          /\ UNCHANGED <<kind, executing, then, binds, bindBusy, bindTurn,
                         attrs, attrBusy>>
      BY <1>0, <1>6 DEF StreamData, StreamEnd, StreamError, QueueTypeOK
    <2>6. QueueTypeOK'
      BY <1>0, <2>2, <2>3, <2>4, <2>5 DEF QueueTypeOK
    <2> QED
      BY <2>1, <2>6 DEF TypeOK, QueueTypeOK
  <1> QED
    BY <1>1, <1>2, <1>3, <1>4, <1>5, <1>6 DEF Handler

LEMMA TypeInit == Init => TypeOK
  <1> SUFFICES ASSUME Init PROVE TypeOK
    OBVIOUS
  <1>1. NativeTypeOK
    <2>1. work \in [Calls -> WorkRecords]
      BY NoWorkTyped DEF Init, NativeInit
    <2> QED
      BY <2>1, Native, NoWorkTyped DEF StmtRecords, Faults, Init, NativeInit, Needs
  <1>2. QueueTypeOK
    <2>1. 0 \in 0..MaxChunks
      BY ChunksAssumption
    <2>2. "none" \in Stages
      BY DEF Stages
    <2>3. fifo \in Seq(Calls) /\ binds \in Seq(Calls) /\ attrs \in Seq(Calls)
      BY DEF Init
    <2>4. kind \in [Calls -> Kinds \cup {"none"}] /\ stage \in [Calls -> Stages]
      BY <2>2 DEF Init
    <2>5. chunks \in [Calls -> 0..MaxChunks] /\ answered \in [Calls -> Nat]
      BY <2>1 DEF Init
    <2>6. {executing, turn, bindBusy, bindTurn, attrBusy} \subseteq BOOLEAN
      BY DEF Init
    <2> QED
      BY <2>3, <2>4, <2>5, <2>6, NoWorkTyped DEF Init, QueueTypeOK
  <1> QED
    BY <1>1, <1>2, Types

LEMMA TypeStep == TypeOK /\ [Next]_vars => TypeOK'
  <1> SUFFICES ASSUME TypeOK, [Next]_vars PROVE TypeOK'
    OBVIOUS
  <1>0. NativeTypeOK /\ QueueTypeOK
    BY Types
  <1>1. ASSUME NativeTypeOK', UNCHANGED queueVars PROVE TypeOK'
    BY <1>0, <1>1 DEF TypeOK, QueueTypeOK, queueVars
  <1>2. ASSUME NEW c \in Calls, Application(c) PROVE TypeOK'
    BY <1>2, ApplicationTyped
  <1>3. ASSUME NEW c \in Calls, Works(c) PROVE TypeOK'
    BY <1>0, <1>1, <1>3, WorkerTyped DEF Works
  <1>4. CASE Thread
    <2>1. CASE BindTurn \/ QueueEmpty \/ Turn \/ GoOn \/ CallbackReturns
      BY <2>1, TurnsTyped
    <2>4. CASE HandlerEnds
      BY <1>0, <1>1, <2>4, LateTyped DEF HandlerEnds
    <2>2. ASSUME NEW c \in Calls, Handler(c) PROVE TypeOK'
      BY <2>2, HandlerTyped
    <2>3. ASSUME NEW c \in Calls, Unblock(c), UNCHANGED queueVars PROVE TypeOK'
      BY <1>0, <1>1, <2>3, UnblockTyped
    <2> QED
      BY <1>4, <2>1, <2>2, <2>3, <2>4 DEF Thread
  <1>5. CASE Disconnect /\ UNCHANGED queueVars
    BY <1>0, <1>1, <1>5, DisconnectTyped
  <1>6. CASE UNCHANGED vars
    <2>1. NativeTypeOK'
      BY <1>0, <1>6 DEF vars, nativeVars, NativeTypeOK
    <2> QED
      BY <1>1, <1>6, <2>1 DEF vars
  <1> QED
    BY <1>2, <1>3, <1>4, <1>5, <1>6 DEF Next

(* The variables hold what the code's fields can hold, in every behaviour.  *)
THEOREM TypeCorrect == Spec => []TypeOK
  BY TypeInit, TypeStep, PTL DEF Spec

-----------------------------------------------------------------------------
(* queue has one call at the driver. *)

Serial(c) == kind[c] \in Queued \ {"prepare"}

(* A call of queue has been started and its handler has not ended it. *)
Busy(c) == Serial(c) /\ (~Idle(c) \/ then = c)

(* The native methods whose handlers call next(). *)
SerialOps == {"execute", "nonQuery", "direct", "streaming", "paramData",
              "putData", "cancel", "primaryKeys", "foreignKeys", "procedures",
              "procedureColumns"} \cup Options

(* Those whose handlers may close the cursor after the callback. *)
LateOps == {"nonQuery", "primaryKeys", "foreignKeys", "procedures",
            "procedureColumns"}

(* What the fields of one call tell about its kind. *)
CallOK(c) ==
    /\ kind[c] = "none" => Idle(c) /\ then # c /\ stage[c] = "none"
    /\ then = c => Serial(c) /\ Idle(c)
    /\ stage[c] = "prepare" => kind[c] = "prepare"
    /\ stage[c] \notin {"none", "prepare"} => Serial(c)
    /\ stage[c] = "bind" => kind[c] \in WithParams
    /\ work[c].op \in SerialOps => Serial(c)
    /\ work[c].op = "bind" => kind[c] \in WithParams \cup {"bind"}
    /\ stage[c] \in LateOps \cup {"callback"} => kind[c] \in ClosesLate
    /\ work[c].op \in LateOps => kind[c] \in ClosesLate

OneAtATime ==
    /\ turn => ~executing
    /\ \A i \in DOMAIN binds : kind[binds[i]] = "bind"
    /\ \A c \in Calls : Busy(c) => executing
    /\ \A c, d \in Calls : Busy(c) /\ Busy(d) => c = d

-----------------------------------------------------------------------------
(* What the native object's steps do to the work, the handle and the        *)
(* driver's records.                                                        *)

LEMMA Diagnoses ==
    ASSUME NativeTypeOK, NEW c \in Someone
    PROVE  /\ Diagnosed(c).alive = cli.alive /\ Diagnosed(c).needs = cli.needs
           /\ Diagnosed(c).bound = cli.bound
           /\ Diagnosed(c).diag = IF Valid THEN c ELSE cli.diag
           /\ \A n \in Needs :
                 LET e == [Diagnosed(c) EXCEPT !.needs = n]
                 IN e.alive = cli.alive /\ e.needs = n /\ e.bound = cli.bound
                    /\ e.diag = IF Valid THEN c ELSE cli.diag
           /\ \A b \in Someone :
                 LET e == [Diagnosed(c) EXCEPT !.bound = b]
                 IN e.alive = cli.alive /\ e.needs = cli.needs /\ e.bound = b
                    /\ e.diag = IF Valid THEN c ELSE cli.diag
  <1>1. Diagnosed(c) = [cli EXCEPT !.diag = IF Valid THEN c ELSE cli.diag]
    BY DEF Diagnosed
  <1>2. cli \in [alive : BOOLEAN, bound : Someone, needs : Needs, diag : Someone]
    BY Native
  <1> QED
    BY <1>1, <1>2

(* The handle stays as it is, is freed, or is lost with the connection.     *)
HandleStep ==
    \/ /\ stmt'.open = stmt.open /\ cli'.alive = cli.alive
       /\ ~Valid => cli'.needs = cli.needs
    \/ FreeHandle
    \/ cli'.alive = FALSE /\ stmt' = stmt

(* The work of other calls is left alone. *)
Alone(c) == \A d \in Calls \ {c} : work'[d] = work[d]

LEMMA Returns ==
    ASSUME NativeTypeOK, NEW c \in Calls, NEW r, Return(c, r)
    PROVE  /\ Alone(c) /\ work'[c].op = work[c].op /\ work'[c].phase = "done"
           /\ work'[c].ret = r /\ work'[c].read = work[c].read
  <1>1. work \in [Calls -> WorkRecords] /\ work[c] \in WorkRecords
    BY Native
  <1>2. work' = [work EXCEPT ![c] = [work[c] EXCEPT !.phase = "done", !.ret = r]]
    BY <1>1 DEF Return
  <1> QED
    BY <1>1, <1>2 DEF Alone, WorkRecords

(* Outcomes that leave a handle the driver does not know as it is. *)
LEMMA InvalidOutcomes ==
    ASSUME ~Valid
    PROVE  /\ \A normal : Outcomes(normal) = {"invalid"}
           /\ \A x \in ExecuteOutcomes \cup StreamingOutcomes \cup ParamOutcomes
                 \cup PutOutcomes : x[1] = "invalid" /\ x[2] = cli.needs
  <1>1. \A normal : Outcomes(normal) = {"invalid"}
    BY DEF Outcomes
  <1>2. \A x \in ExecuteOutcomes : x[1] = "invalid" /\ x[2] = cli.needs
    BY <1>1 DEF ExecuteOutcomes
  <1>3. \A x \in StreamingOutcomes : x[1] = "invalid" /\ x[2] = cli.needs
    BY <1>1 DEF StreamingOutcomes
  <1>4. \A x \in ParamOutcomes \cup PutOutcomes : x[1] = "invalid" /\ x[2] = cli.needs
    BY DEF ParamOutcomes, PutOutcomes
  <1> QED
    BY <1>1, <1>2, <1>3, <1>4

(* A thread of the pool goes on with the work of one call. *)
WorkerStep(c) ==
    /\ Alone(c) /\ work'[c].op = work[c].op
    /\ work[c].phase \notin {"idle", "done"}
    /\ work'[c].phase \notin {"idle", "endless"}
    /\ js' = js
    /\ HandleStep
    /\ cli'.diag \in {cli.diag, c}
    /\ work'[c].phase = "done" /\ work'[c].ret = "error" /\ Valid
          => cli'.diag = c
    /\ stmt'.late = stmt.late
    /\ faults' \subseteq faults \cup ReadFaults \cup FreeFaults

LEMMA SendsMoves ==
    ASSUME NativeTypeOK, NEW c \in Calls, NEW xs \in SUBSET (Rets \X Needs),
           ~Valid => \A x \in xs : x[2] = cli.needs,
           \E o : Leaves(c, o, xs) \/ Sends(c, o, xs)
    PROVE  WorkerStep(c)
  <1>1. PICK x \in xs :
           /\ Return(c, x[1]) /\ cli' = [Diagnosed(c) EXCEPT !.needs = x[2]]
           /\ UNCHANGED <<stmt, js, faults>>
           /\ work[c].phase \in {"queued", "running"}
    BY DEF Leaves, Sends, AtWork
  <1>2. x[2] \in Needs /\ c \in Someone
    BY DEF Someone
  <1>3. /\ cli'.alive = cli.alive /\ cli'.needs = x[2]
        /\ cli'.diag = IF Valid THEN c ELSE cli.diag
    BY <1>1, <1>2, Diagnoses
  <1> QED
    BY <1>1, <1>3, Returns DEF WorkerStep, HandleStep

LEMMA WorkerMoves ==
    ASSUME NativeTypeOK, NEW c \in Calls, Worker(c)
    PROVE  WorkerStep(c)
  <1>0. /\ work \in [Calls -> WorkRecords] /\ work[c] \in WorkRecords
        /\ c \in Someone /\ stmt \in StmtRecords
        /\ cli \in [alive : BOOLEAN, bound : Someone, needs : Needs,
                    diag : Someone]
    BY Native DEF Someone
  <1>1. CASE UV_BindEnters(c)
    BY <1>0, <1>1 DEF UV_BindEnters, AtWork, WorkerStep, HandleStep, Alone,
                      WorkRecords
  <1>2. CASE UV_BindReturns(c)
    <2>1. PICK r : Return(c, r)
      BY <1>2 DEF UV_BindReturns
    <2>2. /\ cli'.alive = cli.alive /\ cli'.needs = cli.needs
          /\ cli'.diag = IF Valid THEN c ELSE cli.diag
      BY <1>0, <1>2, Diagnoses DEF UV_BindReturns, WorkRecords
    <2>3. UNCHANGED <<stmt, js, faults>> /\ work[c].phase = "running"
      BY <1>2 DEF UV_BindReturns
    <2> QED
      BY <2>1, <2>2, <2>3, Returns DEF WorkerStep, HandleStep
  <1>3. CASE \E o : Enters(c, o)
    <2>1. PICK o : Enters(c, o)
      BY <1>3
    <2>2. /\ Alone(c) /\ work'[c].op = work[c].op /\ work'[c].phase = "running"
          /\ work[c].phase = "queued" /\ UNCHANGED <<stmt, cli, js>>
          /\ faults' \subseteq faults \cup ReadFaults
      BY <1>0, <2>1 DEF Enters, AtWork, Alone, WorkRecords
    <2> QED
      BY <2>2 DEF WorkerStep, HandleStep
  <1>4. CASE \E o, normal : WorkerCalls(c, o, normal)
    <2>1. PICK r : Return(c, r)
      BY <1>4 DEF WorkerCalls
    <2>2. /\ cli' = Diagnosed(c) /\ UNCHANGED <<stmt, js, faults>>
          /\ work[c].phase = "queued"
      BY <1>4 DEF WorkerCalls, AtWork
    <2> QED
      BY <1>0, <2>1, <2>2, Returns, Diagnoses DEF WorkerStep, HandleStep
  <1>5. CASE UV_CloseFreesParams(c)
    BY <1>0, <1>5 DEF UV_CloseFreesParams, AtWork, WorkerStep, HandleStep, Alone,
                      WorkRecords
  <1>6. CASE UV_Close(c)
    <2>1. CASE work[c].phase = "dropping" /\ FreeHandle /\ Return(c, "ok")
      <3>1. cli'.diag = cli.diag /\ stmt'.late = stmt.late
        BY <1>0, <2>1 DEF FreeHandle, StmtRecords
      <3> QED
        BY <1>6, <2>1, <3>1, Returns DEF UV_Close, WorkerStep, HandleStep
    <2>2. CASE \E o \in {"closeCursor", "resetParams"} :
                  /\ AtWork(c, o)
                  /\ \E r \in Outcomes({"ok"}) : Return(c, r)
                  /\ cli' = FreeStmt(c, o)
                  /\ UNCHANGED stmt
      <3>1. PICK o, r : Return(c, r) /\ cli' = FreeStmt(c, o) /\ AtWork(c, o)
        BY <2>2
      <3>2. Nobody \in Someone
        BY DEF Someone
      <3>3. /\ cli'.alive = cli.alive /\ cli'.needs = cli.needs
            /\ cli'.diag = IF Valid THEN c ELSE cli.diag
        BY <1>0, <3>1, <3>2, Diagnoses DEF FreeStmt
      <3> QED
        BY <1>6, <2>2, <3>1, <3>3, Returns
           DEF UV_Close, WorkerStep, HandleStep, AtWork
    <2> QED
      BY <1>6, <2>1, <2>2 DEF UV_Close
  <1>7. CASE UV_Cancel(c)
    <2>1. PICK r \in {"ok", "invalid"} : Return(c, r)
      BY <1>7 DEF UV_Cancel
    <2>2. /\ cli'.alive = cli.alive
          /\ ~Valid => cli'.needs = cli.needs
          /\ cli'.diag = IF Valid THEN c ELSE cli.diag
      <3>1. cli' = [Diagnosed(c) EXCEPT !.needs = IF Valid THEN "no"
                                                  ELSE Diagnosed(c).needs]
        BY <1>7 DEF UV_Cancel, Cancelled
      <3>2. "no" \in Needs /\ Diagnosed(c).needs = cli.needs /\ cli.needs \in Needs
        BY <1>0, Diagnoses DEF Needs
      <3> QED
        BY <1>0, <3>1, <3>2, Diagnoses
    <2> QED
      BY <1>7, <2>1, <2>2, Returns
         DEF UV_Cancel, AtWork, WorkerStep, HandleStep
  <1>8. CASE UV_Execute(c) \/ UV_ExecuteNonQuery(c) \/ UV_ExecuteDirect(c)
             \/ UV_ExecuteForStreaming(c) \/ UV_ParamData(c) \/ UV_PutData(c)
    <2>1. {<<r, cli.needs>> : r \in Outcomes(Results)} \in SUBSET (Rets \X Needs)
      <3>1. Results \in SUBSET Rets
        BY DEF Results, Rets
      <3> QED
        BY <1>0, <3>1, OutcomesTyped
    <2>2. \A x \in {<<r, cli.needs>> : r \in Outcomes(Results)} : x[2] = cli.needs
      OBVIOUS
    <2>3. PICK xs \in SUBSET (Rets \X Needs) :
             /\ ~Valid => \A x \in xs : x[2] = cli.needs
             /\ \E o : Leaves(c, o, xs) \/ Sends(c, o, xs)
      BY <1>8, <2>1, <2>2, InvalidOutcomes, OutcomesTyped
         DEF UV_Execute, UV_ExecuteNonQuery, UV_ExecuteDirect,
             UV_ExecuteForStreaming, UV_ParamData, UV_PutData
    <2> QED
      BY <2>3, SendsMoves
  <1> QED
    BY <1>1, <1>2, <1>3, <1>4, <1>5, <1>6, <1>7, <1>8
       DEF Worker, UV_ExecuteEnters, UV_ExecuteNonQueryEnters,
           UV_ExecuteDirectEnters, UV_ExecuteForStreamingEnters, UV_Prepare,
           UV_SetAttr, UV_PrimaryKeys, UV_ForeignKeys, UV_Procedures,
           UV_ProcedureColumns, Catalog

(* A handler ends the work of one call, or keeps the JavaScript thread.     *)
HandlerStep(c) ==
    /\ Alone(c) /\ work[c].phase = "done"
    /\ \/ work'[c] = NoWork /\ js' = js
       \/ /\ work'[c].phase = "endless" /\ work'[c].op = work[c].op
          /\ js' = c /\ ~Valid
    /\ stmt'.open = stmt.open /\ cli'.alive = cli.alive
    /\ cli'.needs = cli.needs
    /\ cli'.diag \in {cli.diag, Nobody}
    /\ cli' = cli \/ work[c].op \in LateOps
    /\ stmt'.late = stmt.late \/ (stmt'.late = c /\ work[c].op \in LateOps)
    /\ faults' \subseteq faults \cup ErrorRead(c) \cup OutputFaults(c)
                           \cup FreeFaults

LEMMA ReportsMoves ==
    ASSUME NativeTypeOK, NEW c \in Calls, NEW o, Reports(c, o)
    PROVE  HandlerStep(c) /\ work[c].op = o /\ work'[c] = NoWork
  <1>1. work \in [Calls -> WorkRecords]
    BY Native
  <1> QED
    BY <1>1 DEF Reports, Delivers, HandlerStep, Alone

LEMMA AfterExecutionMoves ==
    ASSUME NativeTypeOK, NEW c \in Calls,
           UV_AfterExecute(c) \/ UV_AfterExecuteNonQuery(c)
    PROVE  /\ HandlerStep(c) /\ work[c].op \in SerialOps /\ work'[c] = NoWork
           /\ UV_AfterExecute(c) => work[c].op = "execute" /\ cli' = cli
  <1>1. /\ work \in [Calls -> WorkRecords] /\ Nobody \in Someone
        /\ stmt \in StmtRecords
        /\ cli.diag \in Someone
    BY Native DEF Someone
  <1>2. CASE UV_AfterExecute(c)
    BY <1>1, <1>2
       DEF UV_AfterExecute, Delivers, HandlerStep, Alone, SerialOps, StmtRecords
  <1>3. CASE UV_AfterExecuteNonQuery(c)
    <2>1. /\ cli'.alive = cli.alive /\ cli'.needs = cli.needs
          /\ cli'.diag \in {cli.diag, Nobody}
      BY <1>1, <1>3, Diagnoses DEF UV_AfterExecuteNonQuery
    <2>2. stmt'.open = stmt.open /\ stmt'.late = c
      BY <1>1, <1>3 DEF UV_AfterExecuteNonQuery, ClosesLater, StmtRecords
    <2>3. work[c].op = "nonQuery"
      BY <1>3 DEF UV_AfterExecuteNonQuery, Delivers
    <2> QED
      BY <1>1, <1>3, <2>1, <2>2, <2>3
         DEF UV_AfterExecuteNonQuery, UV_AfterExecute, Delivers, HandlerStep,
             Alone, SerialOps, LateOps
  <1> QED
    BY <1>2, <1>3

LEMMA FetchesAllMoves ==
    ASSUME NativeTypeOK, NEW c \in Calls, NEW o \in LateOps, FetchesAll(c, o)
    PROVE  /\ HandlerStep(c) /\ work[c].op = o /\ stmt'.params = stmt.params
           /\ js' = Nobody => work'[c] = NoWork
           /\ faults' \subseteq faults \cup ErrorRead(c)
  <1>1. /\ work \in [Calls -> WorkRecords] /\ Nobody \in Someone
        /\ work[c] \in WorkRecords /\ stmt \in StmtRecords
    BY Native DEF Someone
  <1>2. /\ cli'.alive = cli.alive /\ cli'.needs = cli.needs
        /\ cli'.diag \in {cli.diag, Nobody}
    BY <1>1, Diagnoses DEF FetchesAll
  <1>3. CASE /\ Delivers(c, o) /\ faults' = faults \cup ErrorRead(c)
             /\ ClosesLater(c) /\ UNCHANGED <<shape, cli, js>>
    <2>1. /\ stmt'.open = stmt.open /\ stmt'.params = stmt.params
          /\ stmt'.late = c
      BY <1>1, <1>3 DEF ClosesLater, StmtRecords
    <2> QED
      BY <1>1, <1>2, <1>3, <2>1 DEF Delivers, HandlerStep, Alone
  <1>4. CASE ~(/\ Delivers(c, o) /\ faults' = faults \cup ErrorRead(c)
               /\ ClosesLater(c) /\ UNCHANGED <<shape, cli, js>>)
    <2>1. /\ work[c].op = o /\ work[c].phase = "done" /\ js = Nobody
          /\ IF Valid
             THEN work' = [work EXCEPT ![c] = NoWork] /\ UNCHANGED js
             ELSE js' = c /\ work' = [work EXCEPT ![c].phase = "endless"]
          /\ UNCHANGED <<stmt, shape, faults>>
      BY <1>4 DEF FetchesAll
    <2>2. c # Nobody
      BY NobodyAssumption
    <2>3. CASE Valid
      BY <1>1, <1>2, <2>1, <2>3 DEF HandlerStep, Alone
    <2>4. CASE ~Valid
      BY <1>1, <1>2, <2>1, <2>2, <2>4 DEF HandlerStep, Alone, WorkRecords
    <2> QED
      BY <2>3, <2>4
  <1> QED
    BY <1>3, <1>4

LEMMA AfterOtherMoves ==
    ASSUME NativeTypeOK, NEW c \in Calls, AfterOther(c)
    PROVE  /\ HandlerStep(c) /\ work[c].op \in SerialOps
           /\ stmt'.params = stmt.params
           /\ \/ CallsBack(c) /\ work'[c] = NoWork /\ work[c].op \in LateOps
              \/ js' = Nobody /\ Ends(c) /\ work'[c] = NoWork
              \/ js' = c /\ UNCHANGED queueVars /\ stmt' = stmt
           /\ work[c].op \notin {"execute", "nonQuery"}
           /\ faults' \subseteq faults \cup ErrorRead(c)
  <1>0. js = Nobody /\ c # Nobody /\ stmt.late = Nobody
    BY NobodyAssumption DEF AfterOther, InLoop
  <1>1. \/ \E o \in SerialOps \ {"execute", "nonQuery"} : Reports(c, o)
        \/ \E o \in LateOps \ {"nonQuery"} : FetchesAll(c, o)
    BY DEF AfterOther, UV_AfterExecuteDirect, UV_AfterCancel,
           UV_AfterPrimaryKeys, UV_AfterForeignKeys, UV_AfterProcedures,
           UV_AfterProcedureColumns, UV_AfterClose, SerialOps, LateOps, Options
  <1>2. \/ stmt'.late = c /\ CallsBack(c)
        \/ stmt'.late # c /\ js' = Nobody /\ Ends(c)
        \/ js' = c /\ UNCHANGED queueVars
    BY DEF AfterOther
  <1>3. CASE \E o \in SerialOps \ {"execute", "nonQuery"} : Reports(c, o)
    <2>1. PICK o \in SerialOps \ {"execute", "nonQuery"} : Reports(c, o)
      BY <1>3
    <2>2. HandlerStep(c) /\ work[c].op = o /\ work'[c] = NoWork
      BY <2>1, ReportsMoves
    <2>3. stmt' = stmt /\ js' = js /\ faults' = faults \cup ErrorRead(c)
      BY <2>1 DEF Reports
    <2> QED
      BY <1>0, <1>2, <2>2, <2>3
  <1>4. CASE \E o \in LateOps \ {"nonQuery"} : FetchesAll(c, o)
    <2>1. PICK o \in LateOps \ {"nonQuery"} : FetchesAll(c, o)
      BY <1>4
    <2>2. o \in SerialOps /\ o \notin {"execute", "nonQuery"}
      BY DEF LateOps, SerialOps
    <2>3. /\ HandlerStep(c) /\ work[c].op = o /\ stmt'.params = stmt.params
          /\ js' = Nobody => work'[c] = NoWork
          /\ faults' \subseteq faults \cup ErrorRead(c)
      BY <2>1, FetchesAllMoves
    <2>4. stmt'.late = c => js' = Nobody
      BY <1>0, <2>1 DEF FetchesAll
    <2>5. js' = c => stmt' = stmt
      BY <1>0, <2>1 DEF FetchesAll
    <2> QED
      BY <1>2, <2>2, <2>3, <2>4, <2>5
  <1> QED
    BY <1>1, <1>3, <1>4

(* The methods that queue work, Bind included. *)
QueueStep(c, o) ==
    /\ Alone(c) /\ Idle(c)
    /\ work'[c] = [NoWork EXCEPT !.op = o, !.phase = "queued"]
    /\ cli' = cli /\ js' = js /\ stmt'.open = stmt.open
    /\ stmt'.late = stmt.late
    /\ faults' \subseteq faults \cup FreeFaults

LEMMA QueuesMoves ==
    ASSUME NativeTypeOK, NEW c \in Calls, NEW o,
           Queues(c, o) \/ (o = "bind" /\ Bind(c))
    PROVE  QueueStep(c, o)
  <1>1. work \in [Calls -> WorkRecords] /\ stmt \in StmtRecords
    BY Native
  <1> QED
    BY <1>1 DEF Queues, Bind, Makes, QueueStep, Alone, StmtRecords

LEMMA StartsMoves ==
    ASSUME NativeTypeOK, NEW c \in Calls, NEW s, Starts(c, s)
    PROVE  \E o : /\ QueueStep(c, o)
                  /\ o \in SerialOps \cup {"bind", "prepare"}
                  /\ s \notin {"lastParamData", "lastPutData"} => o = s
                  /\ s \in {"lastParamData", "lastPutData"} =>
                        o \in {"paramData", "putData"}
  <1>1. \E o : /\ Queues(c, o) \/ (o = "bind" /\ Bind(c))
               /\ o \in SerialOps \cup {"bind", "prepare"}
               /\ s \notin {"lastParamData", "lastPutData"} => o = s
               /\ s \in {"lastParamData", "lastPutData"} =>
                     o \in {"paramData", "putData"}
    BY DEF Starts, Execute, ExecuteNonQuery, ExecuteDirect, ExecuteForStreaming,
           ParamData, PutData, Prepare, PrimaryKeys, ForeignKeys, Procedures,
           ProcedureColumns, Cancel, Close, SerialOps, Options
  <1> QED
    BY <1>1, QueuesMoves

(* The synchronous methods and what ends those that block. *)
SyncMethods(c) ==
    \/ BindSync(c) \/ SyncExecution(c) \/ CancelSync(c)
    \/ (\E o \in Options : CloseSync(c, o))
    \/ SyncCatalog(c) \/ SyncOther(c)

SyncStep(c) ==
    /\ Alone(c) /\ Idle(c)
    /\ \/ work' = work /\ js' = js
       \/ /\ work'[c].op \notin SerialOps \cup {"bind"}
          /\ work'[c].phase = "blocked" \/ (work'[c].phase = "endless" /\ ~Valid)
          /\ js' = c
    /\ stmt'.open = stmt.open /\ cli'.alive = cli.alive
    /\ stmt'.late = stmt.late
    /\ ~Valid => cli'.needs = cli.needs

LEMMA SyncMoves ==
    ASSUME NativeTypeOK, NEW c \in Calls, SyncMethods(c)
    PROVE  SyncStep(c)
  <1>0. /\ work \in [Calls -> WorkRecords] /\ Nobody \in Someone
        /\ stmt \in StmtRecords
        /\ cli \in [alive : BOOLEAN, bound : Someone, needs : Needs,
                    diag : Someone]
    BY Native DEF Someone
  <1>b. \A o \in {"bindSync", "closeSync"} :
           LET r == [NoWork EXCEPT !.op = o, !.phase = "blocked"]
           IN r.phase = "blocked" /\ r.op \notin SerialOps \cup {"bind"}
    BY DEF NoWork, SerialOps, Options
  <1>1. CASE BindSync(c)
    BY <1>0, <1>1, <1>b DEF BindSync, Makes, SyncStep, Alone
  <1>2. CASE \E xs \in SUBSET (Rets \X Needs) : \E x \in xs :
                /\ cli' = [Diagnosed(Nobody) EXCEPT !.needs = x[2]]
                /\ ~Valid => x[2] = cli.needs
                /\ stmt' \in {stmt, [stmt EXCEPT !.params = Nobody]}
                /\ UNCHANGED <<work, js>> /\ Idle(c)
    <2>1. PICK x \in Rets \X Needs :
                /\ cli' = [Diagnosed(Nobody) EXCEPT !.needs = x[2]]
                /\ ~Valid => x[2] = cli.needs
                /\ stmt' \in {stmt, [stmt EXCEPT !.params = Nobody]}
                /\ UNCHANGED <<work, js>> /\ Idle(c)
      BY <1>2
    <2>2. x[2] \in Needs
      OBVIOUS
    <2>3. cli'.alive = cli.alive /\ cli'.needs = x[2]
      BY <1>0, <2>1, <2>2, Diagnoses
    <2>4. stmt'.open = stmt.open /\ stmt'.late = stmt.late
      BY <1>0, <2>1 DEF StmtRecords
    <2> QED
      BY <2>1, <2>3, <2>4 DEF SyncStep, Alone
  <1>3. CASE CancelSync(c)
    <2>1. cli' = [Diagnosed(Nobody) EXCEPT !.needs = IF Valid THEN "no"
                                                ELSE Diagnosed(Nobody).needs]
      BY <1>3 DEF CancelSync, Cancelled
    <2>2. "no" \in Needs /\ Diagnosed(Nobody).needs = cli.needs /\ cli.needs \in Needs
      BY <1>0, Diagnoses DEF Needs
    <2>3. cli'.alive = cli.alive /\ (~Valid => cli'.needs = cli.needs)
      BY <1>0, <2>1, <2>2, Diagnoses
    <2> QED
      BY <1>3, <2>3 DEF CancelSync, SyncStep, Alone
  <1>4. CASE \E o \in Options : CloseSync(c, o)
    <2>1. PICK o \in Options : CloseSync(c, o)
      BY <1>4
    <2>2. CASE o = "drop"
      BY <1>0, <1>b, <2>1, <2>2 DEF CloseSync, SyncStep, Alone, StmtRecords
    <2>3. CASE o # "drop"
      <3>1. cli'.alive = cli.alive /\ cli'.needs = cli.needs
        <4>1. cli' = FreeStmt(Nobody, o)
          BY <2>1, <2>3 DEF CloseSync
        <4> QED
          BY <1>0, <4>1, Diagnoses DEF FreeStmt
      <3> QED
        BY <2>1, <2>3, <3>1 DEF CloseSync, SyncStep, Alone
    <2> QED
      BY <2>2, <2>3
  <1>5. CASE SyncCatalog(c)
    <2>1. PICK o \in {"primaryKeysSync", "foreignKeysSync", "proceduresSync",
                      "procedureColumnsSync"} : FetchesAllSync(c, o)
      BY <1>5 DEF SyncCatalog, PrimaryKeysSync, ForeignKeysSync, ProceduresSync,
                  ProcedureColumnsSync
    <2>2. cli'.alive = cli.alive /\ cli'.needs = cli.needs
      BY <1>0, <2>1, Diagnoses DEF FetchesAllSync
    <2>3. o \notin SerialOps \cup {"bind"}
      BY DEF SerialOps, Options
    <2>4. \/ work' = work /\ js' = js
          \/ /\ ~Valid /\ js' = c
             /\ work' = [work EXCEPT ![c] = [NoWork EXCEPT !.op = o,
                                                           !.phase = "endless"]]
      <3>1. PICK r \in Outcomes({"ok", "error"}) :
               IF r = "invalid"
               THEN /\ js' = c
                    /\ work' = [work EXCEPT ![c] = [NoWork EXCEPT
                                               !.op = o, !.phase = "endless"]]
               ELSE UNCHANGED <<js, work>>
        BY <2>1 DEF FetchesAllSync
      <3>2. r = "invalid" => ~Valid
        BY DEF Outcomes
      <3> QED
        BY <3>1, <3>2
    <2>5. Idle(c) /\ stmt' = stmt
      BY <2>1 DEF FetchesAllSync
    <2>6. [NoWork EXCEPT !.op = o, !.phase = "endless"].op = o
          /\ [NoWork EXCEPT !.op = o, !.phase = "endless"].phase = "endless"
      BY DEF NoWork
    <2> QED
      BY <1>0, <2>2, <2>3, <2>4, <2>5, <2>6 DEF SyncStep, Alone
  <1>6. CASE SyncCalls(c)
    <2>1. cli'.alive = cli.alive /\ cli'.needs = cli.needs
      BY <1>0, <1>6, Diagnoses DEF SyncCalls
    <2> QED
      BY <1>6, <2>1 DEF SyncCalls, SyncStep, Alone
  <1> QED
    <2>1. CASE SyncExecution(c) \/ ParamDataSync(c) \/ PutDataSync(c)
      <3>1. \E xs \in SUBSET (Rets \X Needs) :
               /\ ~Valid => \A x \in xs : x[2] = cli.needs
               /\ \E x \in xs :
                    /\ cli' = [Diagnosed(Nobody) EXCEPT !.needs = x[2]]
                    /\ stmt' \in {stmt, [stmt EXCEPT !.params = Nobody]}
                    /\ UNCHANGED <<work, js>> /\ Idle(c)
        BY <2>1, OutcomesTyped, InvalidOutcomes
           DEF SyncExecution, ExecuteSync, ExecuteNonQuerySync,
               ExecuteForStreamingSync, ParamDataSync, PutDataSync, SendsSync
      <3> QED
        BY <1>2, <3>1
    <2>2. SyncOther(c) => SyncCalls(c) \/ ParamDataSync(c) \/ PutDataSync(c)
      BY DEF SyncOther, ExecuteDirectSync, PrepareSync, SetAttrSync
    <2> QED
      BY <1>1, <1>3, <1>4, <1>5, <1>6, <2>1, <2>2 DEF SyncMethods

LEMMA UnblockMoves ==
    ASSUME NativeTypeOK, NEW c \in Calls, Unblock(c)
    PROVE  /\ Alone(c) /\ work'[c] = NoWork /\ HandleStep
           /\ work[c].op \in {"bindSync", "closeSync"}
           /\ work[c].phase = "blocked" /\ faults' = faults
           /\ stmt'.late = stmt.late
  <1>0. /\ work \in [Calls -> WorkRecords] /\ Nobody \in Someone
        /\ stmt \in StmtRecords /\ stmt.params \in Someone
    BY Native DEF Someone, StmtRecords
  <1>1. CASE BindSyncReturns(c)
    <2>1. cli'.alive = cli.alive /\ cli'.needs = cli.needs
      BY <1>0, <1>1, Diagnoses DEF BindSyncReturns
    <2> QED
      BY <1>0, <1>1, <2>1 DEF BindSyncReturns, Alone, HandleStep
  <1>2. CASE CloseSyncDrops(c)
    BY <1>0, <1>2 DEF CloseSyncDrops, Alone, HandleStep, FreeHandle, StmtRecords
  <1> QED
    BY <1>1, <1>2 DEF Unblock

(* What a handler has left to do after its callback. *)
LateStep ==
    /\ work' = work /\ js' = js /\ faults' = faults
    /\ stmt'.open = stmt.open /\ stmt'.params = stmt.params
    /\ stmt.late # Nobody /\ stmt'.late = Nobody
    /\ cli'.alive = cli.alive /\ cli'.needs = cli.needs
    /\ cli'.bound = cli.bound
    /\ cli'.diag = IF Valid THEN Nobody ELSE cli.diag

LEMMA LateMoves ==
    ASSUME NativeTypeOK, LateFreeStmt
    PROVE  LateStep
  <1>1. Nobody \in Someone /\ stmt \in StmtRecords
    BY Native DEF Someone
  <1>2. /\ stmt'.open = stmt.open /\ stmt'.params = stmt.params
        /\ stmt'.late = Nobody
    BY <1>1 DEF LateFreeStmt, StmtRecords
  <1> QED
    BY <1>1, <1>2, Diagnoses DEF LateFreeStmt, LateStep

LEMMA DisconnectMoves ==
    ASSUME NativeTypeOK, Disconnect
    PROVE  cli'.alive = FALSE /\ UNCHANGED <<stmt, shape, work, js, faults>>
  BY Native DEF Disconnect

-----------------------------------------------------------------------------
(* One at a time: the application's calls. *)

SerialInv == OneAtATime /\ \A c \in Calls : CallOK(c)

LEMMA SerialTypes ==
    ASSUME TypeOK
    PROVE  /\ NativeTypeOK /\ QueueTypeOK
           /\ work \in [Calls -> WorkRecords]
           /\ kind \in [Calls -> Kinds \cup {"none"}]
           /\ stage \in [Calls -> Stages]
           /\ executing \in BOOLEAN /\ turn \in BOOLEAN
           /\ binds \in Seq(Calls) /\ fifo \in Seq(Calls)
           /\ then \in Someone /\ Nobody \notin Calls
  BY Types, Native, NobodyAssumption DEF QueueTypeOK

(* Nothing that the invariant is about changes but the work of one call.    *)
LEMMA SerialFrame ==
    ASSUME TypeOK, SerialInv, NEW c \in Calls, Alone(c),
           UNCHANGED <<kind, stage, then, binds>>,
           turn' => ~executing', executing => executing',
           ~Idle(c)' => ~Idle(c),
           work'[c].op \in SerialOps \cup {"bind"} => work'[c].op = work[c].op
    PROVE  SerialInv'
  <1>0. LateOps \subseteq SerialOps
    BY DEF LateOps, SerialOps
  <1>1. \A d \in Calls : /\ Serial(d)' <=> Serial(d)
                         /\ Busy(d)' => Busy(d)
    BY DEF Serial, Busy, Idle, Alone
  <1>2. OneAtATime'
    BY <1>1 DEF SerialInv, OneAtATime
  <1>3. ASSUME NEW d \in Calls PROVE CallOK(d)'
    BY <1>0, <1>1 DEF SerialInv, CallOK, Alone, Idle
  <1> QED
    BY <1>2, <1>3 DEF SerialInv

LEMMA PushSerial ==
    ASSUME TypeOK, SerialInv, NEW c \in Calls, NEW k \in Kinds, Push(c, k)
    PROVE  SerialInv'
  <1>0. /\ kind \in [Calls -> Kinds \cup {"none"}] /\ stage \in [Calls -> Stages]
        /\ binds \in Seq(Calls)
    BY SerialTypes
  <1>1. /\ kind[c] = "none" /\ k \in Queued /\ Idle(c) /\ then # c
        /\ work[c].op \notin SerialOps \cup {"bind"}
    BY DEF Push, MayMake, SerialInv, CallOK, Serial, Queued, WithParams, Plain
  <1>2. /\ kind' = [kind EXCEPT ![c] = k]
        /\ stage' = [stage EXCEPT ![c] = FirstStage(k)]
        /\ turn' = ~executing /\ UNCHANGED <<executing, then, binds, work>>
    BY DEF Push, nativeVars
  <1>3. \A d \in Calls \ {c} : kind'[d] = kind[d] /\ stage'[d] = stage[d]
    BY <1>0, <1>2
  <1>4. kind'[c] = k /\ stage'[c] = FirstStage(k)
    BY <1>0, <1>2
  <1>5. /\ FirstStage(k) # "none"
        /\ FirstStage(k) = "prepare" <=> k = "prepare"
        /\ FirstStage(k) = "bind" => k \in WithParams
        /\ FirstStage(k) \in LateOps \cup {"callback"} => k \in ClosesLate
        /\ k # "none" /\ work[c].op \notin LateOps
    BY <1>1 DEF FirstStage, Queued, WithParams, Plain, LateOps, ClosesLate,
                SerialOps
  <1>6. \A d \in Calls : Busy(d)' => Busy(d) /\ d # c
    BY <1>1, <1>2, <1>3 DEF Busy, Serial, Idle
  <1>7. OneAtATime'
    <2>1. \A i \in DOMAIN binds : binds[i] \in Calls /\ binds[i] # c
      BY <1>0, <1>1 DEF SerialInv, OneAtATime
    <2> QED
      BY <1>2, <1>3, <1>6, <2>1 DEF SerialInv, OneAtATime
  <1>8. ASSUME NEW d \in Calls PROVE CallOK(d)'
    <2>1. CASE d = c
      BY <1>1, <1>2, <1>4, <1>5, <2>1 DEF CallOK, Serial, Idle
    <2>2. CASE d # c
      BY <1>2, <1>3, <2>2 DEF SerialInv, CallOK, Serial, Idle
    <2> QED
      BY <2>1, <2>2
  <1> QED
    BY <1>7, <1>8 DEF SerialInv

(* A call that queue does not see is made: the work it may start is none    *)
(* whose handler calls next().                                              *)
LEMMA OtherSerial ==
    ASSUME TypeOK, SerialInv, NEW c \in Calls,
           NEW k \in Kinds \ (Queued \cup {"none"}),
           kind[c] = "none", kind' = [kind EXCEPT ![c] = k], Alone(c),
           UNCHANGED <<stage, then, turn, executing>>,
           binds' = binds \/ (binds' = Append(binds, c) /\ k = "bind"),
           work'[c].op \notin SerialOps \cup {"bind"} \/ work' = work
    PROVE  SerialInv'
  <1>0. /\ kind \in [Calls -> Kinds \cup {"none"}] /\ stage \in [Calls -> Stages]
        /\ binds \in Seq(Calls)
    BY SerialTypes
  <1>1. /\ stage[c] = "none" /\ Idle(c) /\ ~Serial(c)
        /\ work[c].op \notin SerialOps \cup {"bind"}
    BY DEF SerialInv, CallOK, Serial, Queued, WithParams, Plain
  <1>2. kind'[c] = k /\ \A d \in Calls \ {c} : kind'[d] = kind[d]
    BY <1>0
  <1>3. \A d \in Calls : Busy(d)' => Busy(d) /\ d # c
    BY <1>2 DEF Busy, Serial, Idle, Alone
  <1>4. OneAtATime'
    <2>1. \A i \in DOMAIN binds : binds[i] \in Calls /\ binds[i] # c
      BY <1>0 DEF SerialInv, OneAtATime
    <2>2. \A i \in DOMAIN binds' : kind'[binds'[i]] = "bind"
      <3>1. CASE binds' = binds
        BY <1>2, <2>1, <3>1 DEF SerialInv, OneAtATime
      <3>2. CASE binds' = Append(binds, c) /\ k = "bind"
        <4>1. ASSUME NEW i \in DOMAIN binds' PROVE kind'[binds'[i]] = "bind"
          <5>1. (i \in DOMAIN binds /\ binds'[i] = binds[i]) \/ binds'[i] = c
            BY <1>0, <3>2, <4>1
          <5> QED
            BY <1>2, <2>1, <3>2, <5>1 DEF SerialInv, OneAtATime
        <4> QED
          BY <4>1
      <3> QED
        BY <3>1, <3>2
    <2> QED
      BY <1>3, <2>2 DEF SerialInv, OneAtATime
  <1>5. ASSUME NEW d \in Calls PROVE CallOK(d)'
    <2>1. CASE d = c
      <3>1. /\ stage'[c] \notin LateOps \cup {"callback", "prepare", "bind"}
            /\ work'[c].op \notin SerialOps \cup {"bind"} \cup LateOps
        BY <1>1 DEF LateOps, SerialOps
      <3>2. then' # c
        BY DEF SerialInv, CallOK
      <3> QED
        BY <1>1, <1>2, <2>1, <3>1, <3>2 DEF CallOK, Serial
    <2>2. CASE d # c
      BY <1>2, <2>2 DEF SerialInv, CallOK, Serial, Idle, Alone
    <2> QED
      BY <2>1, <2>2
  <1> QED
    BY <1>4, <1>5 DEF SerialInv

LEMMA ApplicationSerial ==
    ASSUME TypeOK, SerialInv, NEW c \in Calls, Application(c)
    PROVE  SerialInv'
  <1>0. NativeTypeOK /\ work \in [Calls -> WorkRecords]
    BY SerialTypes
  <1>1. ASSUME NEW k \in Kinds, Push(c, k) PROVE SerialInv'
    BY <1>1, PushSerial
  <1>2. ASSUME NEW k \in Kinds, CallSync(c, k) PROVE SerialInv'
    <2>1. SyncMethods(c) /\ k \in Kinds \ (Queued \cup {"none"})
      BY <1>2 DEF CallSync, SyncMethods, Queued, WithParams, Plain
    <2>2. /\ kind[c] = "none" /\ kind' = [kind EXCEPT ![c] = k]
          /\ UNCHANGED <<stage, then, turn, executing, binds>>
      BY <1>2 DEF CallSync, MayMake
    <2>3. SyncStep(c)
      BY <1>0, <2>1, SyncMoves
    <2> QED
      BY <2>1, <2>2, <2>3, OtherSerial DEF SyncStep
  <1>3. CASE PushBind(c)
    <2>1. "bind" \in Kinds \ (Queued \cup {"none"}) /\ kind[c] = "none"
      BY <1>3 DEF PushBind, MayMake, Queued, WithParams, Plain
    <2>2. /\ kind' = [kind EXCEPT ![c] = "bind"] /\ binds' = Append(binds, c)
          /\ UNCHANGED <<stage, then, turn, executing, work>>
      BY <1>3 DEF PushBind, nativeVars
    <2> QED
      BY <2>1, <2>2, OtherSerial DEF Alone
  <1>4. CASE PushSetAttr(c)
    <2>1. "setAttr" \in Kinds \ (Queued \cup {"none"}) /\ kind[c] = "none"
      BY <1>4 DEF PushSetAttr, MayMake, Queued, WithParams, Plain
    <2>2. /\ kind' = [kind EXCEPT ![c] = "setAttr"]
          /\ UNCHANGED <<stage, then, turn, executing, binds>>
      BY <1>4 DEF PushSetAttr
    <2>3. CASE UNCHANGED nativeVars
      BY <2>1, <2>2, <2>3, OtherSerial DEF nativeVars, Alone
    <2>4. CASE SetAttr(c)
      <3>1. QueueStep(c, "setAttr")
        BY <1>0, <2>4, QueuesMoves DEF SetAttr
      <3>2. work'[c].op \notin SerialOps \cup {"bind"}
        BY <3>1 DEF QueueStep, NoWork, SerialOps, Options
      <3> QED
        BY <2>1, <2>2, <3>1, <3>2, OtherSerial DEF QueueStep
    <2> QED
      BY <1>4, <2>3, <2>4 DEF PushSetAttr
  <1> QED
    BY <1>1, <1>2, <1>3, <1>4 DEF Application

-----------------------------------------------------------------------------
(* One at a time: the queues' functions. *)

LEMMA BindTurnSerial ==
    ASSUME TypeOK, SerialInv, BindTurn
    PROVE  SerialInv'
  <1>0. NativeTypeOK /\ work \in [Calls -> WorkRecords] /\ binds \in Seq(Calls)
    BY SerialTypes
  <1>1. CASE binds = <<>>
    <2>1. UNCHANGED <<kind, stage, then, binds, turn, executing, work>>
      BY <1>1 DEF BindTurn, nativeVars
    <2>2. \A d \in Calls : (Serial(d)' <=> Serial(d)) /\ (Busy(d)' <=> Busy(d))
      BY <2>1 DEF Serial, Busy, Idle
    <2> QED
      BY <2>1, <2>2 DEF SerialInv, OneAtATime, CallOK, Idle
  <1>2. CASE binds # <<>>
    <2>1. PICK c \in Calls : c = Head(binds)
      BY <1>0, <1>2
    <2>2. /\ Bind(c) /\ binds' = Tail(binds)
          /\ UNCHANGED <<kind, stage, then, turn, executing>>
      BY <1>2, <2>1 DEF BindTurn
    <2>3. kind[c] = "bind" /\ ~Serial(c)
      BY <1>0, <1>2, <2>1 DEF SerialInv, OneAtATime, Serial, Queued, WithParams,
                              Plain
    <2>4. QueueStep(c, "bind")
      BY <1>0, <2>2, QueuesMoves
    <2>5. work'[c].op = "bind" /\ "bind" \notin SerialOps \cup LateOps
      BY <2>4 DEF QueueStep, NoWork, SerialOps, LateOps, Options
    <2>6. \A d \in Calls : Busy(d)' => Busy(d)
      BY <2>2, <2>3, <2>4 DEF QueueStep, Alone, Busy, Serial, Idle
    <2>7. \A i \in DOMAIN binds' : kind[binds'[i]] = "bind"
      <3>1. \A i \in DOMAIN binds' : i + 1 \in DOMAIN binds /\ binds'[i] = binds[i + 1]
        BY <1>0, <1>2, <2>2
      <3> QED
        BY <3>1 DEF SerialInv, OneAtATime
    <2>8. OneAtATime'
      BY <2>2, <2>6, <2>7 DEF SerialInv, OneAtATime
    <2>9. ASSUME NEW d \in Calls PROVE CallOK(d)'
      <3>1. CASE d = c
        BY <2>2, <2>3, <2>5, <3>1 DEF SerialInv, CallOK, Serial
      <3>2. CASE d # c
        BY <2>2, <2>4, <3>2
           DEF SerialInv, CallOK, Serial, Idle, Alone, QueueStep
      <3> QED
        BY <3>1, <3>2
    <2> QED
      BY <2>8, <2>9 DEF SerialInv
  <1> QED
    BY <1>1, <1>2

LEMMA TurnSerial ==
    ASSUME TypeOK, SerialInv, QueueEmpty \/ Turn \/ GoOn \/ CallbackReturns
    PROVE  SerialInv'
  <1>0. /\ NativeTypeOK /\ work \in [Calls -> WorkRecords]
        /\ stage \in [Calls -> Stages] /\ fifo \in Seq(Calls)
        /\ executing \in BOOLEAN /\ Nobody \notin Calls /\ then \in Someone
    BY SerialTypes
  <1>1. CASE QueueEmpty
    <2>1. /\ UNCHANGED <<kind, stage, then, binds, executing, work>>
          /\ turn' = FALSE
      BY <1>1 DEF QueueEmpty, nativeVars
    <2>2. \A d \in Calls : (Serial(d)' <=> Serial(d)) /\ (Busy(d)' <=> Busy(d))
      BY <2>1 DEF Serial, Busy, Idle
    <2> QED
      BY <2>1, <2>2 DEF SerialInv, OneAtATime, CallOK, Idle
  <1>2. CASE Turn
    <2>1. PICK c \in Calls : c = Head(fifo)
      BY <1>0, <1>2 DEF Turn
    <2>2. /\ Starts(c, stage[c]) /\ turn
          /\ executing' = (stage[c] # "prepare") /\ turn' = (stage[c] = "prepare")
          /\ UNCHANGED <<kind, stage, then, binds>>
      BY <1>2, <2>1 DEF Turn
    <2>3. PICK o : /\ QueueStep(c, o)
                   /\ o \in SerialOps \cup {"bind", "prepare"}
                   /\ stage[c] \notin {"lastParamData", "lastPutData"} => o = stage[c]
                   /\ stage[c] \in {"lastParamData", "lastPutData"} =>
                         o \in {"paramData", "putData"}
      BY <1>0, <2>2, StartsMoves
    <2>4. \A d \in Calls : ~Busy(d)
      BY <2>2 DEF SerialInv, OneAtATime
    <2>5. /\ work'[c].op = o
          /\ \A d \in Calls : d # c => work'[d] = work[d]
      BY <2>3 DEF QueueStep, NoWork, Alone
    <2>6. /\ o = "prepare" <=> stage[c] = "prepare"
          /\ stage[c] # "none"
          /\ o \in SerialOps => stage[c] # "prepare"
          /\ o = "bind" <=> stage[c] = "bind"
          /\ o \in LateOps => stage[c] = o
      BY <2>3 DEF SerialOps, LateOps, Options
    <2>n. then # c
      BY <2>4 DEF SerialInv, CallOK, Busy
    <2>7. \A d \in Calls : Busy(d)' => d = c
      BY <2>2, <2>4, <2>5 DEF Busy, Serial, Idle
    <2>8. stage[c] = "prepare" => ~Serial(c)
      BY DEF SerialInv, CallOK, Serial
    <2>9. OneAtATime'
      BY <2>2, <2>7, <2>8 DEF SerialInv, OneAtATime, Busy, Serial
    <2>10. ASSUME NEW d \in Calls PROVE CallOK(d)'
      <3>1. CASE d = c
        BY <2>2, <2>5, <2>6, <2>n, <3>1 DEF SerialInv, CallOK, Serial
      <3>2. CASE d # c
        BY <2>2, <2>5, <3>2 DEF SerialInv, CallOK, Serial, Idle
      <3> QED
        BY <3>1, <3>2
    <2> QED
      BY <2>9, <2>10 DEF SerialInv
  <1>3. CASE GoOn
    <2>1. PICK c \in Calls : c = then
      BY <1>0, <1>3 DEF GoOn, Someone
    <2>2. PICK o \in {"execute", "nonQuery"} : Queues(c, o) /\ stage[c] = o
      BY <1>3, <2>1 DEF GoOn, Execute, ExecuteNonQuery
    <2>3. /\ then' = Nobody
          /\ UNCHANGED <<kind, stage, turn, executing, binds>>
      BY <1>3 DEF GoOn
    <2>4. QueueStep(c, o)
      BY <1>0, <2>2, QueuesMoves
    <2>5. work'[c].op = o /\ \A d \in Calls : d # c => work'[d] = work[d]
      BY <2>4 DEF QueueStep, NoWork, Alone
    <2>6. Serial(c)
      BY <2>2 DEF SerialInv, CallOK
    <2>7. \A d \in Calls : Busy(d)' => Busy(d)
      BY <1>0, <2>1, <2>3, <2>5, <2>6 DEF Busy, Serial, Idle
    <2>8. OneAtATime'
      BY <2>3, <2>7 DEF SerialInv, OneAtATime
    <2>9. ASSUME NEW d \in Calls PROVE CallOK(d)'
      <3>1. CASE d = c
        BY <1>0, <2>2, <2>3, <2>5, <2>6, <3>1 DEF SerialInv, CallOK, Serial, Queued
      <3>2. CASE d # c
        BY <1>0, <2>3, <2>5, <3>2 DEF SerialInv, CallOK, Serial, Idle
      <3> QED
        BY <3>1, <3>2
    <2> QED
      BY <2>8, <2>9 DEF SerialInv
  <1>4. CASE CallbackReturns
    <2>1. PICK c \in Calls : c = then
      BY <1>0, <1>4 DEF CallbackReturns, InCallback, Someone
    <2>2. /\ then' = Nobody /\ executing' = FALSE /\ turn' = TRUE
          /\ UNCHANGED <<kind, stage, binds, work>>
      BY <1>4 DEF CallbackReturns, NextCall, nativeVars
    <2>3. Busy(c) /\ Idle(c)
      BY <2>1 DEF SerialInv, CallOK, Busy
    <2>4. \A d \in Calls : (Serial(d)' <=> Serial(d)) /\ ~Busy(d)'
      BY <1>0, <2>1, <2>2, <2>3 DEF SerialInv, OneAtATime, Busy, Serial, Idle
    <2>5. OneAtATime'
      BY <2>2, <2>4 DEF SerialInv, OneAtATime
    <2>6. ASSUME NEW d \in Calls PROVE CallOK(d)'
      BY <1>0, <2>2, <2>4 DEF SerialInv, CallOK, Idle
    <2> QED
      BY <2>5, <2>6 DEF SerialInv
  <1> QED
    BY <1>1, <1>2, <1>3, <1>4

-----------------------------------------------------------------------------
(* One at a time: the handlers. *)

(* The work of a call ends. *)
LEMMA EndedWork ==
    ASSUME TypeOK, SerialInv, NEW c \in Calls, Alone(c), work'[c] = NoWork,
           then' = then, kind' = kind
    PROVE  /\ \A d \in Calls : (Serial(d)' <=> Serial(d)) /\ (Busy(d)' => Busy(d))
           /\ \A d \in Calls :
                 work'[d].op \in SerialOps \cup {"bind"} \cup LateOps
                     => work'[d] = work[d]
           /\ \A d \in Calls : Idle(d) => Idle(d)'
           /\ then # c => ~Busy(c)'
  BY DEF Alone, NoWork, Serial, Busy, Idle, SerialOps, Options, LateOps

(* The handler of a call of queue ends it, and may start its next step. *)
LEMMA EndSerial ==
    ASSUME TypeOK, SerialInv, NEW c \in Calls, Busy(c), then = Nobody,
           Alone(c), work'[c] = NoWork,
           UNCHANGED <<kind, then, binds>>, executing' = FALSE, turn' = TRUE,
           \/ stage' = stage
           \/ /\ kind[c] = "stream"
              /\ \E s \in {"none", "paramData", "reading"} :
                    stage' = [stage EXCEPT ![c] = s]
    PROVE  SerialInv'
  <1>0. stage \in [Calls -> Stages] /\ Nobody \notin Calls
    BY SerialTypes
  <1>1. \A d \in Calls : /\ Serial(d)' <=> Serial(d)
                         /\ Busy(d)' => Busy(d)
                         /\ work'[d].op \in SerialOps \cup {"bind"} \cup LateOps
                               => work'[d] = work[d]
                         /\ Idle(d) => Idle(d)'
    BY EndedWork
  <1>2. \A d \in Calls : ~Busy(d)'
    <2>1. ~Busy(c)'
      BY <1>0, EndedWork
    <2>2. \A d \in Calls : d # c => ~Busy(d)
      BY DEF SerialInv, OneAtATime
    <2> QED
      BY <1>1, <2>1, <2>2
  <1>3. OneAtATime'
    BY <1>2 DEF SerialInv, OneAtATime
  <1>4. ASSUME NEW d \in Calls PROVE CallOK(d)'
    <2>1. CASE stage'[d] = stage[d]
      BY <1>1, <2>1 DEF SerialInv, CallOK
    <2>2. CASE stage'[d] # stage[d]
      <3>1. /\ d = c /\ kind[c] = "stream"
            /\ stage'[c] \notin {"prepare", "bind", "callback"} \cup LateOps
        BY <1>0, <2>2 DEF LateOps
      <3> QED
        BY <1>0, <1>1, <3>1 DEF SerialInv, CallOK, Busy
    <2> QED
      BY <2>1, <2>2
  <1> QED
    BY <1>3, <1>4 DEF SerialInv

LEMMA BusyDone ==
    ASSUME SerialInv, NEW c \in Calls, work[c].phase = "done",
           work[c].op \in SerialOps \/ Serial(c)
    PROVE  Busy(c)
  BY DEF SerialInv, CallOK, Busy, Idle

(* The handler of a call of queue goes on with it. *)
LEMMA GoesOnSerial ==
    ASSUME TypeOK, SerialInv, NEW c \in Calls, Busy(c),
           Alone(c), work'[c] = NoWork, then' = c,
           UNCHANGED <<kind, binds, executing, turn>>,
           NEW s \in Stages \ {"none", "prepare", "bind"},
           s \in LateOps \cup {"callback"} => kind[c] \in ClosesLate,
           stage' = [stage EXCEPT ![c] = s]
    PROVE  SerialInv'
  <1>0. stage \in [Calls -> Stages] /\ Nobody \notin Calls
    BY SerialTypes
  <1>1. /\ \A d \in Calls : d # c => work'[d] = work[d] /\ stage'[d] = stage[d]
        /\ stage'[c] = s
    BY <1>0 DEF Alone
  <1>2. \A d \in Calls : (Serial(d)' <=> Serial(d)) /\ (Busy(d)' => Busy(d))
    BY <1>1 DEF Serial, Busy, Idle
  <1>3. OneAtATime'
    BY <1>2 DEF SerialInv, OneAtATime
  <1>4. ASSUME NEW d \in Calls PROVE CallOK(d)'
    <2>1. CASE d = c
      <3>1. Serial(c) /\ kind[c] # "none"
        BY DEF Busy, Serial, Queued, WithParams, Plain
      <3>2. /\ work'[c].op \notin SerialOps \cup {"bind"} \cup LateOps
            /\ Idle(c)'
        BY NoWorkTyped DEF SerialOps, LateOps, Options, Idle
      <3> QED
        BY <1>1, <1>2, <2>1, <3>1, <3>2 DEF CallOK
    <2>2. CASE d # c
      BY <1>1, <1>2, <2>2 DEF SerialInv, CallOK, Idle
    <2> QED
      BY <2>1, <2>2
  <1> QED
    BY <1>3, <1>4 DEF SerialInv

LEMMA CallsBackSerial ==
    ASSUME TypeOK, SerialInv, NEW c \in Calls, HandlerStep(c),
           work'[c] = NoWork, work[c].op \in LateOps, CallsBack(c)
    PROVE  SerialInv'
  <1>1. Busy(c) /\ kind[c] \in ClosesLate
    <2>1. work[c].op \in SerialOps
      BY DEF LateOps, SerialOps
    <2> QED
      BY <2>1, BusyDone DEF HandlerStep, SerialInv, CallOK
  <1>2. "callback" \in Stages \ {"none", "prepare", "bind"}
    BY DEF Stages
  <1> QED
    BY <1>1, <1>2, GoesOnSerial DEF CallsBack, HandlerStep

LEMMA AfterBindSerial ==
    ASSUME TypeOK, SerialInv, NEW c \in Calls, AfterBindOfParams(c)
    PROVE  SerialInv'
  <1>0. NativeTypeOK /\ stage \in [Calls -> Stages] /\ Nobody \notin Calls
    BY SerialTypes
  <1>1. /\ HandlerStep(c) /\ work'[c] = NoWork /\ work[c].op = "bind"
        /\ then = Nobody /\ kind[c] \in WithParams
    BY <1>0, ReportsMoves DEF AfterBindOfParams, UV_AfterBind, InLoop
  <1>2. Busy(c)
    BY <1>1, BusyDone DEF HandlerStep, Serial, Queued, WithParams
  <1>3. CASE Failed(c)
    BY <1>1, <1>2, <1>3, EndSerial
       DEF AfterBindOfParams, Ends, NextCall, HandlerStep
  <1>4. CASE ~Failed(c)
    <2> DEFINE s == IF kind[c] = "executeParams" THEN "execute" ELSE "nonQuery"
    <2>1. /\ stage' = [stage EXCEPT ![c] = s] /\ then' = c
          /\ UNCHANGED <<kind, binds, executing, turn>>
      BY <1>4 DEF AfterBindOfParams
    <2>2. /\ s \in Stages \ {"none", "prepare", "bind"}
          /\ s \in LateOps \cup {"callback"} => kind[c] \in ClosesLate
      BY <1>1 DEF Stages, LateOps, ClosesLate, WithParams
    <2> HIDE DEF s
    <2> QED
      BY <1>1, <1>2, <2>1, <2>2, GoesOnSerial DEF HandlerStep
  <1> QED
    BY <1>3, <1>4

LEMMA HandlerSerial ==
    ASSUME TypeOK, SerialInv, NEW c \in Calls, Handler(c)
    PROVE  SerialInv'
  <1>0. /\ NativeTypeOK /\ work \in [Calls -> WorkRecords]
        /\ stage \in [Calls -> Stages] /\ Nobody \notin Calls
        /\ executing \in BOOLEAN /\ turn \in BOOLEAN
    BY SerialTypes
  <1>1. CASE AfterBindOfParams(c)
    BY <1>1, AfterBindSerial
  <1>2. CASE AfterExecution(c)
    <2>1. HandlerStep(c) /\ work[c].op \in SerialOps /\ work'[c] = NoWork
      BY <1>0, <1>2, AfterExecutionMoves DEF AfterExecution
    <2>2. CASE Ends(c)
      BY <1>2, <2>1, <2>2, BusyDone, EndSerial
         DEF AfterExecution, HandlerStep, Ends, NextCall, InLoop
    <2>3. CASE UV_AfterExecuteNonQuery(c) /\ CallsBack(c)
      <3>1. work[c].op \in LateOps
        BY <2>3 DEF UV_AfterExecuteNonQuery, Delivers, LateOps
      <3> QED
        BY <2>1, <2>3, <3>1, CallsBackSerial
    <2> QED
      BY <1>2, <2>2, <2>3 DEF AfterExecution
  <1>3. CASE AfterOther(c)
    <2>1. /\ HandlerStep(c) /\ work[c].op \in SerialOps
          /\ \/ CallsBack(c) /\ work'[c] = NoWork /\ work[c].op \in LateOps
             \/ js' = Nobody /\ Ends(c) /\ work'[c] = NoWork
             \/ js' = c /\ UNCHANGED queueVars
      BY <1>0, <1>3, AfterOtherMoves
    <2>2. CASE Ends(c) /\ work'[c] = NoWork
      BY <1>3, <2>1, <2>2, BusyDone, EndSerial
         DEF AfterOther, HandlerStep, Ends, NextCall, InLoop
    <2>4. CASE CallsBack(c) /\ work'[c] = NoWork /\ work[c].op \in LateOps
      BY <2>1, <2>4, CallsBackSerial
    <2>3. CASE js' = c /\ UNCHANGED queueVars
      <3>1. js = Nobody /\ ~turn /\ c # Nobody
        BY <1>0, <1>3 DEF AfterOther, InLoop
      <3>2. work'[c].phase = "endless" /\ work'[c].op = work[c].op
        BY <2>1, <2>3, <3>1 DEF HandlerStep
      <3>3. UNCHANGED <<kind, stage, then, binds, turn, executing>>
        BY <2>3 DEF queueVars
      <3> QED
        BY <2>1, <3>1, <3>2, <3>3, SerialFrame DEF HandlerStep, Idle
    <2> QED
      BY <2>1, <2>2, <2>3, <2>4
  <1>4. CASE AfterUnqueued(c)
    <2>1. PICK o : Reports(c, o)
      BY <1>4 DEF AfterUnqueued, UV_AfterPrepare, UV_AfterSetAttr, UV_AfterBind
    <2>2. HandlerStep(c) /\ work'[c] = NoWork
      BY <1>0, <2>1, ReportsMoves
    <2>3. UNCHANGED <<kind, stage, then, binds, turn, executing>> /\ ~turn
      BY <1>4 DEF AfterUnqueued, InLoop
    <2>4. ~Idle(c) /\ work'[c].op \notin SerialOps \cup {"bind"}
      BY <2>2 DEF HandlerStep, Idle, NoWork, SerialOps, Options
    <2> QED
      BY <2>2, <2>3, <2>4, SerialFrame DEF HandlerStep
  <1>5. CASE AfterStreaming(c)
    <2>1. PICK o : Reports(c, o)
      BY <1>5 DEF AfterStreaming, UV_AfterExecuteForStreaming, UV_AfterParamData,
                  UV_AfterPutData
    <2>2. HandlerStep(c) /\ work'[c] = NoWork
      BY <1>0, <2>1, ReportsMoves
    <2>3. /\ kind[c] = "stream" /\ then = Nobody
          /\ UNCHANGED <<kind, then, binds>> /\ executing' = FALSE /\ turn' = TRUE
      BY <1>5 DEF AfterStreaming, InLoop, NextCall
    <2>4. Serial(c)
      BY <2>3 DEF Serial, Queued
    <2>5. \E s \in {"none", "paramData", "reading"} : stage' = [stage EXCEPT ![c] = s]
      BY <1>5 DEF AfterStreaming, Again, Done, GivesUp, Reads
    <2> QED
      BY <2>2, <2>3, <2>4, <2>5, BusyDone, EndSerial DEF HandlerStep
  <1>6. CASE StreamData(c) \/ StreamEnd(c) \/ StreamError(c)
    <2>1. /\ UNCHANGED <<kind, then, binds, work, executing>> /\ ~turn
          /\ turn' = ~executing \/ turn' = turn
          /\ stage[c] \in {"reading", "putData"}
          /\ \E s \in {"none", "putData", "lastPutData", "lastParamData"} :
                stage' = [stage EXCEPT ![c] = s]
      BY <1>6 DEF StreamData, StreamEnd, StreamError, Again, InLoop, nativeVars
    <2>2. Serial(c)
      BY <2>1 DEF SerialInv, CallOK
    <2>3. \A d \in Calls : (Serial(d)' <=> Serial(d)) /\ (Busy(d)' <=> Busy(d))
      BY <2>1 DEF Serial, Busy, Idle
    <2>4. OneAtATime'
      BY <1>0, <2>1, <2>3 DEF SerialInv, OneAtATime
    <2>5. ASSUME NEW d \in Calls PROVE CallOK(d)'
      <3>1. CASE d = c
        <4>1. kind[c] # "none"
          BY <2>2 DEF Serial, Queued, WithParams, Plain
        <4>2. stage'[c] \notin {"prepare", "bind", "callback"} \cup LateOps
          BY <1>0, <2>1 DEF LateOps
        <4> QED
          BY <2>1, <2>2, <2>3, <3>1, <4>1, <4>2 DEF SerialInv, CallOK, Idle
      <3>2. CASE d # c
        BY <1>0, <2>1, <2>3, <3>2 DEF SerialInv, CallOK, Idle
      <3> QED
        BY <3>1, <3>2
    <2> QED
      BY <2>4, <2>5 DEF SerialInv
  <1> QED
    BY <1>1, <1>2, <1>3, <1>4, <1>5, <1>6 DEF Handler

LEMMA SerialInit == Init => SerialInv
  BY NobodyAssumption
     DEF Init, NativeInit, NoWork, SerialInv, OneAtATime, CallOK, Busy, Serial,
         Idle, Queued, WithParams, Plain, SerialOps, LateOps, Options

LEMMA SerialStep == TypeOK /\ SerialInv /\ [Next]_vars => SerialInv'
  <1> SUFFICES ASSUME TypeOK, SerialInv, [Next]_vars PROVE SerialInv'
    OBVIOUS
  <1>0. NativeTypeOK
    BY SerialTypes
  <1>1. ASSUME NEW c \in Calls, Application(c) PROVE SerialInv'
    BY <1>1, ApplicationSerial
  <1>2. ASSUME NEW c \in Calls, Works(c) PROVE SerialInv'
    <2>1. WorkerStep(c) /\ UNCHANGED queueVars
      BY <1>0, <1>2, WorkerMoves DEF Works
    <2>2. UNCHANGED <<kind, stage, then, binds, turn, executing>>
      BY <2>1 DEF queueVars
    <2> QED
      BY <2>1, <2>2, SerialFrame DEF WorkerStep, Idle, SerialInv, OneAtATime
  <1>3. CASE Thread
    <2>1. ASSUME NEW c \in Calls, Unblock(c), UNCHANGED queueVars PROVE SerialInv'
      <3>1. Alone(c) /\ work'[c] = NoWork /\ work[c].op \in {"bindSync", "closeSync"}
        BY <1>0, <2>1, UnblockMoves
      <3>2. UNCHANGED <<kind, stage, then, binds, turn, executing>>
        BY <2>1 DEF queueVars
      <3>3. /\ work'[c].op \notin SerialOps \cup {"bind"} \cup LateOps
            /\ Idle(c)'
        BY <3>1 DEF NoWork, Idle, SerialOps, LateOps, Options
      <3>4. \A d \in Calls : /\ Serial(d)' <=> Serial(d)
                             /\ Busy(d)' => Busy(d)
                             /\ Idle(d) => Idle(d)'
        BY <3>1, <3>2, <3>3 DEF Serial, Busy, Idle, Alone
      <3>5. OneAtATime'
        BY <3>2, <3>4 DEF SerialInv, OneAtATime
      <3>6. ASSUME NEW d \in Calls PROVE CallOK(d)'
        BY <3>1, <3>2, <3>3, <3>4 DEF SerialInv, CallOK, Alone
      <3> QED
        BY <3>5, <3>6 DEF SerialInv
    <2>2. ASSUME HandlerEnds PROVE SerialInv'
      <3>1. UNCHANGED <<work, kind, stage, then, binds, turn, executing>>
        BY <2>2 DEF HandlerEnds, LateFreeStmt, queueVars
      <3> QED
        BY <3>1 DEF SerialInv, OneAtATime, CallOK, Idle, Busy, Serial
    <2> QED
      BY <1>3, <2>1, <2>2, BindTurnSerial, TurnSerial, HandlerSerial DEF Thread
  <1>4. CASE (Disconnect /\ UNCHANGED queueVars) \/ UNCHANGED vars
    <2>1. UNCHANGED <<work, kind, stage, then, binds, turn, executing>>
      BY <1>0, <1>4, DisconnectMoves DEF queueVars, vars, nativeVars
    <2>2. \A d \in Calls : (Serial(d)' <=> Serial(d)) /\ (Busy(d)' <=> Busy(d))
      BY <2>1 DEF Serial, Busy, Idle
    <2> QED
      BY <2>1, <2>2 DEF SerialInv, OneAtATime, CallOK, Idle
  <1> QED
    BY <1>1, <1>2, <1>3, <1>4 DEF Next

LEMMA SerialAlways == Spec => [](TypeOK /\ SerialInv)
  <1>1. Init => TypeOK /\ SerialInv
    BY TypeInit, SerialInit
  <1>2. TypeOK /\ SerialInv /\ [Next]_vars => (TypeOK /\ SerialInv)'
    BY TypeStep, SerialStep
  <1> QED
    BY <1>1, <1>2, PTL DEF Spec

-----------------------------------------------------------------------------
(* The handle. *)

(* A step of the handle never brings it back, and keeps what dropping left. *)
LEMMA HandleKept ==
    ASSUME TypeOK, HandleStep
    PROVE  /\ Valid' => Valid
           /\ DroppedIsFreed => DroppedIsFreed'
  <1>1. /\ cli \in [alive : BOOLEAN, bound : Someone, needs : Needs,
                    diag : Someone]
        /\ stmt \in StmtRecords
    BY SerialTypes, Native
  <1>2. CASE FreeHandle
    <2>1. CASE Valid /\ cli.needs = "no"
      BY <1>1, <1>2, <2>1 DEF FreeHandle, Valid, DroppedIsFreed
    <2>2. CASE ~(Valid /\ cli.needs = "no")
      BY <1>1, <1>2, <2>2 DEF FreeHandle, Valid, DroppedIsFreed
    <2> QED
      BY <2>1, <2>2
  <1>3. CASE ~FreeHandle
    BY <1>1, <1>3 DEF HandleStep, Valid, DroppedIsFreed
  <1> QED
    BY <1>2, <1>3

(* Every step is one of these, for the handle and the JavaScript thread.    *)
StuckStep ==
    Stuck' => Stuck \/ ~Valid

LEMMA StuckFrame ==
    ASSUME NEW c \in Calls, Alone(c),
           work'[c].phase # "endless" \/ ~Valid
    PROVE  StuckStep
  BY DEF StuckStep, Stuck, Alone

(* What a step is to the native object. *)
LEMMA Steps ==
    ASSUME TypeOK, [Next]_vars
    PROVE  \/ UNCHANGED nativeVars
           \/ \E c \in Calls : /\ SyncMethods(c)
                               /\ kind'[c] \in Made' \ Queued
           \/ \E c \in Calls : \E o : QueueStep(c, o)
           \/ \E c \in Calls : HandlerStep(c) /\ Handler(c)
           \/ LateStep /\ UNCHANGED queueVars
           \/ \E c \in Calls : WorkerStep(c) /\ Works(c)
           \/ \E c \in Calls : Unblock(c)
           \/ Disconnect
  <1>0. NativeTypeOK /\ kind \in [Calls -> Kinds \cup {"none"}]
    BY SerialTypes
  <1>1. ASSUME NEW c \in Calls, Application(c)
        PROVE  \/ UNCHANGED nativeVars
               \/ SyncMethods(c) /\ kind'[c] \in Made' \ Queued
               \/ \E o : QueueStep(c, o)
    <2>1. CASE \E k \in Kinds : CallSync(c, k)
      <3>1. PICK k \in Kinds : CallSync(c, k)
        BY <2>1
      <3>2. SyncMethods(c)
        BY <3>1 DEF CallSync, SyncMethods
      <3>3. kind'[c] = k /\ k \notin Queued \cup {"none"}
        BY <1>0, <3>1 DEF CallSync, Queued, WithParams, Plain
      <3> QED
        BY <3>2, <3>3 DEF Made
    <2>2. CASE SetAttr(c)
      BY <1>0, <2>2, QueuesMoves DEF SetAttr
    <2> QED
      BY <1>1, <2>1, <2>2 DEF Application, Push, PushBind, PushSetAttr
  <1>2. ASSUME NEW c \in Calls, Handler(c)
        PROVE  UNCHANGED nativeVars \/ HandlerStep(c)
    <2>1. CASE \E o : Reports(c, o)
      BY <1>0, <2>1, ReportsMoves
    <2>2. CASE AfterExecution(c)
      BY <1>0, <2>2, AfterExecutionMoves DEF AfterExecution
    <2>3. CASE AfterOther(c)
      BY <1>0, <2>3, AfterOtherMoves
    <2>4. \/ \E o : Reports(c, o)
          \/ AfterExecution(c) \/ AfterOther(c) \/ UNCHANGED nativeVars
      BY <1>2 DEF Handler, AfterBindOfParams, AfterUnqueued, AfterStreaming,
                  UV_AfterBind, UV_AfterPrepare, UV_AfterSetAttr,
                  UV_AfterExecuteForStreaming, UV_AfterParamData,
                  UV_AfterPutData, StreamData, StreamEnd, StreamError
    <2> QED
      BY <2>1, <2>2, <2>3, <2>4
  <1>3. CASE BindTurn \/ QueueEmpty \/ Turn \/ GoOn \/ CallbackReturns
    <2>0. /\ binds # <<>> => Head(binds) \in Calls
          /\ fifo # <<>> => Head(fifo) \in Calls
          /\ then # Nobody => then \in Calls
      BY SerialTypes DEF Someone
    <2>1. \/ UNCHANGED nativeVars
          \/ \E c \in Calls : Bind(c)
          \/ \E c \in Calls : Starts(c, stage[c])
          \/ \E c \in Calls : Execute(c) \/ ExecuteNonQuery(c)
      BY <1>3, <2>0 DEF BindTurn, QueueEmpty, Turn, GoOn, CallbackReturns
    <2> QED
      BY <1>0, <2>1, QueuesMoves, StartsMoves DEF Execute, ExecuteNonQuery
  <1>4. ASSUME NEW c \in Calls, Works(c) PROVE WorkerStep(c)
    BY <1>0, <1>4, WorkerMoves DEF Works
  <1>5. CASE HandlerEnds
    BY <1>0, <1>5, LateMoves DEF HandlerEnds
  <1> QED
    BY <1>1, <1>2, <1>3, <1>4, <1>5 DEF Next, Thread, vars

LEMMA NextHandles ==
    ASSUME TypeOK, [Next]_vars
    PROVE  HandleStep /\ StuckStep
  <1>0. NativeTypeOK
    BY SerialTypes
  <1>1. CASE UNCHANGED nativeVars
    BY <1>1 DEF nativeVars, HandleStep, StuckStep, Stuck
  <1>2. ASSUME NEW c \in Calls, NEW o, QueueStep(c, o) PROVE HandleStep /\ StuckStep
    BY <1>2, StuckFrame DEF QueueStep, HandleStep, NoWork
  <1>3. ASSUME NEW c \in Calls, HandlerStep(c) PROVE HandleStep /\ StuckStep
    BY <1>3, StuckFrame DEF HandlerStep, HandleStep, NoWork
  <1>8. ASSUME LateStep PROVE HandleStep /\ StuckStep
    BY <1>8 DEF LateStep, HandleStep, StuckStep, Stuck
  <1>4. ASSUME NEW c \in Calls, SyncMethods(c) PROVE HandleStep /\ StuckStep
    <2>1. SyncStep(c)
      BY <1>0, <1>4, SyncMoves
    <2>2. HandleStep
      BY <2>1 DEF SyncStep, HandleStep
    <2>3. CASE work' = work
      BY <2>2, <2>3 DEF StuckStep, Stuck
    <2>4. CASE work' # work
      BY <2>1, <2>2, <2>4, StuckFrame DEF SyncStep
    <2> QED
      BY <2>3, <2>4
  <1>5. ASSUME NEW c \in Calls, WorkerStep(c) PROVE HandleStep /\ StuckStep
    BY <1>5, StuckFrame DEF WorkerStep
  <1>6. ASSUME NEW c \in Calls, Unblock(c) PROVE HandleStep /\ StuckStep
    BY <1>0, <1>6, UnblockMoves, StuckFrame DEF NoWork
  <1>7. CASE Disconnect
    <2>1. cli'.alive = FALSE /\ stmt' = stmt /\ work' = work
      BY <1>0, <1>7, DisconnectMoves
    <2> QED
      BY <2>1 DEF HandleStep, StuckStep, Stuck
  <1> QED
    BY <1>1, <1>2, <1>3, <1>4, <1>5, <1>6, <1>7, <1>8, Steps

(* A handle once closed stays closed, so fetching the rows of a catalog     *)
(* call can keep the JavaScript thread for ever only on a closed one.       *)
THEOREM EndlessCorrect == Spec => []EndlessOnlyWhenClosed
  <1>1. Init => EndlessOnlyWhenClosed
    BY DEF Init, NativeInit, NoWork, EndlessOnlyWhenClosed, Stuck
  <1>2. TypeOK /\ EndlessOnlyWhenClosed /\ [Next]_vars => EndlessOnlyWhenClosed'
    BY NextHandles, HandleKept DEF StuckStep, EndlessOnlyWhenClosed
  <1> QED
    BY <1>1, <1>2, TypeCorrect, PTL DEF Spec

(* Free() releases the driver's handle whenever the driver lets it, whatever *)
(* runs beside it; only a statement that waits for data keeps one.           *)
THEOREM DroppedCorrect == Spec => []DroppedIsFreed
  <1>1. Init => DroppedIsFreed
    BY DEF Init, NativeInit, DroppedIsFreed
  <1>2. TypeOK /\ DroppedIsFreed /\ [Next]_vars => DroppedIsFreed'
    BY NextHandles, HandleKept
  <1> QED
    BY <1>1, <1>2, TypeCorrect, PTL DEF Spec

-----------------------------------------------------------------------------
(* Calls are made and answered, never unmade. *)

LEMMA MadeGrows ==
    ASSUME TypeOK, [Next]_vars
    PROVE  /\ Made \subseteq Made'
           /\ \A c \in Calls : kind[c] # "none" => kind'[c] = kind[c]
  <1>0. kind \in [Calls -> Kinds \cup {"none"}]
    BY SerialTypes
  <1>1. kind' = kind \/ \E c \in Calls : \E k :
             kind[c] = "none" /\ kind' = [kind EXCEPT ![c] = k]
    BY DEF Next, Application, Works, Thread, Handler, Push, CallSync, PushBind,
           PushSetAttr, MayMake, BindTurn, QueueEmpty, Turn, GoOn,
           AfterBindOfParams, AfterExecution, AfterOther, AfterUnqueued,
           AfterStreaming, StreamData, StreamEnd, StreamError, Ends, CallsBack,
           CallbackReturns, HandlerEnds, queueVars, vars
  <1>2. \A c \in Calls : kind[c] # "none" => kind'[c] = kind[c]
    BY <1>0, <1>1
  <1> QED
    BY <1>2 DEF Made

LEMMA AnswersGrow ==
    ASSUME TypeOK, [Next]_vars
    PROVE  \A c \in Calls : answered[c] > 0 => answered'[c] > 0
  <1>0. answered \in [Calls -> Nat]
    BY Types DEF QueueTypeOK
  <1>1. answered' = answered \/ \E c : \E n \in {0, 1} :
             answered' = [answered EXCEPT ![c] = @ + n]
    BY DEF Next, Application, Works, Thread, Handler, Push, CallSync, PushBind,
           PushSetAttr, BindTurn, QueueEmpty, Turn, GoOn, AfterBindOfParams,
           AfterExecution, AfterOther, AfterUnqueued, AfterStreaming,
           StreamData, StreamEnd, StreamError, Ends, CallsBack,
           CallbackReturns, HandlerEnds, queueVars, vars, Answer, ParseParams,
           Again, Done, GivesUp, Reads
  <1> QED
    BY <1>0, <1>1

(* A handler that still has to close the cursor has answered its call.      *)
LateOK ==
    \A c \in Calls : stmt.late = c => kind[c] \in ClosesLate /\ answered[c] > 0

LEMMA LateHandler ==
    ASSUME TypeOK, NEW c \in Calls, Handler(c), HandlerStep(c)
    PROVE  \/ stmt'.late = stmt.late
           \/ stmt'.late = c /\ Answer(c) /\ work[c].op \in LateOps
  <1>0. NativeTypeOK /\ stmt \in StmtRecords
    BY SerialTypes, Native
  <1>1. CASE AfterExecution(c)
    <2>1. CASE UV_AfterExecute(c)
      BY <1>0, <2>1 DEF UV_AfterExecute, StmtRecords
    <2>2. CASE UV_AfterExecuteNonQuery(c) /\ CallsBack(c)
      BY <2>2 DEF CallsBack, UV_AfterExecuteNonQuery, Delivers, HandlerStep
    <2> QED
      BY <1>1, <2>1, <2>2 DEF AfterExecution
  <1>2. CASE AfterOther(c)
    <2>1. \/ stmt'.late = c /\ CallsBack(c)
          \/ stmt'.late # c
          \/ stmt' = stmt
      <3>1. CASE js' = c /\ UNCHANGED queueVars
        <4>1. ~CallsBack(c) /\ js' # Nobody
          BY <1>2, <3>1, NobodyAssumption
             DEF AfterOther, InLoop, CallsBack, queueVars
        <4> QED
          BY <1>0, <1>2, <4>1, AfterOtherMoves
      <3> QED
        BY <1>2, <3>1 DEF AfterOther
    <2> QED
      BY <2>1 DEF HandlerStep, CallsBack
  <1>3. CASE (\E o : Reports(c, o)) \/ UNCHANGED nativeVars
    BY <1>3 DEF Reports, nativeVars
  <1> QED
    BY <1>1, <1>2, <1>3
       DEF Handler, AfterBindOfParams, AfterUnqueued, AfterStreaming,
           UV_AfterBind, UV_AfterPrepare, UV_AfterSetAttr,
           UV_AfterExecuteForStreaming, UV_AfterParamData, UV_AfterPutData,
           StreamData, StreamEnd, StreamError

LEMMA LateStays ==
    ASSUME TypeOK, SerialInv, LateOK, [Next]_vars
    PROVE  LateOK'
  <1>0. NativeTypeOK /\ Nobody \notin Calls /\ answered \in [Calls -> Nat]
    BY SerialTypes DEF QueueTypeOK
  <1>1. ASSUME stmt'.late \in {stmt.late, Nobody} PROVE LateOK'
    BY <1>0, <1>1, MadeGrows, AnswersGrow DEF LateOK, ClosesLate
  <1>2. ASSUME NEW c \in Calls, HandlerStep(c), Handler(c) PROVE LateOK'
    <2>1. CASE stmt'.late = c /\ Answer(c) /\ work[c].op \in LateOps
      <3>1. kind[c] \in ClosesLate /\ kind'[c] = kind[c]
        BY <2>1, MadeGrows DEF SerialInv, CallOK, ClosesLate
      <3>2. answered'[c] > 0
        BY <1>0, <2>1 DEF Answer
      <3> QED
        BY <2>1, <3>1, <3>2 DEF LateOK
    <2> QED
      BY <1>1, <1>2, <2>1, LateHandler
  <1>3. ASSUME NEW c \in Calls, SyncMethods(c) PROVE LateOK'
    BY <1>0, <1>1, <1>3, SyncMoves DEF SyncStep
  <1>4. ASSUME NEW c \in Calls, NEW o, QueueStep(c, o) PROVE LateOK'
    BY <1>1, <1>4 DEF QueueStep
  <1>5. ASSUME NEW c \in Calls, WorkerStep(c) PROVE LateOK'
    BY <1>1, <1>5 DEF WorkerStep
  <1>6. ASSUME NEW c \in Calls, Unblock(c) PROVE LateOK'
    BY <1>0, <1>1, <1>6, UnblockMoves
  <1>7. CASE LateStep
    BY <1>1, <1>7 DEF LateStep
  <1>8. CASE UNCHANGED stmt
    BY <1>1, <1>8
  <1> QED
    BY <1>2, <1>3, <1>4, <1>5, <1>6, <1>7, <1>8, Steps
       DEF nativeVars, Disconnect

(* Until their callbacks, calls of queue have the driver one at a time,     *)
(* however many are made and whatever the application calls beside queue    *)
(* and in its callbacks; what may follow a callback is one SQLFreeStmt, of  *)
(* a call that has been answered.                                           *)
THEOREM QueueSerialCorrect == Spec => []QueueSerial
  <1>1. Init => LateOK
    BY NobodyAssumption DEF Init, NativeInit, LateOK
  <1>2. TypeOK /\ SerialInv /\ LateOK => QueueSerial
    BY DEF SerialInv, OneAtATime, Busy, Serial, QueueSerial, LateOK
  <1> QED
    BY <1>1, <1>2, LateStays, SerialAlways, PTL DEF Spec

-----------------------------------------------------------------------------
(* Errors. *)

(* The driver's records are those of the call whose error is on its way, if *)
(* no handler has closed its cursor in the meantime.                        *)
DiagOf(c) ==
    work[c].phase = "done" /\ work[c].ret = "error" /\ Valid
        => /\ cli.diag \in {c, Nobody}
           /\ Made \cap ClosesLate = {} => cli.diag = c

OwnErrors ==
    Made \subseteq Queued \ {"prepare"} =>
        /\ "foreignError" \notin faults
        /\ Made \cap ClosesLate = {} => "wipedError" \notin faults
        /\ \A c \in Calls : DiagOf(c)

LEMMA ErrorsStep ==
    ASSUME TypeOK, SerialInv, LateOK, OwnErrors, [Next]_vars
    PROVE  OwnErrors'
  <1> DEFINE NoNewFault ==
               /\ "foreignError" \notin faults'
               /\ Made' \cap ClosesLate = {} => "wipedError" \notin faults'
             Wanted == NoNewFault /\ \A c \in Calls : DiagOf(c)'
  <1> SUFFICES ASSUME Made' \subseteq Queued \ {"prepare"} PROVE Wanted
    BY DEF OwnErrors, Queued
  <1>0. NativeTypeOK /\ kind \in [Calls -> Kinds \cup {"none"}]
    BY SerialTypes
  <1>m. Made \subseteq Made'
    BY MadeGrows
  <1>1. /\ "foreignError" \notin faults
        /\ Made' \cap ClosesLate = {} => "wipedError" \notin faults
        /\ \A c \in Calls : DiagOf(c)
    BY <1>m DEF OwnErrors
  <1>2. \A c, d \in Calls : ~Idle(c) /\ ~Idle(d) => c = d
    <2>1. \A c \in Calls : ~Idle(c) => Busy(c)
      BY MadeGrows DEF SerialInv, CallOK, Busy, Serial, Made
    <2> QED
      BY <2>1 DEF SerialInv, OneAtATime
  <1>3. Valid' => Valid
    BY NextHandles, HandleKept
  <1>4. /\ {"foreignError", "wipedError"} \cap (ReadFaults \cup FreeFaults) = {}
        /\ \A c \in Calls :
              {"foreignError", "wipedError"} \cap OutputFaults(c) = {}
    BY DEF ReadFaults, FreeFaults, OutputFaults
  <1>f. ASSUME faults' \subseteq faults \cup ReadFaults \cup FreeFaults
        PROVE  NoNewFault
    BY <1>1, <1>4, <1>f
  <1>5. CASE UNCHANGED nativeVars
    <2>1. \A c \in Calls : DiagOf(c)'
      BY <1>m, <1>1, <1>5 DEF nativeVars, DiagOf, Valid
    <2> QED
      BY <1>1, <1>5, <2>1 DEF nativeVars
  <1>6. ASSUME NEW c \in Calls, NEW o, QueueStep(c, o) PROVE Wanted
    <2>1. \A d \in Calls : DiagOf(d)'
      BY <1>m, <1>1, <1>3, <1>6 DEF QueueStep, Alone, NoWork, DiagOf
    <2> QED
      BY <1>f, <1>6, <2>1 DEF QueueStep
  <1>7. ASSUME NEW c \in Calls, HandlerStep(c) PROVE Wanted
    <2>1. /\ "foreignError" \notin ErrorRead(c)
          /\ Made' \cap ClosesLate = {} => "wipedError" \notin ErrorRead(c)
      BY <1>m, <1>1, <1>7 DEF HandlerStep, ErrorRead, DiagOf
    <2>2. \A d \in Calls : work'[d].phase # "done"
      BY <1>2, <1>7 DEF HandlerStep, Alone, Idle, NoWork
    <2>3. NoNewFault
      BY <1>1, <1>4, <1>7, <2>1 DEF HandlerStep
    <2> QED
      BY <2>2, <2>3 DEF DiagOf
  <1>8. ASSUME NEW c \in Calls, WorkerStep(c) PROVE Wanted
    <2>1. NoNewFault
      BY <1>f, <1>8 DEF WorkerStep
    <2>2. \A d \in Calls : work'[d].phase = "done" => d = c
      BY <1>2, <1>8 DEF WorkerStep, Alone, Idle
    <2> QED
      BY <1>3, <1>8, <2>1, <2>2 DEF WorkerStep, DiagOf
  <1>9. ASSUME NEW c \in Calls, Unblock(c) PROVE Wanted
    <2>1. /\ Alone(c) /\ work'[c] = NoWork /\ work[c].phase = "blocked"
          /\ faults' = faults
      BY <1>0, <1>9, UnblockMoves
    <2>2. \A d \in Calls : work'[d].phase # "done"
      BY <1>2, <2>1 DEF Alone, Idle, NoWork
    <2> QED
      BY <1>1, <2>1, <2>2 DEF DiagOf
  <1>10. CASE Disconnect
    <2>1. cli'.alive = FALSE /\ UNCHANGED <<stmt, shape, work, js, faults>>
      BY <1>0, <1>10, DisconnectMoves
    <2> QED
      BY <1>1, <2>1 DEF Valid, DiagOf
  <1>11. ASSUME NEW c \in Calls, kind'[c] \in Made' \ Queued PROVE FALSE
    BY <1>11
  <1>12. CASE LateStep /\ UNCHANGED queueVars
    <2>1. Made' = Made
      BY <1>12 DEF queueVars, Made
    <2>2. Made \cap ClosesLate # {}
      <3>1. PICK c \in Calls : stmt.late = c
        BY <1>0, <1>12, Native DEF LateStep, StmtRecords, Someone
      <3> QED
        BY <3>1 DEF LateOK, Made, ClosesLate
    <2>3. \A c \in Calls : DiagOf(c)'
      BY <1>1, <1>3, <1>12, <2>1, <2>2 DEF LateStep, DiagOf
    <2> QED
      BY <1>1, <1>12, <2>3 DEF LateStep
  <1> QED
    BY <1>5, <1>6, <1>7, <1>8, <1>9, <1>10, <1>11, <1>12, Steps

(* An application that only makes calls of queue, prepare excepted, never   *)
(* gets from GetSQLError the error of another call; it gets its own if no   *)
(* call can close its cursor after its callback.                            *)
THEOREM ErrorsCorrect == Spec => []ErrorsAreOwn
  <1>1. Init => OwnErrors /\ LateOK
    BY NobodyAssumption
       DEF Init, NativeInit, NoWork, OwnErrors, DiagOf, LateOK
  <1>2. OwnErrors => ErrorsAreOwn
    BY DEF OwnErrors, ErrorsAreOwn
  <1> QED
    BY <1>1, <1>2, ErrorsStep, LateStays, SerialAlways, PTL DEF Spec

-----------------------------------------------------------------------------
(* Parameters: what a call's fields tell about the array it uses.           *)

Executions == WithParams \cup {"execute", "nonQuery"}

Streaming == {"streaming", "paramData", "reading", "putData", "lastParamData",
              "lastPutData"}

CallUses(c) ==
    /\ Idle(c) => work[c] = NoWork
    /\ then = c => Idle(c) /\ (stage[c] = "callback" \/ kind[c] \in WithParams)
    /\ stage[c] \in {"execute", "nonQuery"} => kind[c] \in Executions
    /\ stage[c] \in Streaming => kind[c] = "stream"
    /\ work[c].op \in {"execute", "nonQuery"} => kind[c] \in Executions
    /\ work[c].op \in {"bindSync", "closeSync"} => kind[c] = work[c].op
    /\ work[c].op = "streaming" => kind[c] = "stream"
    /\ work[c].phase = "running" =>
          work[c].op \in {"bind", "execute", "nonQuery", "direct", "streaming"}
    /\ work[c].op = "direct" => work[c].read = Nobody

(* A call with parameters waits in queue once, before its array is bound.   *)
WaitsOK(c) ==
    \A i \in DOMAIN fifo : fifo[i] = c =>
        /\ kind[c] # "none"
        /\ kind[c] \in WithParams =>
              /\ stage[c] = "bind" /\ ~Busy(c)
              /\ \A j \in DOMAIN fifo : fifo[j] = c => j = i

UsesInv == \A c \in Calls : WaitsOK(c) /\ CallUses(c)

LEMMA WaitsFrame ==
    ASSUME NEW d \in Calls, WaitsOK(d), fifo' = fifo,
           kind[d] # "none" => kind'[d] = kind[d],
           kind[d] \in WithParams => stage'[d] = stage[d] \/ Busy(d),
           Busy(d)' /\ kind[d] \in WithParams => Busy(d)
    PROVE  WaitsOK(d)'
  BY DEF WaitsOK

(* A call is added that is new, or has no parameters of its own.            *)
LEMMA WaitsAppend ==
    ASSUME TypeOK, NEW c \in Calls, NEW d \in Calls, WaitsOK(d),
           fifo' = Append(fifo, c),
           d # c => kind'[d] = kind[d] /\ stage'[d] = stage[d],
           Busy(d)' => Busy(d),
           kind'[c] # "none",
           \/ kind'[c] \notin WithParams
           \/ /\ kind[c] = "none"
              /\ kind'[c] \in WithParams => stage'[c] = "bind" /\ ~Busy(c)'
    PROVE  WaitsOK(d)'
  <1>1. fifo \in Seq(Calls)
    BY SerialTypes
  <1>2. \A i \in DOMAIN fifo : fifo[i] \in Calls /\ fifo'[i] = fifo[i]
    BY <1>1
  <1>3. /\ DOMAIN fifo' = DOMAIN fifo \cup {Len(fifo) + 1}
        /\ fifo'[Len(fifo) + 1] = c
    BY <1>1
  <1>4. CASE d = c
    BY <1>2, <1>3, <1>4 DEF WaitsOK
  <1>5. CASE d # c
    <2>1. \A i \in DOMAIN fifo' : fifo'[i] = d => i \in DOMAIN fifo /\ fifo[i] = d
      BY <1>2, <1>3, <1>5
    <2> QED
      BY <1>5, <2>1 DEF WaitsOK
  <1> QED
    BY <1>4, <1>5

LEMMA WaitsTail ==
    ASSUME TypeOK, NEW d \in Calls, WaitsOK(d), fifo # <<>>,
           fifo' = Tail(fifo), UNCHANGED <<kind, stage>>,
           Busy(d)' => Busy(d) \/ d = Head(fifo)
    PROVE  WaitsOK(d)'
  <1>1. fifo \in Seq(Calls)
    BY SerialTypes
  <1>2. \A i \in DOMAIN fifo' : i + 1 \in DOMAIN fifo /\ fifo'[i] = fifo[i + 1]
    BY <1>1
  <1>3. 1 \in DOMAIN fifo /\ Head(fifo) = fifo[1]
    BY <1>1
  <1>4. \A i \in DOMAIN fifo' : i \in Nat \ {0}
    BY <1>1
  <1>5. ASSUME NEW i \in DOMAIN fifo', fifo'[i] = d
        PROVE  /\ kind'[d] # "none"
               /\ kind'[d] \in WithParams =>
                     /\ stage'[d] = "bind" /\ ~Busy(d)'
                     /\ \A j \in DOMAIN fifo' : fifo'[j] = d => j = i
    <2>1. kind[d] # "none" /\ (kind[d] \in WithParams => stage[d] = "bind" /\ ~Busy(d))
      BY <1>2, <1>5 DEF WaitsOK
    <2>2. kind[d] \in WithParams => d # Head(fifo)
      <3>1. i + 1 # 1
        BY <1>4
      <3> QED
        BY <1>2, <1>3, <1>5, <3>1 DEF WaitsOK
    <2>3. ASSUME kind[d] \in WithParams, NEW j \in DOMAIN fifo', fifo'[j] = d
          PROVE  j = i
      <3>1. j + 1 = i + 1
        BY <1>2, <1>5, <2>3 DEF WaitsOK
      <3> QED
        BY <1>4, <3>1
    <2> QED
      BY <2>1, <2>2, <2>3
  <1> QED
    BY <1>5 DEF WaitsOK

(* Nothing changes for a call but, perhaps, the end of its work. *)
LEMMA UsesFrame ==
    ASSUME NEW d \in Calls, CallUses(d), kind[d] # "none" => kind'[d] = kind[d],
           stage'[d] = stage[d], then' = then \/ then' # d,
           work'[d] = work[d] \/ work'[d] = NoWork,
           kind[d] = "none" => kind'[d] = kind[d] \/ (Idle(d) /\ then' # d)
    PROVE  CallUses(d)'
  <1>1. CASE kind'[d] = kind[d]
    <2>1. CASE work'[d] = work[d]
      BY <1>1, <2>1 DEF CallUses, Idle
    <2>2. CASE work'[d] = NoWork
      BY <1>1, <2>2 DEF CallUses, Idle, NoWork
    <2> QED
      BY <2>1, <2>2
  <1>2. CASE kind'[d] # kind[d]
    <2>1. Idle(d) /\ then' # d /\ work'[d] = NoWork /\ kind[d] = "none"
      BY <1>2 DEF CallUses
    <2>2. stage[d] \notin {"execute", "nonQuery"} \cup Streaming
      BY <2>1 DEF CallUses, Executions, WithParams
    <2> QED
      BY <2>1, <2>2 DEF CallUses, Idle, NoWork
  <1> QED
    BY <1>1, <1>2

LEMMA PushUses ==
    ASSUME TypeOK, SerialInv, UsesInv, NEW c \in Calls, NEW k \in Kinds, Push(c, k)
    PROVE  UsesInv'
  <1>0. kind \in [Calls -> Kinds \cup {"none"}] /\ stage \in [Calls -> Stages]
    BY SerialTypes
  <1>1. kind[c] = "none" /\ k \in Queued /\ Idle(c) /\ then # c /\ k # "none"
    BY DEF Push, MayMake, SerialInv, CallOK, Queued, WithParams, Plain
  <1>2. /\ kind' = [kind EXCEPT ![c] = k]
        /\ stage' = [stage EXCEPT ![c] = FirstStage(k)]
        /\ fifo' = Append(fifo, c) /\ UNCHANGED <<then, work>>
    BY DEF Push, nativeVars
  <1>3. /\ kind'[c] = k /\ stage'[c] = FirstStage(k)
        /\ \A d \in Calls : d # c => kind'[d] = kind[d] /\ stage'[d] = stage[d]
    BY <1>0, <1>2
  <1>4. \A d \in Calls : Busy(d)' => Busy(d) /\ d # c
    BY <1>1, <1>2, <1>3 DEF Busy, Serial, Idle
  <1>5. /\ k \in WithParams => FirstStage(k) = "bind"
        /\ FirstStage(k) \in {"execute", "nonQuery"} => k \in Executions
        /\ FirstStage(k) \in Streaming => k = "stream"
    BY <1>1 DEF FirstStage, Executions, Streaming, Queued, WithParams, Plain
  <1>6. ASSUME NEW d \in Calls PROVE WaitsOK(d)'
    BY <1>1, <1>2, <1>3, <1>4, <1>5, WaitsAppend DEF UsesInv
  <1>7. ASSUME NEW d \in Calls PROVE CallUses(d)'
    <2>1. CASE d = c
      BY <1>1, <1>2, <1>3, <1>5, <2>1 DEF UsesInv, CallUses, Idle, NoWork
    <2>2. CASE d # c
      BY <1>2, <1>3, <2>2, UsesFrame DEF UsesInv
    <2> QED
      BY <2>1, <2>2
  <1> QED
    BY <1>6, <1>7 DEF UsesInv

(* What the synchronous methods leave of the work. *)
LEMMA SyncWork ==
    ASSUME TypeOK, NEW c \in Calls, NEW k \in Kinds, CallSync(c, k)
    PROVE  \/ work' = work
           \/ /\ work'[c].phase \in {"blocked", "endless"}
              /\ \/ work'[c].op \in {"bindSync", "closeSync"} /\ k = work'[c].op
                 \/ work'[c].op \in {"primaryKeysSync", "foreignKeysSync",
                                     "proceduresSync", "procedureColumnsSync"}
  <1>0. work \in [Calls -> WorkRecords]
    BY SerialTypes
  <1>1. CASE BindSync(c) /\ k = "bindSync"
    BY <1>0, <1>1 DEF BindSync, NoWork
  <1>2. CASE k = "closeSync" /\ \E o \in Options : CloseSync(c, o)
    BY <1>0, <1>2 DEF CloseSync, NoWork
  <1>3. CASE SyncCatalog(c)
    <2>1. PICK o \in {"primaryKeysSync", "foreignKeysSync", "proceduresSync",
                      "procedureColumnsSync"} : FetchesAllSync(c, o)
      BY <1>3 DEF SyncCatalog, PrimaryKeysSync, ForeignKeysSync, ProceduresSync,
                  ProcedureColumnsSync
    <2>2. work' = work \/ work' = [work EXCEPT ![c] = [NoWork EXCEPT
                                             !.op = o, !.phase = "endless"]]
      BY <2>1 DEF FetchesAllSync
    <2> QED
      BY <1>0, <2>2 DEF NoWork
  <1>4. CASE SyncExecution(c) \/ CancelSync(c) \/ SyncOther(c)
    BY <1>4 DEF SyncExecution, ExecuteSync, ExecuteNonQuerySync,
                ExecuteForStreamingSync, CancelSync, SyncOther,
                ExecuteDirectSync, PrepareSync, SetAttrSync, SyncCalls,
                ParamDataSync, PutDataSync, SendsSync
  <1> QED
    BY <1>1, <1>2, <1>3, <1>4 DEF CallSync

LEMMA ApplicationUses ==
    ASSUME TypeOK, SerialInv, UsesInv, NEW c \in Calls, Application(c)
    PROVE  UsesInv'
  <1>0. /\ NativeTypeOK /\ kind \in [Calls -> Kinds \cup {"none"}]
        /\ work \in [Calls -> WorkRecords]
    BY SerialTypes
  <1>1. ASSUME NEW k \in Kinds, k \notin Queued \cup {"none"},
               kind[c] = "none", kind' = [kind EXCEPT ![c] = k],
               UNCHANGED <<stage, then, fifo>>, Alone(c),
               \/ work' = work
               \/ /\ work'[c].phase \in {"blocked", "endless"}
                  /\ \/ work'[c].op \in {"bindSync", "closeSync"} /\ k = work'[c].op
                     \/ work'[c].op \in {"primaryKeysSync", "foreignKeysSync",
                                         "proceduresSync", "procedureColumnsSync"}
               \/ work'[c] = [NoWork EXCEPT !.op = "setAttr", !.phase = "queued"]
        PROVE  UsesInv'
    <2>1. /\ Idle(c) /\ then # c /\ stage[c] = "none" /\ work[c] = NoWork
          /\ kind'[c] = k /\ \A d \in Calls : d # c => kind'[d] = kind[d]
      BY <1>0, <1>1 DEF SerialInv, CallOK, UsesInv, CallUses
    <2>2. k \notin WithParams
      BY <1>1 DEF Queued
    <2>3. ASSUME NEW d \in Calls PROVE WaitsOK(d)'
      <3>1. Busy(d)' => Busy(d)
        BY <1>1, <2>1 DEF Busy, Serial, Idle, Alone
      <3> QED
        BY <1>1, <2>1, <3>1, WaitsFrame DEF UsesInv
    <2>4. ASSUME NEW d \in Calls PROVE CallUses(d)'
      <3>1. CASE d = c
        <4>1. /\ then' # c /\ stage'[c] = "none"
              /\ Idle(c)' => work'[c] = NoWork
              /\ work'[c].op \in {"bindSync", "closeSync"} => k = work'[c].op
              /\ work'[c].op \notin {"execute", "nonQuery", "streaming", "direct"}
              /\ work'[c].phase # "running"
          <5>1. CASE work' = work
            BY <1>1, <2>1, <5>1 DEF Idle, NoWork
          <5>2. CASE work'[c] = [NoWork EXCEPT !.op = "setAttr", !.phase = "queued"]
            BY <1>1, <2>1, <5>2 DEF Idle, NoWork
          <5>3. CASE work' # work /\ work'[c].phase \in {"blocked", "endless"}
            BY <1>1, <2>1, <5>3 DEF Idle, NoWork
          <5> QED
            BY <1>1, <5>1, <5>2, <5>3 DEF NoWork
        <4> QED
          BY <2>1, <3>1, <4>1 DEF CallUses, Streaming
      <3>2. CASE d # c
        BY <1>1, <2>1, <3>2, UsesFrame DEF UsesInv, Alone
      <3> QED
        BY <3>1, <3>2
    <2> QED
      BY <2>3, <2>4 DEF UsesInv
  <1>2. ASSUME NEW k \in Kinds, CallSync(c, k) PROVE UsesInv'
    <2>1. SyncMethods(c) /\ k \notin Queued \cup {"none"}
      BY <1>2 DEF CallSync, SyncMethods, Queued, WithParams, Plain
    <2>2. Alone(c)
      BY <1>0, <2>1, SyncMoves DEF SyncStep
    <2>3. /\ kind[c] = "none" /\ kind' = [kind EXCEPT ![c] = k]
          /\ UNCHANGED <<stage, then, fifo>>
      BY <1>2 DEF CallSync, MayMake
    <2> QED
      BY <1>1, <1>2, <2>1, <2>2, <2>3, SyncWork
  <1>3. CASE PushBind(c)
    <2>1. /\ "bind" \in Kinds /\ "bind" \notin Queued \cup {"none"}
          /\ kind[c] = "none" /\ kind' = [kind EXCEPT ![c] = "bind"]
          /\ UNCHANGED <<stage, then, fifo, work>>
      BY <1>3 DEF PushBind, MayMake, Queued, WithParams, Plain, nativeVars
    <2> QED
      BY <1>1, <2>1 DEF Alone
  <1>4. CASE PushSetAttr(c)
    <2>1. /\ "setAttr" \in Kinds /\ "setAttr" \notin Queued \cup {"none"}
          /\ kind[c] = "none" /\ kind' = [kind EXCEPT ![c] = "setAttr"]
          /\ UNCHANGED <<stage, then, fifo>>
      BY <1>4 DEF PushSetAttr, MayMake, Queued, WithParams, Plain
    <2>2. CASE UNCHANGED nativeVars
      BY <1>1, <2>1, <2>2 DEF nativeVars, Alone
    <2>3. CASE SetAttr(c)
      <3>1. QueueStep(c, "setAttr")
        BY <1>0, <2>3, QueuesMoves DEF SetAttr
      <3> QED
        BY <1>1, <2>1, <3>1 DEF QueueStep
    <2> QED
      BY <1>4, <2>2, <2>3 DEF PushSetAttr
  <1> QED
    BY <1>2, <1>3, <1>4, PushUses DEF Application

LEMMA TurnUses ==
    ASSUME TypeOK, SerialInv, UsesInv,
           BindTurn \/ QueueEmpty \/ Turn \/ GoOn \/ CallbackReturns
    PROVE  UsesInv'
  <1>0. /\ NativeTypeOK /\ work \in [Calls -> WorkRecords]
        /\ binds \in Seq(Calls) /\ fifo \in Seq(Calls)
        /\ Nobody \notin Calls /\ then \in Someone
    BY SerialTypes
  <1>1. ASSUME UNCHANGED <<kind, stage, then, fifo, work>> PROVE UsesInv'
    <2>1. \A d \in Calls : Busy(d)' <=> Busy(d)
      BY <1>1 DEF Busy, Serial, Idle
    <2> QED
      BY <1>1, <2>1 DEF UsesInv, WaitsOK, CallUses, Idle
  <1>2. ASSUME BindTurn, binds # <<>> PROVE UsesInv'
    <2>1. PICK c \in Calls : c = Head(binds)
      BY <1>0, <1>2
    <2>2. Bind(c) /\ UNCHANGED <<kind, stage, then, fifo>>
      BY <1>2, <2>1 DEF BindTurn
    <2>3. kind[c] = "bind" /\ ~Serial(c) /\ kind[c] \notin WithParams
      BY <1>0, <1>2, <2>1 DEF SerialInv, OneAtATime, Serial, Queued, WithParams,
                              Plain
    <2>4. QueueStep(c, "bind")
      BY <1>0, <2>2, QueuesMoves
    <2>5. /\ work'[c].op = "bind" /\ work'[c].phase = "queued"
          /\ \A d \in Calls : d # c => work'[d] = work[d]
      BY <2>4 DEF QueueStep, NoWork, Alone
    <2>6. \A d \in Calls : Busy(d)' => Busy(d)
      BY <2>2, <2>3, <2>5 DEF Busy, Serial, Idle
    <2>7. ASSUME NEW d \in Calls PROVE WaitsOK(d)'
      BY <2>2, <2>6, WaitsFrame DEF UsesInv
    <2>n. then # c
      BY <2>3 DEF SerialInv, CallOK
    <2>8. ASSUME NEW d \in Calls PROVE CallUses(d)'
      BY <2>2, <2>3, <2>5, <2>n DEF UsesInv, CallUses, Idle
    <2> QED
      BY <2>7, <2>8 DEF UsesInv
  <1>3. CASE Turn
    <2>1. PICK c \in Calls : c = Head(fifo)
      BY <1>0, <1>3 DEF Turn
    <2>2. /\ Starts(c, stage[c]) /\ turn /\ fifo # <<>> /\ fifo' = Tail(fifo)
          /\ UNCHANGED <<kind, stage, then>>
      BY <1>3, <2>1 DEF Turn
    <2>3. PICK o : /\ QueueStep(c, o)
                   /\ o \in SerialOps \cup {"bind", "prepare"}
                   /\ stage[c] \notin {"lastParamData", "lastPutData"} => o = stage[c]
                   /\ stage[c] \in {"lastParamData", "lastPutData"} =>
                         o \in {"paramData", "putData"}
      BY <1>0, <2>2, StartsMoves
    <2>4. /\ work'[c].op = o /\ work'[c].phase = "queued" /\ work'[c].read = Nobody
          /\ \A d \in Calls : d # c => work'[d] = work[d]
      BY <2>3 DEF QueueStep, NoWork, Alone
    <2>5. \A d \in Calls : Busy(d)' => Busy(d) \/ d = c
      BY <2>2, <2>4 DEF Busy, Serial, Idle
    <2>6. ASSUME NEW d \in Calls PROVE WaitsOK(d)'
      BY <2>1, <2>2, <2>5, WaitsTail DEF UsesInv
    <2>7. /\ o \in {"execute", "nonQuery", "streaming"} => stage[c] = o
          /\ o \notin {"bindSync", "closeSync"}
      BY <2>3 DEF SerialOps, Options
    <2>n. then # c
      BY <2>2 DEF SerialInv, OneAtATime, CallOK, Busy
    <2>8. ASSUME NEW d \in Calls PROVE CallUses(d)'
      <3>1. CASE d = c
        BY <2>2, <2>4, <2>7, <2>n, <3>1 DEF UsesInv, CallUses, Idle, Streaming
      <3>2. CASE d # c
        BY <2>2, <2>4, <3>2, UsesFrame DEF UsesInv
      <3> QED
        BY <3>1, <3>2
    <2> QED
      BY <2>6, <2>8 DEF UsesInv
  <1>4. CASE GoOn
    <2>1. PICK c \in Calls : c = then
      BY <1>0, <1>4 DEF GoOn, Someone
    <2>2. PICK o \in {"execute", "nonQuery"} : Queues(c, o) /\ stage[c] = o
      BY <1>4, <2>1 DEF GoOn, Execute, ExecuteNonQuery
    <2>3. then' = Nobody /\ UNCHANGED <<kind, stage, fifo>>
      BY <1>4 DEF GoOn
    <2>4. QueueStep(c, o)
      BY <1>0, <2>2, QueuesMoves
    <2>5. /\ work'[c].op = o /\ work'[c].phase = "queued" /\ work'[c].read = Nobody
          /\ \A d \in Calls : d # c => work'[d] = work[d]
      BY <2>4 DEF QueueStep, NoWork, Alone
    <2>6. Serial(c)
      BY <2>2 DEF SerialInv, CallOK
    <2>7. \A d \in Calls : Busy(d)' => Busy(d)
      BY <1>0, <2>1, <2>3, <2>5, <2>6 DEF Busy, Serial, Idle
    <2>8. ASSUME NEW d \in Calls PROVE WaitsOK(d)'
      BY <2>3, <2>7, WaitsFrame DEF UsesInv
    <2>9. ASSUME NEW d \in Calls PROVE CallUses(d)'
      <3>1. CASE d = c
        BY <1>0, <2>2, <2>3, <2>5, <3>1 DEF UsesInv, CallUses, Idle
      <3>2. CASE d # c
        BY <1>0, <2>3, <2>5, <3>2, UsesFrame DEF UsesInv
      <3> QED
        BY <3>1, <3>2
    <2> QED
      BY <2>8, <2>9 DEF UsesInv
  <1>5. CASE CallbackReturns
    <2>1. then' = Nobody /\ UNCHANGED <<kind, stage, fifo, work>>
      BY <1>5 DEF CallbackReturns, nativeVars
    <2>2. \A d \in Calls : Busy(d)' => Busy(d)
      BY <1>0, <2>1 DEF Busy, Serial, Idle
    <2>3. ASSUME NEW d \in Calls PROVE WaitsOK(d)' /\ CallUses(d)'
      BY <1>0, <2>1, <2>2, WaitsFrame, UsesFrame DEF UsesInv
    <2> QED
      BY <2>3 DEF UsesInv
  <1> QED
    BY <1>1, <1>2, <1>3, <1>4, <1>5 DEF BindTurn, QueueEmpty, nativeVars

(* A handler, for the calls that wait and the arrays they use. *)
LEMMA HandlerUses ==
    ASSUME TypeOK, SerialInv, UsesInv, NEW c \in Calls, Handler(c)
    PROVE  UsesInv'
  <1>0. /\ NativeTypeOK /\ work \in [Calls -> WorkRecords]
        /\ stage \in [Calls -> Stages] /\ Nobody \notin Calls
    BY SerialTypes
  <1>1. CASE AfterBindOfParams(c)
    <2>1. /\ HandlerStep(c) /\ work'[c] = NoWork /\ work[c].op = "bind"
          /\ then = Nobody /\ kind[c] \in WithParams
      BY <1>0, <1>1, ReportsMoves DEF AfterBindOfParams, UV_AfterBind, InLoop
    <2>2. Busy(c)
      BY <2>1, BusyDone DEF HandlerStep, Serial, Queued, WithParams
    <2>3. /\ kind' = kind /\ fifo' = fifo
          /\ \/ stage' = stage /\ then' = then
             \/ /\ then' = c
                /\ \E s \in {"execute", "nonQuery"} : stage' = [stage EXCEPT ![c] = s]
      BY <1>1 DEF AfterBindOfParams, Ends
    <2>4. /\ \A d \in Calls : d # c => work'[d] = work[d] /\ stage'[d] = stage[d]
          /\ stage'[c] = stage[c] \/ stage'[c] \in {"execute", "nonQuery"}
      BY <1>0, <2>1, <2>3 DEF HandlerStep, Alone
    <2>5. \A d \in Calls : Busy(d)' => Busy(d)
      BY <1>0, <2>1, <2>2, <2>3, <2>4 DEF Busy, Serial, Idle
    <2>6. ASSUME NEW d \in Calls PROVE WaitsOK(d)'
      BY <2>2, <2>3, <2>4, <2>5, WaitsFrame DEF UsesInv
    <2>7. ASSUME NEW d \in Calls PROVE CallUses(d)'
      <3>1. CASE d = c
        BY <1>0, <2>1, <2>3, <2>4, <3>1
           DEF UsesInv, CallUses, Idle, NoWork, Executions, WithParams, Streaming
      <3>2. CASE d # c
        BY <2>3, <2>4, <3>2, UsesFrame DEF UsesInv
      <3> QED
        BY <3>1, <3>2
    <2> QED
      BY <2>6, <2>7 DEF UsesInv
  <1>2. ASSUME HandlerStep(c), work'[c] = NoWork,
               UNCHANGED <<kind, then>>,
               \/ UNCHANGED <<stage, fifo>>
               \/ /\ kind[c] = "stream"
                  /\ fifo' = fifo \/ fifo' = Append(fifo, c)
                  /\ \E s \in {"none", "paramData", "reading"} :
                        stage' = [stage EXCEPT ![c] = s]
        PROVE  UsesInv'
    <2>1. \A d \in Calls : Busy(d)' => Busy(d)
      BY <1>2, EndedWork DEF HandlerStep
    <2>2. ASSUME NEW d \in Calls PROVE WaitsOK(d)'
      <3>1. CASE UNCHANGED <<stage, fifo>>
        BY <1>2, <2>1, <3>1, WaitsFrame DEF UsesInv
      <3>2. CASE ~UNCHANGED <<stage, fifo>>
        <4>1. kind[c] = "stream" /\ "stream" \notin WithParams /\ "stream" # "none"
          BY <1>2, <3>2 DEF WithParams
        <4>2. d # c => stage'[d] = stage[d]
          BY <1>0, <1>2
        <4> QED
          BY <1>2, <2>1, <4>1, <4>2, WaitsFrame, WaitsAppend DEF UsesInv
      <3> QED
        BY <3>1, <3>2
    <2>3. ASSUME NEW d \in Calls PROVE CallUses(d)'
      <3>1. CASE stage'[d] = stage[d]
        BY <1>2, <3>1, UsesFrame DEF UsesInv, HandlerStep, Alone
      <3>2. CASE stage'[d] # stage[d]
        <4>1. d = c /\ stage'[d] \in {"none", "paramData", "reading"}
          BY <1>0, <1>2, <3>2
        <4>2. kind[c] = "stream" /\ then # c
          <5>1. kind[c] = "stream"
            BY <1>2, <3>2
          <5> QED
            BY <5>1 DEF SerialInv, UsesInv, CallOK, CallUses, ClosesLate,
                        WithParams
        <4> QED
          BY <1>2, <4>1, <4>2 DEF UsesInv, CallUses, Idle, NoWork
      <3> QED
        BY <3>1, <3>2
    <2> QED
      BY <2>2, <2>3 DEF UsesInv
  <1>8. ASSUME HandlerStep(c), work'[c] = NoWork, work[c].op \in SerialOps,
               then = Nobody, CallsBack(c)
        PROVE  UsesInv'
    <2>1. Busy(c)
      BY <1>8, BusyDone DEF HandlerStep
    <2>2. /\ UNCHANGED <<kind, fifo>> /\ then' = c
          /\ stage' = [stage EXCEPT ![c] = "callback"]
      BY <1>8 DEF CallsBack
    <2>3. /\ \A d \in Calls : d # c => work'[d] = work[d] /\ stage'[d] = stage[d]
          /\ stage'[c] = "callback"
      BY <1>0, <1>8, <2>2 DEF HandlerStep, Alone
    <2>4. \A d \in Calls : Busy(d)' => Busy(d)
      BY <2>1, <2>2, <2>3 DEF Busy, Serial, Idle
    <2>5. ASSUME NEW d \in Calls PROVE WaitsOK(d)'
      BY <2>1, <2>2, <2>3, <2>4, WaitsFrame DEF UsesInv
    <2>6. ASSUME NEW d \in Calls PROVE CallUses(d)'
      <3>1. CASE d = c
        BY <1>8, <2>2, <2>3, <3>1 DEF CallUses, Idle, NoWork, Streaming
      <3>2. CASE d # c
        BY <2>2, <2>3, <3>2, UsesFrame DEF UsesInv
      <3> QED
        BY <3>1, <3>2
    <2> QED
      BY <2>5, <2>6 DEF UsesInv
  <1>3. CASE AfterExecution(c)
    BY <1>0, <1>2, <1>3, <1>8, AfterExecutionMoves DEF AfterExecution, Ends, InLoop
  <1>4. CASE AfterOther(c)
    <2>1. /\ HandlerStep(c) /\ work[c].op \in SerialOps
          /\ \/ CallsBack(c) /\ work'[c] = NoWork
             \/ Ends(c) /\ work'[c] = NoWork
             \/ js' = c /\ UNCHANGED queueVars
      BY <1>0, <1>4, AfterOtherMoves
    <2>2. CASE Ends(c) /\ work'[c] = NoWork
      BY <1>2, <2>1, <2>2 DEF Ends
    <2>4. CASE CallsBack(c) /\ work'[c] = NoWork
      BY <1>4, <1>8, <2>1, <2>4 DEF AfterOther, InLoop
    <2>3. CASE js' = c /\ UNCHANGED queueVars
      <3>1. js = Nobody /\ then # c /\ js' # Nobody
        BY <1>0, <1>4, <2>3 DEF AfterOther, InLoop
      <3>2. work'[c].phase = "endless" /\ work'[c].op = work[c].op
        BY <2>1, <2>3, <3>1 DEF HandlerStep
      <3>3. UNCHANGED <<kind, stage, then, fifo>>
        BY <2>3 DEF queueVars
      <3>4. \A d \in Calls : d # c => work'[d] = work[d]
        BY <2>1 DEF HandlerStep, Alone
      <3>5. \A d \in Calls : Busy(d)' => Busy(d)
        BY <2>1, <3>2, <3>3, <3>4 DEF Busy, Serial, Idle, HandlerStep
      <3>6. work[c].op # "direct"
        BY <1>4, <2>3, <3>1 DEF AfterOther, UV_AfterExecuteDirect, UV_AfterCancel,
                  UV_AfterPrimaryKeys, UV_AfterForeignKeys, UV_AfterProcedures,
                  UV_AfterProcedureColumns, UV_AfterClose, FetchesAll, Reports
      <3>7. ASSUME NEW d \in Calls PROVE WaitsOK(d)'
        BY <3>3, <3>5, WaitsFrame DEF UsesInv
      <3>8. ASSUME NEW d \in Calls PROVE CallUses(d)'
        BY <3>1, <3>2, <3>3, <3>4, <3>6 DEF UsesInv, CallUses, Idle
      <3> QED
        BY <3>7, <3>8 DEF UsesInv
    <2> QED
      BY <2>1, <2>2, <2>3, <2>4
  <1>5. CASE AfterUnqueued(c)
    <2>1. PICK o : Reports(c, o)
      BY <1>5 DEF AfterUnqueued, UV_AfterPrepare, UV_AfterSetAttr, UV_AfterBind
    <2> QED
      BY <1>0, <1>2, <1>5, <2>1, ReportsMoves DEF AfterUnqueued
  <1>6. CASE AfterStreaming(c)
    <2>1. PICK o : Reports(c, o)
      BY <1>6 DEF AfterStreaming, UV_AfterExecuteForStreaming, UV_AfterParamData,
                  UV_AfterPutData
    <2>2. /\ kind[c] = "stream" /\ UNCHANGED <<kind, then>>
          /\ fifo' = fifo \/ fifo' = Append(fifo, c)
          /\ \E s \in {"none", "paramData", "reading"} :
                stage' = [stage EXCEPT ![c] = s]
      BY <1>6 DEF AfterStreaming, Again, Done, GivesUp, Reads
    <2> QED
      BY <1>0, <1>2, <2>1, <2>2, ReportsMoves
  <1>7. CASE StreamData(c) \/ StreamEnd(c) \/ StreamError(c)
    <2>1. /\ UNCHANGED <<kind, then, work>>
          /\ fifo' = fifo \/ fifo' = Append(fifo, c)
          /\ stage[c] \in {"reading", "putData"}
          /\ \E s \in {"none", "putData", "lastPutData", "lastParamData"} :
                stage' = [stage EXCEPT ![c] = s]
      BY <1>7 DEF StreamData, StreamEnd, StreamError, Again, nativeVars
    <2>2. \A d \in Calls : Busy(d)' <=> Busy(d)
      BY <2>1 DEF Busy, Serial, Idle
    <2>3. kind[c] = "stream" /\ kind[c] \notin WithParams /\ kind[c] # "none"
      BY <2>1 DEF UsesInv, CallUses, Streaming, WithParams
    <2>4. /\ \A d \in Calls : d # c => stage'[d] = stage[d]
          /\ stage'[c] \in {"none", "putData", "lastPutData", "lastParamData"}
      BY <1>0, <2>1
    <2>5. ASSUME NEW d \in Calls PROVE WaitsOK(d)'
      BY <2>1, <2>2, <2>3, <2>4, WaitsFrame, WaitsAppend DEF UsesInv
    <2>6. ASSUME NEW d \in Calls PROVE CallUses(d)'
      <3>1. CASE d = c
        BY <2>1, <2>3, <2>4, <3>1 DEF UsesInv, CallUses, Idle
      <3>2. CASE d # c
        BY <2>1, <2>4, <3>2, UsesFrame DEF UsesInv
      <3> QED
        BY <3>1, <3>2
    <2> QED
      BY <2>5, <2>6 DEF UsesInv
  <1> QED
    BY <1>1, <1>3, <1>4, <1>5, <1>6, <1>7 DEF Handler

(* What a thread of the pool remembers of the buffers it is told of. *)
LEMMA WorkerReads ==
    ASSUME NativeTypeOK, NEW c \in Calls, Worker(c)
    PROVE  \/ /\ work'[c].phase = "running" /\ work[c].op = "bind"
              /\ work'[c].read = stmt.params
           \/ /\ work'[c].phase = "running"
              /\ work[c].op \in {"execute", "nonQuery", "direct", "streaming"}
              /\ work'[c].read = IF work[c].op = "direct" THEN Nobody
                                 ELSE cli.bound
           \/ work'[c].phase # "running" /\ work'[c].read = work[c].read
  <1>0. work \in [Calls -> WorkRecords] /\ work[c] \in WorkRecords
    BY Native
  <1>1. CASE UV_BindEnters(c)
    BY <1>0, <1>1 DEF UV_BindEnters, AtWork, WorkRecords
  <1>2. CASE \E o \in {"execute", "nonQuery", "direct", "streaming"} : Enters(c, o)
    BY <1>0, <1>2 DEF Enters, AtWork, WorkRecords
  <1>3. CASE \E r : Return(c, r)
    BY <1>3, Returns
  <1>4. CASE UV_CloseFreesParams(c)
    BY <1>0, <1>4 DEF UV_CloseFreesParams, WorkRecords
  <1> QED
    BY <1>1, <1>2, <1>3, <1>4
       DEF Worker, UV_BindReturns, UV_ExecuteEnters, UV_Execute,
           UV_ExecuteNonQueryEnters, UV_ExecuteNonQuery,
           UV_ExecuteDirectEnters, UV_ExecuteDirect,
           UV_ExecuteForStreamingEnters, UV_ExecuteForStreaming,
           UV_ParamData, UV_PutData, UV_Prepare, UV_SetAttr, UV_PrimaryKeys,
           UV_ForeignKeys, UV_Procedures, UV_ProcedureColumns, UV_Close,
           UV_Cancel, Leaves, Sends, WorkerCalls, Catalog

LEMMA UsesInit == Init => UsesInv
  <1> SUFFICES ASSUME Init, NEW c \in Calls PROVE WaitsOK(c) /\ CallUses(c)
    BY DEF UsesInv
  <1>1. /\ fifo = <<>> /\ then # c /\ work[c] = NoWork
        /\ stage[c] = "none" /\ kind[c] = "none"
    BY NobodyAssumption DEF Init, NativeInit
  <1>2. WaitsOK(c)
    BY <1>1 DEF WaitsOK
  <1> QED
    BY <1>1, <1>2 DEF CallUses, NoWork, Streaming

LEMMA UsesStep == TypeOK /\ SerialInv /\ UsesInv /\ [Next]_vars => UsesInv'
  <1> SUFFICES ASSUME TypeOK, SerialInv, UsesInv, [Next]_vars PROVE UsesInv'
    OBVIOUS
  <1>0. NativeTypeOK
    BY SerialTypes
  <1>1. ASSUME UNCHANGED <<kind, stage, then, fifo>>,
               \A d \in Calls : work'[d] = work[d] \/ work'[d] = NoWork
        PROVE  UsesInv'
    <2>1. \A d \in Calls : Busy(d)' => Busy(d)
      BY <1>1 DEF Busy, Serial, Idle, NoWork
    <2>2. ASSUME NEW d \in Calls PROVE WaitsOK(d)' /\ CallUses(d)'
      BY <1>1, <2>1, WaitsFrame, UsesFrame DEF UsesInv
    <2> QED
      BY <2>2 DEF UsesInv
  <1>2. ASSUME NEW c \in Calls, Works(c) PROVE UsesInv'
    <2>1. WorkerStep(c) /\ UNCHANGED <<kind, stage, then, fifo>>
      BY <1>0, <1>2, WorkerMoves DEF Works, queueVars
    <2>2. \A d \in Calls : Busy(d)' => Busy(d)
      BY <2>1 DEF Busy, Serial, Idle, WorkerStep, Alone
    <2>3. ASSUME NEW d \in Calls PROVE WaitsOK(d)'
      BY <2>1, <2>2, WaitsFrame DEF UsesInv
    <2>4. ASSUME NEW d \in Calls PROVE CallUses(d)'
      <3>1. CASE d = c
        <4>1. /\ work'[c].phase = "running" =>
                    work[c].op \in {"bind", "execute", "nonQuery", "direct",
                                    "streaming"}
              /\ work[c].op = "direct" => work'[c].read = Nobody
          BY <1>0, <1>2, WorkerReads DEF Works, UsesInv, CallUses
        <4> QED
          BY <2>1, <3>1, <4>1 DEF UsesInv, CallUses, WorkerStep, Idle
      <3>2. CASE d # c
        BY <2>1, <3>2, UsesFrame DEF UsesInv, WorkerStep, Alone
      <3> QED
        BY <3>1, <3>2
    <2> QED
      BY <2>3, <2>4 DEF UsesInv
  <1>3. CASE Thread
    <2>1. ASSUME NEW c \in Calls, Unblock(c), UNCHANGED queueVars PROVE UsesInv'
      BY <1>0, <1>1, <2>1, UnblockMoves DEF Alone, queueVars
    <2>2. ASSUME HandlerEnds PROVE UsesInv'
      BY <1>1, <2>2 DEF HandlerEnds, LateFreeStmt, queueVars
    <2> QED
      BY <1>3, <2>1, <2>2, TurnUses, HandlerUses DEF Thread
  <1>4. CASE (Disconnect /\ UNCHANGED queueVars) \/ UNCHANGED vars
    BY <1>0, <1>1, <1>4, DisconnectMoves DEF queueVars, vars, nativeVars
  <1> QED
    BY <1>2, <1>3, <1>4, ApplicationUses DEF Next

-----------------------------------------------------------------------------
(* Parameters: the array of the call that queue has at the driver.          *)

BufferFaults == {"freedRead", "freedInUse", "foreignOutputs"}

Runs == {"execute", "nonQuery"}

BoundTo(c) == stmt.params = c /\ (Valid => cli.bound = c)

(* From the bind that made it to the end of its execution, a call's array   *)
(* is the object's and the one the driver was told of.                      *)
ArrayOK(c) ==
    /\ work[c].op = "bind" => stmt.params = c
    /\ work[c].op = "bind" /\ work[c].phase = "running" => work[c].read = c
    /\ work[c].op = "bind" /\ work[c].phase = "done" /\ work[c].ret # "error"
          => BoundTo(c)
    /\ (then = c /\ stage[c] # "callback") \/ work[c].op \in Runs => BoundTo(c)
    /\ work[c].op \in Runs /\ work[c].phase = "running" /\ Valid
          => work[c].read = c
    /\ work[c].op \in Runs /\ work[c].phase = "done" /\ work[c].ret \in Succeeds
          => work[c].read = c

OwnUse == Made \subseteq OwnParameters

BuffersOK ==
    /\ faults \cap BufferFaults = {}
    /\ \A c \in Calls : ArrayOK(c)

(* What such an application's calls can be doing. *)
LEMMA OwnCalls ==
    ASSUME TypeOK, SerialInv, UsesInv, OwnUse
    PROVE  /\ binds = <<>>
           /\ \A c \in Calls :
                 /\ kind[c] \in OwnParameters \cup {"none"}
                 /\ work[c].op \in Runs \cup {"bind"}
                       => kind[c] \in WithParams /\ Busy(c)
                 /\ then = c => Busy(c)
                 /\ stage[c] \in Runs => kind[c] \in WithParams
                 /\ stage[c] \notin Streaming
                 /\ work[c].op \notin {"bindSync", "closeSync", "streaming"}
                 /\ work[c].phase = "running" =>
                       work[c].op \in Runs \cup {"bind"} \/ work[c].read = Nobody
  <1>1. \A c \in Calls : kind[c] \in OwnParameters \cup {"none"}
    BY DEF OwnUse, Made
  <1>2. {"bind", "bindSync", "closeSync", "stream", "execute", "nonQuery"}
           \cap (OwnParameters \cup {"none"}) = {}
    BY DEF OwnParameters, WithParams
  <1>3. binds = <<>>
    <2>1. binds \in Seq(Calls)
      BY SerialTypes
    <2>2. \A i \in DOMAIN binds : binds[i] \in Calls /\ kind[binds[i]] = "bind"
      BY <2>1 DEF SerialInv, OneAtATime
    <2>3. DOMAIN binds = {}
      BY <1>1, <1>2, <2>2
    <2> QED
      BY <2>1, <2>3
  <1>4. ASSUME NEW c \in Calls
        PROVE  /\ work[c].op \in Runs \cup {"bind"}
                     => kind[c] \in WithParams /\ Busy(c)
               /\ then = c => Busy(c)
               /\ stage[c] \in Runs => kind[c] \in WithParams
               /\ stage[c] \notin Streaming
               /\ work[c].op \notin {"bindSync", "closeSync", "streaming"}
    <2>1. kind[c] \notin {"bind", "bindSync", "closeSync", "stream", "execute",
                          "nonQuery"}
      BY <1>1, <1>2
    <2>2. kind[c] \in WithParams => Serial(c)
      BY DEF Serial, Queued, WithParams
    <2>3. CallUses(c) /\ CallOK(c)
      BY DEF SerialInv, UsesInv
    <2>4. work[c].op \in Runs \cup {"bind"} => kind[c] \in WithParams /\ ~Idle(c)
      BY <2>1, <2>3 DEF CallUses, CallOK, Executions, Runs, NoWork
    <2>5. /\ then = c => Serial(c)
          /\ stage[c] \in Runs => kind[c] \in WithParams
          /\ stage[c] \notin Streaming
          /\ work[c].op \notin {"bindSync", "closeSync", "streaming"}
      BY <2>1, <2>3 DEF CallUses, CallOK, Executions, Runs
    <2> QED
      BY <2>2, <2>4, <2>5 DEF Busy
  <1>5. \A c \in Calls : work[c].phase = "running" =>
            work[c].op \in Runs \cup {"bind"} \/ work[c].read = Nobody
    BY <1>4 DEF UsesInv, CallUses, Runs
  <1> QED
    BY <1>1, <1>3, <1>4, <1>5

(* No thread of the pool is in the driver with an array that is freed. *)
LEMMA NoneFreedInUse ==
    ASSUME TypeOK, SerialInv, UsesInv, OwnUse,
           \A d \in Calls : Busy(d) => work[d].phase # "running"
    PROVE  FreeFaults = {}
  <1>1. \A d \in Running : work[d].read = Nobody
    BY OwnCalls DEF Running
  <1> QED
    BY <1>1 DEF FreeFaults

(* A call that has no array. *)
LEMMA ArrayFree ==
    ASSUME NEW d \in Calls, work'[d].op \notin Runs \cup {"bind"}, then' # d
    PROVE  ArrayOK(d)'
  BY DEF ArrayOK, Runs

(* Nothing that a call's array depends on changes. *)
LEMMA ArrayKept ==
    ASSUME NEW d \in Calls, ArrayOK(d), work'[d] = work[d],
           then' = d => then = d /\ stage'[d] = stage[d],
           stmt'.params = stmt.params, Valid' => Valid /\ cli'.bound = cli.bound
    PROVE  ArrayOK(d)'
  BY DEF ArrayOK, BoundTo

(* All others are idle when one call is busy. *)
LEMMA OthersFree ==
    ASSUME TypeOK, SerialInv, UsesInv, OwnUse, NEW c \in Calls, Busy(c), Alone(c),
           then' \in {then, c, Nobody}
    PROVE  \A d \in Calls : d # c => ArrayOK(d)'
  <1>1. \A d \in Calls : d # c => ~Busy(d)
    BY DEF SerialInv, OneAtATime
  <1>2. \A d \in Calls : d # c => work'[d].op \notin Runs \cup {"bind"} /\ then' # d
    BY <1>1, OwnCalls, NobodyAssumption DEF Alone
  <1> QED
    BY <1>2, ArrayFree

LEMMA OwnApplication ==
    ASSUME TypeOK, SerialInv, UsesInv, OwnUse', OwnUse, BuffersOK,
           NEW c \in Calls, Application(c), Valid' => Valid
    PROVE  BuffersOK'
  <1>0. /\ NativeTypeOK /\ kind \in [Calls -> Kinds \cup {"none"}]
        /\ work \in [Calls -> WorkRecords] /\ Nobody \in Someone
    BY SerialTypes DEF Someone
  <1>s. \A d \in Calls : then = d => stage'[d] = stage[d]
    <2>1. stage \in [Calls -> Stages]
      BY SerialTypes
    <2>2. \/ stage' = stage
          \/ kind[c] = "none" /\ \E s : stage' = [stage EXCEPT ![c] = s]
      BY DEF Application, Push, CallSync, PushBind, PushSetAttr, MayMake
    <2> QED
      BY <2>1, <2>2 DEF SerialInv, CallOK
  <1>1. ASSUME UNCHANGED nativeVars, then' = then PROVE BuffersOK'
    BY <1>s, <1>1, ArrayKept DEF nativeVars, BuffersOK
  <1>2. ASSUME kind[c] = "none", Alone(c), then' = then, UNCHANGED <<stmt, faults>>,
               cli'.bound = cli.bound,
               work' = work \/ work'[c].op \notin Runs \cup {"bind"}
        PROVE  BuffersOK'
    <2>1. \A d \in Calls : d # c => ArrayOK(d)'
      BY <1>s, <1>2, ArrayKept DEF BuffersOK, Alone
    <2>2. ArrayOK(c)'
      <3>1. then # c
        BY <1>2 DEF SerialInv, CallOK
      <3> QED
        BY <1>2, <3>1, ArrayKept, ArrayFree DEF BuffersOK
    <2> QED
      BY <1>2, <2>1, <2>2 DEF BuffersOK
  <1>3. ASSUME NEW k \in Kinds, CallSync(c, k) PROVE BuffersOK'
    <2>1. kind[c] = "none" /\ then' = then /\ kind'[c] = k
      BY <1>0, <1>3 DEF CallSync, MayMake
    <2>2. k \in OwnParameters
      <3>1. k # "none"
        BY <1>3 DEF CallSync
      <3> QED
        BY <2>1, <3>1 DEF OwnUse, Made
    <2>3. CancelSync(c) \/ SyncCatalog(c) \/ SyncOther(c)
      BY <1>3, <2>2 DEF CallSync, OwnParameters, WithParams
    <2>4. Alone(c)
      BY <1>0, <2>3, SyncMoves DEF SyncMethods, SyncStep
    <2>5. work' = work \/ work'[c].op \notin Runs \cup {"bind"}
      BY <1>3, SyncWork DEF Runs
    <2>6. UNCHANGED <<stmt, faults>> /\ cli'.bound = cli.bound
      <3>1. CASE CancelSync(c)
        <4>1. cli' = [Diagnosed(Nobody) EXCEPT !.needs = IF Valid THEN "no"
                                                ELSE Diagnosed(Nobody).needs]
          BY <3>1 DEF CancelSync, Cancelled
        <4>2. "no" \in Needs /\ Diagnosed(Nobody).needs \in Needs
          BY <1>0, DiagnosedTyped DEF Needs
        <4> QED
          BY <1>0, <3>1, <4>1, <4>2, Diagnoses DEF CancelSync
      <3>2. CASE \E o : FetchesAllSync(c, o)
        BY <1>0, <3>2, Diagnoses DEF FetchesAllSync
      <3>3. CASE SyncCalls(c)
        BY <1>0, <3>3, Diagnoses DEF SyncCalls
      <3>4. CASE ParamDataSync(c) \/ PutDataSync(c)
        <4>1. PICK x \in Rets \X Needs :
                 /\ cli' = [Diagnosed(Nobody) EXCEPT !.needs = x[2]]
                 /\ UNCHANGED <<stmt, faults>>
          BY <1>0, <3>4, OutcomesTyped DEF ParamDataSync, PutDataSync, SendsSync
        <4>2. x[2] \in Needs
          OBVIOUS
        <4> QED
          BY <1>0, <4>1, <4>2, Diagnoses
      <3> QED
        BY <2>3, <3>1, <3>2, <3>3, <3>4
           DEF SyncCatalog, PrimaryKeysSync, ForeignKeysSync, ProceduresSync,
               ProcedureColumnsSync, SyncOther, ExecuteDirectSync, PrepareSync,
               SetAttrSync
    <2> QED
      BY <1>2, <2>1, <2>4, <2>5, <2>6
  <1>4. CASE SetAttr(c) /\ kind[c] = "none" /\ then' = then
    <2>1. QueueStep(c, "setAttr") /\ UNCHANGED <<stmt, faults, cli>>
      BY <1>0, <1>4, QueuesMoves DEF SetAttr, Queues
    <2>2. work'[c].op \notin Runs \cup {"bind"}
      BY <2>1 DEF QueueStep, NoWork, Runs
    <2> QED
      BY <1>2, <1>4, <2>1, <2>2 DEF QueueStep
  <1> QED
    BY <1>1, <1>3, <1>4 DEF Application, Push, PushBind, PushSetAttr, MayMake

LEMMA OwnTurns ==
    ASSUME TypeOK, SerialInv, UsesInv, OwnUse, BuffersOK,
           BindTurn \/ QueueEmpty \/ Turn \/ GoOn \/ CallbackReturns,
           Valid' => Valid
    PROVE  BuffersOK'
  <1>0. /\ NativeTypeOK /\ work \in [Calls -> WorkRecords]
        /\ stmt \in StmtRecords
        /\ fifo \in Seq(Calls) /\ Nobody \notin Calls /\ then \in Someone
    BY SerialTypes, Native
  <1>1. ASSUME UNCHANGED <<nativeVars, stage>>, then' \in {then, Nobody}
        PROVE  BuffersOK'
    BY <1>0, <1>1, ArrayKept DEF nativeVars, BuffersOK
  <1>2. CASE BindTurn \/ QueueEmpty \/ CallbackReturns
    BY <1>1, <1>2, OwnCalls DEF BindTurn, QueueEmpty, CallbackReturns
  <1>3. CASE Turn
    <2>1. PICK c \in Calls : c = Head(fifo)
      BY <1>0, <1>3 DEF Turn
    <2>2. /\ Starts(c, stage[c]) /\ turn /\ fifo # <<>> /\ then' = then
      BY <1>3, <2>1 DEF Turn
    <2>3. \A d \in Calls : ~Busy(d)
      BY <2>2 DEF SerialInv, OneAtATime
    <2>4. /\ FreeFaults = {} /\ then = Nobody
          /\ \A d \in Calls : work[d].op \notin Runs \cup {"bind"}
      BY <1>0, <2>3, NoneFreedInUse, OwnCalls DEF Someone
    <2>5. stage[c] \notin Runs
      <3>1. 1 \in DOMAIN fifo /\ fifo[1] = c
        BY <1>0, <2>1, <2>2
      <3>2. kind[c] \in WithParams => stage[c] = "bind"
        BY <3>1 DEF UsesInv, WaitsOK
      <3> QED
        BY <3>2, OwnCalls DEF Runs
    <2>6. PICK o : /\ QueueStep(c, o)
                   /\ o \in SerialOps \cup {"bind", "prepare"}
                   /\ stage[c] \notin {"lastParamData", "lastPutData"} => o = stage[c]
                   /\ stage[c] \in {"lastParamData", "lastPutData"} =>
                         o \in {"paramData", "putData"}
      BY <1>0, <2>2, StartsMoves
    <2>7. /\ work'[c].op = o /\ work'[c].phase = "queued"
          /\ o \notin Runs
          /\ o = "bind" <=> stage[c] = "bind"
      BY <2>5, <2>6 DEF QueueStep, NoWork, Runs
    <2>8. \A d \in Calls : d # c => ArrayOK(d)'
      BY <1>0, <2>2, <2>4, <2>6, ArrayFree DEF QueueStep, Alone
    <2>9. CASE Bind(c)
      <3>1. stmt'.params = c /\ faults' = faults
        BY <1>0, <2>4, <2>9 DEF Bind, Makes
      <3>2. ArrayOK(c)'
        BY <1>0, <2>2, <2>4, <2>7, <3>1 DEF ArrayOK, Runs
      <3> QED
        BY <2>8, <3>1, <3>2 DEF BuffersOK
    <2>10. CASE ~Bind(c)
      <3>1. o # "bind" /\ UNCHANGED faults
        <4>1. \E p : Queues(c, p)
          BY <2>2, <2>10
             DEF Starts, Execute, ExecuteNonQuery, ExecuteDirect,
                 ExecuteForStreaming, ParamData, PutData, Prepare, PrimaryKeys,
                 ForeignKeys, Procedures, ProcedureColumns, Cancel, Close
        <4>2. stage[c] # "bind"
          BY <2>2, <2>10 DEF Starts, Options
        <4> QED
          BY <2>7, <4>1, <4>2 DEF Queues
      <3>2. ArrayOK(c)'
        BY <1>0, <2>2, <2>4, <2>7, <3>1, ArrayFree
      <3> QED
        BY <2>8, <3>1, <3>2 DEF BuffersOK
    <2> QED
      BY <2>9, <2>10
  <1>4. CASE GoOn
    <2>1. PICK c \in Calls : c = then
      BY <1>0, <1>4 DEF GoOn, Someone
    <2>2. PICK o \in Runs : Queues(c, o) /\ stage[c] = o
      BY <1>4, <2>1 DEF GoOn, Execute, ExecuteNonQuery, Runs
    <2>3. then' = Nobody /\ UNCHANGED <<stmt, cli, faults>>
      BY <1>4, <2>2 DEF GoOn, Queues
    <2>4. QueueStep(c, o)
      BY <1>0, <2>2, QueuesMoves
    <2>5. work'[c].op = o /\ work'[c].phase = "queued" /\ BoundTo(c)
      BY <2>1, <2>2, <2>4 DEF QueueStep, NoWork, BuffersOK, ArrayOK, Runs
    <2>6. Busy(c)
      BY <2>1, OwnCalls
    <2>7. ArrayOK(c)'
      BY <1>0, <2>3, <2>5 DEF ArrayOK, BoundTo, Runs, Valid
    <2>8. \A d \in Calls : d # c => ArrayOK(d)'
      BY <2>3, <2>4, <2>6, OthersFree DEF QueueStep
    <2> QED
      BY <2>3, <2>7, <2>8 DEF BuffersOK
  <1> QED
    BY <1>2, <1>3, <1>4

LEMMA OwnHandlers ==
    ASSUME TypeOK, SerialInv, UsesInv, OwnUse, BuffersOK,
           NEW c \in Calls, Handler(c), Valid' => Valid
    PROVE  BuffersOK'
  <1>0. /\ NativeTypeOK /\ work \in [Calls -> WorkRecords]
        /\ stmt \in StmtRecords
        /\ Nobody \notin Calls /\ then \in Someone
        /\ ErrorRead(c) \cap BufferFaults = {}
    BY SerialTypes, Native DEF ErrorRead, BufferFaults
  <1>1. ASSUME work[c].op \in SerialOps \/ Serial(c), HandlerStep(c)
        PROVE  /\ Busy(c) /\ FreeFaults = {}
    <2>1. Busy(c)
      BY <1>1, BusyDone DEF HandlerStep
    <2>2. \A d \in Calls : Busy(d) => work[d].phase # "running"
      BY <1>1, <2>1 DEF SerialInv, OneAtATime, HandlerStep
    <2> QED
      BY <2>1, <2>2, NoneFreedInUse
  <1>2. CASE AfterBindOfParams(c)
    <2>1. /\ HandlerStep(c) /\ work'[c] = NoWork /\ work[c].op = "bind"
          /\ then = Nobody /\ kind[c] \in WithParams
          /\ UNCHANGED <<stmt, cli>> /\ faults' = faults \cup ErrorRead(c)
      BY <1>0, <1>2, ReportsMoves
         DEF AfterBindOfParams, UV_AfterBind, InLoop, Reports
    <2>2. Busy(c)
      BY <1>1, <2>1, OwnCalls
    <2>3. then' = then \/ (then' = c /\ ~Failed(c))
      BY <1>2 DEF AfterBindOfParams, Ends
    <2>4. \A d \in Calls : d # c => ArrayOK(d)'
      BY <2>1, <2>2, <2>3, OthersFree DEF HandlerStep
    <2>5. ArrayOK(c)'
      <3>1. CASE then' = then
        BY <1>0, <2>1, <3>1, ArrayFree DEF NoWork, Runs
      <3>2. CASE then' = c /\ ~Failed(c)
        <4>1. BoundTo(c)
          BY <2>1, <3>2 DEF BuffersOK, ArrayOK, HandlerStep, Failed
        <4> QED
          BY <2>1, <4>1 DEF ArrayOK, BoundTo, NoWork, Runs, Valid
      <3> QED
        BY <2>3, <3>1, <3>2
    <2> QED
      BY <1>0, <2>1, <2>4, <2>5 DEF BuffersOK
  <1>8. ASSUME HandlerStep(c), work[c].op \in SerialOps, then = Nobody,
               then' = then \/ CallsBack(c),
               work'[c].op \notin Runs \cup {"bind"},
               faults' \subseteq faults \cup ErrorRead(c)
        PROVE  BuffersOK'
    <2>1. Busy(c)
      BY <1>1, <1>8
    <2>2. then' \in {then, c}
      BY <1>8 DEF CallsBack
    <2>3. \A d \in Calls : d # c => ArrayOK(d)'
      BY <1>8, <2>1, <2>2, OthersFree DEF HandlerStep
    <2>4. ArrayOK(c)'
      <3>1. CASE then' = then
        BY <1>0, <1>8, <3>1, ArrayFree
      <3>2. CASE CallsBack(c)
        <4>1. stage'[c] = "callback"
          BY <3>2, SerialTypes DEF CallsBack
        <4> QED
          BY <1>8, <4>1 DEF ArrayOK, Runs
      <3> QED
        BY <1>8, <3>1, <3>2
    <2> QED
      BY <1>0, <1>8, <2>3, <2>4 DEF BuffersOK
  <1>3. CASE AfterExecution(c)
    <2>1. /\ HandlerStep(c) /\ work[c].op \in SerialOps /\ work'[c] = NoWork
          /\ then = Nobody /\ (then' = then \/ CallsBack(c))
      BY <1>0, <1>3, AfterExecutionMoves DEF AfterExecution, Ends, InLoop
    <2>2. Busy(c) /\ FreeFaults = {}
      BY <1>1, <2>1
    <2>5. faults' = faults \cup ErrorRead(c)
      <3>1. CASE UV_AfterExecute(c)
        <4>1. work[c].op = "execute" /\ work[c].phase = "done"
          BY <3>1 DEF UV_AfterExecute, Delivers
        <4>2. stmt.params = c /\ (work[c].ret \in Succeeds => work[c].read = c)
          BY <4>1 DEF BuffersOK, ArrayOK, BoundTo, Runs
        <4>3. OutputFaults(c) = {}
          BY <4>2 DEF OutputFaults, Succeeds
        <4> QED
          BY <2>2, <3>1, <4>3 DEF UV_AfterExecute
      <3>2. CASE UV_AfterExecuteNonQuery(c)
        BY <3>2 DEF UV_AfterExecuteNonQuery
      <3> QED
        BY <1>3, <3>1, <3>2 DEF AfterExecution
    <2> QED
      BY <1>8, <2>1, <2>5 DEF NoWork, Runs
  <1>4. CASE AfterOther(c)
    <2>1. /\ HandlerStep(c) /\ work[c].op \in SerialOps
          /\ work[c].op \notin {"execute", "nonQuery"}
          /\ faults' \subseteq faults \cup ErrorRead(c)
          /\ then = Nobody
          /\ CallsBack(c) \/ Ends(c) \/ UNCHANGED queueVars
      BY <1>0, <1>4, AfterOtherMoves DEF AfterOther, InLoop
    <2>2. then' = then \/ CallsBack(c)
      BY <2>1 DEF Ends, queueVars
    <2>4. work'[c].op \notin Runs \cup {"bind"}
      BY <2>1 DEF HandlerStep, NoWork, Runs, SerialOps, Options
    <2> QED
      BY <1>8, <2>1, <2>2, <2>4
  <1>5. CASE AfterUnqueued(c)
    <2>1. PICK o : Reports(c, o)
      BY <1>5 DEF AfterUnqueued, UV_AfterPrepare, UV_AfterSetAttr, UV_AfterBind
    <2>2. /\ HandlerStep(c) /\ work'[c] = NoWork /\ UNCHANGED <<stmt, cli>>
          /\ faults' = faults \cup ErrorRead(c) /\ then = Nobody
          /\ then' = then /\ stage' = stage
      BY <1>0, <1>5, <2>1, ReportsMoves DEF AfterUnqueued, Reports, InLoop
    <2>3. \A d \in Calls : d # c => ArrayOK(d)'
      BY <2>2, ArrayKept DEF BuffersOK, HandlerStep, Alone
    <2>4. ArrayOK(c)'
      BY <1>0, <2>2, ArrayFree DEF NoWork, Runs
    <2> QED
      BY <1>0, <2>2, <2>3, <2>4 DEF BuffersOK
  <1>6. CASE AfterStreaming(c)
    BY <1>6, OwnCalls DEF AfterStreaming, OwnParameters, WithParams
  <1>7. CASE StreamData(c) \/ StreamEnd(c) \/ StreamError(c)
    BY <1>7, OwnCalls DEF StreamData, StreamEnd, StreamError, Streaming
  <1> QED
    BY <1>2, <1>3, <1>4, <1>5, <1>6, <1>7 DEF Handler

(* A thread works for the call that has an array. *)
LEMMA OwnExecution ==
    ASSUME TypeOK, SerialInv, UsesInv, OwnUse, BuffersOK,
           NEW c \in Calls, Works(c), Valid' => Valid,
           work[c].op \in Runs \cup {"bind"}
    PROVE  BuffersOK'
  <1>0. /\ NativeTypeOK /\ work \in [Calls -> WorkRecords] /\ c \in Someone
        /\ cli \in [alive : BOOLEAN, bound : Someone, needs : Needs,
                    diag : Someone]
        /\ work[c].read \in Someone /\ Nobody \notin Calls
    BY SerialTypes, Native DEF Someone, WorkRecords
  <1>1. /\ WorkerStep(c) /\ Worker(c) /\ then' = then /\ then # c /\ Busy(c)
    BY <1>0, WorkerMoves, OwnCalls
       DEF Works, queueVars, UsesInv, CallUses, WorkerStep, Idle
  <1>2. \A d \in Calls : d # c => ArrayOK(d)'
    BY <1>1, OthersFree DEF WorkerStep
  <1>3. ArrayOK(c) /\ faults \cap BufferFaults = {}
    BY DEF BuffersOK
  <1>4. ASSUME ArrayOK(c)', faults' = faults PROVE BuffersOK'
    BY <1>2, <1>3, <1>4 DEF BuffersOK
  <1>5. CASE UV_BindEnters(c)
    <2>1. /\ UNCHANGED <<stmt, cli, faults>> /\ work[c].op = "bind"
          /\ work'[c].op = "bind" /\ work'[c].phase = "running"
          /\ work'[c].read = stmt.params
      BY <1>0, <1>5 DEF UV_BindEnters, AtWork, WorkRecords
    <2>2. ArrayOK(c)'
      BY <1>1, <1>3, <2>1 DEF ArrayOK, Runs
    <2> QED
      BY <1>4, <2>1, <2>2
  <1>6. CASE UV_BindReturns(c)
    <2>1. PICK r \in Outcomes({"ok", "error"}) : Return(c, r)
      BY <1>6 DEF UV_BindReturns
    <2>2. /\ work'[c].op = "bind" /\ work'[c].phase = "done" /\ work'[c].ret = r
          /\ UNCHANGED <<stmt, faults>> /\ work[c].read = c
          /\ stmt.params = c
      BY <1>0, <1>3, <1>6, <2>1, Returns DEF UV_BindReturns, ArrayOK
    <2>3. Valid' /\ r # "error" => cli'.bound = c
      <3>1. Valid /\ r # "error" => cli.needs = "no"
        BY DEF Outcomes
      <3>2. Valid /\ cli.needs = "no" => cli' = [Diagnosed(c) EXCEPT !.bound = c]
        BY <1>0, <1>6, <2>2 DEF UV_BindReturns
      <3>3. [Diagnosed(c) EXCEPT !.bound = c].bound = c
        BY <1>0, Diagnoses
      <3> QED
        BY <3>1, <3>2, <3>3
    <2>4. ArrayOK(c)'
      BY <1>1, <2>2, <2>3 DEF ArrayOK, BoundTo, Runs
    <2> QED
      BY <1>4, <2>2, <2>4
  <1>7. CASE \E o \in Runs : Enters(c, o)
    <2>1. /\ work[c].op \in Runs /\ work'[c].op = work[c].op
          /\ work'[c].phase = "running" /\ work'[c].read = cli.bound
          /\ UNCHANGED <<stmt, cli>> /\ faults' = faults \cup ReadFaults
      BY <1>0, <1>7 DEF Enters, AtWork, Runs, WorkRecords
    <2>2. BoundTo(c)
      BY <1>3, <2>1 DEF ArrayOK
    <2>3. ReadFaults = {}
      BY <2>2 DEF ReadFaults, BoundTo
    <2>4. ArrayOK(c)'
      BY <1>1, <2>1, <2>2 DEF ArrayOK, BoundTo, Runs, Valid
    <2> QED
      BY <1>4, <2>1, <2>3, <2>4
  <1>8. CASE \E o \in Runs : Leaves(c, o, ExecuteOutcomes)
    <2>1. PICK x \in ExecuteOutcomes :
             /\ Return(c, x[1]) /\ cli' = [Diagnosed(c) EXCEPT !.needs = x[2]]
             /\ UNCHANGED <<stmt, faults>>
             /\ work[c].op \in Runs /\ work[c].phase = "running"
      BY <1>8 DEF Leaves
    <2>2. x[2] \in Needs
      BY <1>0, OutcomesTyped
    <2>3. /\ work'[c].op = work[c].op /\ work'[c].phase = "done"
          /\ work'[c].ret = x[1] /\ work'[c].read = work[c].read
          /\ cli'.bound = cli.bound
      BY <1>0, <2>1, <2>2, Returns, Diagnoses
    <2>4. x[1] \in Succeeds => Valid
      BY InvalidOutcomes DEF Succeeds
    <2>5. ArrayOK(c)'
      BY <1>1, <1>3, <2>1, <2>3, <2>4 DEF ArrayOK, BoundTo, Runs
    <2> QED
      BY <1>4, <2>1, <2>5
  <1> QED
    <2>1. work[c].op \in {"bind", "execute", "nonQuery"}
      BY DEF Runs
    <2>2. \/ UV_BindEnters(c) \/ UV_BindReturns(c)
          \/ \E o \in Runs : Enters(c, o)
          \/ \E o \in Runs : Leaves(c, o, ExecuteOutcomes)
      BY <1>1, <2>1
         DEF Worker, UV_ExecuteEnters, UV_Execute, UV_ExecuteNonQueryEnters,
             UV_ExecuteNonQuery, UV_ExecuteDirectEnters, UV_ExecuteDirect,
             UV_ExecuteForStreamingEnters, UV_ExecuteForStreaming,
             UV_ParamData, UV_PutData, UV_Prepare, UV_SetAttr, UV_PrimaryKeys,
             UV_ForeignKeys, UV_Procedures, UV_ProcedureColumns,
             UV_CloseFreesParams, UV_Close, UV_Cancel, Enters, Leaves, Sends,
             WorkerCalls, Catalog, AtWork, Runs
    <2> QED
      BY <1>5, <1>6, <1>7, <1>8, <2>2

(* A thread works for a call that has none. *)
LEMMA OwnOtherWork ==
    ASSUME TypeOK, SerialInv, UsesInv, OwnUse, BuffersOK,
           NEW c \in Calls, Works(c), Valid' => Valid,
           work[c].op \notin Runs \cup {"bind"}
    PROVE  BuffersOK'
  <1>0. /\ NativeTypeOK /\ work \in [Calls -> WorkRecords] /\ c \in Someone
        /\ work[c].op # "streaming"
    BY SerialTypes, OwnCalls DEF Someone
  <1>1. /\ WorkerStep(c) /\ Worker(c) /\ UNCHANGED <<then, stage>> /\ then # c
    BY <1>0, WorkerMoves DEF Works, queueVars, UsesInv, CallUses, WorkerStep, Idle
  <1>2. ArrayOK(c)'
    BY <1>1, ArrayFree DEF WorkerStep
  <1>3. CASE work[c].op \in SerialOps
    <2>1. Busy(c)
      BY <1>1, <1>3 DEF SerialInv, CallOK, Busy, Idle, WorkerStep
    <2>2. \A d \in Calls : d # c => ArrayOK(d)'
      BY <1>1, <2>1, OthersFree DEF WorkerStep
    <2>3. faults' = faults
      <3>1. CASE UV_CloseFreesParams(c)
        <4>1. work[c].phase # "running"
          BY <3>1 DEF UV_CloseFreesParams, AtWork
        <4>2. FreeFaults = {}
          BY <2>1, <4>1, NoneFreedInUse DEF SerialInv, OneAtATime
        <4> QED
          BY <3>1, <4>2 DEF UV_CloseFreesParams
      <3>2. CASE Enters(c, "direct")
        BY <3>2 DEF Enters
      <3>3. CASE ~UV_CloseFreesParams(c) /\ ~Enters(c, "direct")
        BY <1>0, <1>1, <3>3
           DEF Worker, UV_BindEnters, UV_BindReturns, UV_ExecuteEnters,
               UV_Execute, UV_ExecuteNonQueryEnters, UV_ExecuteNonQuery,
               UV_ExecuteDirectEnters, UV_ExecuteDirect,
               UV_ExecuteForStreamingEnters, UV_ExecuteForStreaming,
               UV_ParamData, UV_PutData, UV_Prepare, UV_SetAttr, UV_PrimaryKeys,
               UV_ForeignKeys, UV_Procedures, UV_ProcedureColumns, UV_Close,
               UV_Cancel, Enters, Leaves, Sends, WorkerCalls, Catalog, AtWork,
               Runs
      <3> QED
        BY <3>1, <3>2, <3>3
    <2> QED
      BY <1>2, <2>2, <2>3 DEF BuffersOK
  <1>4. CASE work[c].op \notin SerialOps
    <2>1. \E o \in {"prepare", "setAttr"} : WorkerCalls(c, o, {"ok", "error"})
      BY <1>1, <1>4
         DEF Worker, UV_BindEnters, UV_BindReturns, UV_ExecuteEnters,
             UV_Execute, UV_ExecuteNonQueryEnters, UV_ExecuteNonQuery,
             UV_ExecuteDirectEnters, UV_ExecuteDirect,
             UV_ExecuteForStreamingEnters, UV_ExecuteForStreaming,
             UV_ParamData, UV_PutData, UV_Prepare, UV_SetAttr, UV_PrimaryKeys,
             UV_ForeignKeys, UV_Procedures, UV_ProcedureColumns,
             UV_CloseFreesParams, UV_Close, UV_Cancel, Enters, Leaves, Sends,
             WorkerCalls, Catalog, AtWork, Runs, SerialOps, Options
    <2>2. /\ UNCHANGED <<stmt, faults>> /\ cli'.bound = cli.bound
      BY <1>0, <2>1, Diagnoses DEF WorkerCalls
    <2>3. \A d \in Calls : d # c => ArrayOK(d)'
      BY <1>1, <2>2, ArrayKept DEF BuffersOK, WorkerStep, Alone
    <2> QED
      BY <1>2, <2>2, <2>3 DEF BuffersOK
  <1> QED
    BY <1>3, <1>4

(* The application that OwnParameters describes. *)
OwnBuffers == OwnUse => BuffersOK

LEMMA BuffersStep ==
    ASSUME TypeOK, SerialInv, UsesInv, OwnBuffers, [Next]_vars
    PROVE  OwnBuffers'
  <1> SUFFICES ASSUME OwnUse' PROVE BuffersOK'
    BY DEF OwnBuffers
  <1>0. /\ NativeTypeOK /\ OwnUse /\ BuffersOK /\ (Valid' => Valid)
    BY SerialTypes, MadeGrows, NextHandles, HandleKept DEF OwnUse, OwnBuffers
  <1>1. ASSUME NEW c \in Calls, Works(c) PROVE BuffersOK'
    BY <1>0, <1>1, OwnExecution, OwnOtherWork
  <1>2. ASSUME NEW c \in Calls, Unblock(c) PROVE FALSE
    BY <1>0, <1>2, UnblockMoves, OwnCalls
  <1>3. CASE Disconnect /\ UNCHANGED queueVars
    <2>1. cli'.alive = FALSE /\ UNCHANGED <<stmt, work, faults, then, stage>>
      BY <1>0, <1>3, DisconnectMoves DEF queueVars
    <2>2. ~Valid'
      BY <2>1 DEF Valid
    <2> QED
      BY <1>0, <2>1, <2>2, ArrayKept DEF BuffersOK
  <1>4. CASE UNCHANGED vars
    BY <1>0, <1>4, ArrayKept DEF BuffersOK, vars, nativeVars, queueVars
  <1>5. CASE HandlerEnds
    <2>1. LateStep /\ UNCHANGED <<then, stage>>
      BY <1>0, <1>5, LateMoves DEF HandlerEnds, queueVars
    <2> QED
      BY <1>0, <2>1, ArrayKept DEF BuffersOK, LateStep
  <1> QED
    BY <1>0, <1>1, <1>2, <1>3, <1>4, <1>5, OwnApplication, OwnTurns, OwnHandlers
       DEF Next, Thread

(* An application that gives every execution its own parameters, and frees  *)
(* none outside queue, never has the driver read buffers that are gone, nor *)
(* frees those a thread is reading, nor takes another call's output values, *)
(* however many calls it makes and whatever fails.                          *)
THEOREM BuffersCorrect == Spec => []BuffersOutliveReads
  <1>1. Init => UsesInv /\ OwnBuffers
    <2>1. Init => BuffersOK
      BY NobodyAssumption DEF Init, NativeInit, NoWork, BuffersOK, ArrayOK, Runs
    <2> QED
      BY <2>1, UsesInit DEF OwnBuffers
  <1>2. TypeOK /\ SerialInv /\ UsesInv /\ OwnBuffers /\ [Next]_vars
           => (UsesInv /\ OwnBuffers)'
    BY UsesStep, BuffersStep
  <1>3. OwnBuffers => BuffersOutliveReads
    BY DEF OwnBuffers, OwnUse, BuffersOK, BuffersOutliveReads, BufferFaults
  <1> QED
    BY <1>1, <1>2, <1>3, SerialAlways, PTL DEF Spec

-----------------------------------------------------------------------------
(* Binds and the executions that let them go on.                            *)

(* An execution without parameters is answered once: it waits in queue      *)
(* once, and is answered when its work is done.                             *)
RunOnce(c) ==
    /\ kind[c] = "none" => answered[c] = 0
    /\ kind[c] \in Runs =>
          /\ ~Idle(c) => answered[c] = 0
          /\ \A i \in DOMAIN fifo : fifo[i] = c =>
                /\ answered[c] = 0 /\ Idle(c)
                /\ \A j \in DOMAIN fifo : fifo[j] = c => j = i

RunsOnce == \A c \in Calls : RunOnce(c)

(* An executeNonQuery in its callback lets a bind go on when that returns. *)
Owes == then # Nobody /\ stage[then] = "callback" /\ kind[then] = "nonQuery"

(* Nothing begins for a call, and what waits with it may go. *)
LEMMA OnceFrame ==
    ASSUME TypeOK, NEW d \in Calls, RunOnce(d), kind'[d] = kind[d],
           answered'[d] = answered[d], Idle(d) => Idle(d)',
           \/ fifo' = fifo
           \/ fifo # <<>> /\ fifo' = Tail(fifo)
           \/ \E c \in Calls \ {d} : fifo' = Append(fifo, c)
    PROVE  RunOnce(d)'
  <1>0. fifo \in Seq(Calls)
    BY SerialTypes
  <1>1. CASE fifo' = fifo
    BY <1>1 DEF RunOnce
  <1>2. CASE fifo # <<>> /\ fifo' = Tail(fifo)
    <2>1. \A i \in DOMAIN fifo' : /\ i + 1 \in DOMAIN fifo /\ fifo'[i] = fifo[i + 1]
                                  /\ i \in Nat
      BY <1>0, <1>2
    <2>2. ASSUME kind[d] \in Runs, NEW i \in DOMAIN fifo', fifo'[i] = d
          PROVE  /\ answered'[d] = 0 /\ Idle(d)'
                 /\ \A j \in DOMAIN fifo' : fifo'[j] = d => j = i
      <3>1. answered[d] = 0 /\ Idle(d)
        BY <2>1, <2>2 DEF RunOnce
      <3>2. ASSUME NEW j \in DOMAIN fifo', fifo'[j] = d PROVE j = i
        <4>1. j + 1 = i + 1
          BY <2>1, <2>2, <3>2 DEF RunOnce
        <4> QED
          BY <4>1, <2>1
      <3> QED
        BY <3>1, <3>2
    <2> QED
      BY <2>2 DEF RunOnce
  <1>3. ASSUME NEW c \in Calls \ {d}, fifo' = Append(fifo, c) PROVE RunOnce(d)'
    <2>1. \A i \in DOMAIN fifo' : fifo'[i] = d => i \in DOMAIN fifo /\ fifo[i] = d
      BY <1>0, <1>3
    <2> QED
      BY <2>1 DEF RunOnce
  <1> QED
    BY <1>1, <1>2, <1>3

(* A call is answered, or goes on, that is no execution without parameters, *)
(* or whose work ends.                                                      *)
LEMMA OnceAnswered ==
    ASSUME TypeOK, NEW c \in Calls, RunOnce(c), kind'[c] = kind[c], kind[c] # "none",
           \/ kind[c] \notin Runs
           \/ ~Idle(c) /\ Idle(c)' /\ fifo' = fifo
    PROVE  RunOnce(c)'
  BY DEF RunOnce, Runs

LEMMA ApplicationOnce ==
    ASSUME TypeOK, SerialInv, UsesInv, RunsOnce, NEW c \in Calls, Application(c)
    PROVE  /\ RunsOnce'
           /\ kind[c] = "none" /\ answered' = answered
           /\ \A d \in Calls : d # c => kind'[d] = kind[d]
           /\ kind'[c] = "bind" => PushBind(c)
  <1>0. /\ NativeTypeOK /\ kind \in [Calls -> Kinds \cup {"none"}]
        /\ work \in [Calls -> WorkRecords] /\ fifo \in Seq(Calls)
    BY SerialTypes
  <1>1. PICK k \in Kinds :
          /\ kind[c] = "none" /\ kind' = [kind EXCEPT ![c] = k] /\ answered' = answered
          /\ \/ Push(c, k) /\ fifo' = Append(fifo, c) /\ k \in Queued /\ work' = work
             \/ CallSync(c, k) /\ fifo' = fifo /\ k \notin Queued \cup {"bind"}
             \/ PushBind(c) /\ fifo' = fifo /\ k = "bind" /\ work' = work
             \/ PushSetAttr(c) /\ fifo' = fifo /\ k = "setAttr"
    BY DEF Application, Push, CallSync, PushBind, PushSetAttr, MayMake, nativeVars,
           Queued, WithParams, Plain
  <1>2. Idle(c) /\ answered[c] = 0 /\ \A i \in DOMAIN fifo : fifo[i] # c
    BY <1>1 DEF SerialInv, CallOK, RunsOnce, RunOnce, UsesInv, WaitsOK
  <1>3. kind'[c] = k /\ \A d \in Calls : d # c => kind'[d] = kind[d]
    BY <1>0, <1>1
  <1>4. Alone(c)
    <2>1. CASE CallSync(c, k)
      <3>1. SyncMethods(c)
        BY <2>1 DEF CallSync, SyncMethods
      <3> QED
        BY <1>0, <3>1, SyncMoves DEF SyncStep
    <2>2. CASE PushSetAttr(c)
      <3>1. CASE UNCHANGED nativeVars
        BY <3>1 DEF nativeVars, Alone
      <3>2. CASE SetAttr(c)
        BY <1>0, <3>2, QueuesMoves DEF SetAttr, QueueStep
      <3> QED
        BY <2>2, <3>1, <3>2 DEF PushSetAttr
    <2> QED
      BY <1>1, <2>1, <2>2 DEF Alone
  <1>5. ASSUME NEW d \in Calls, d # c PROVE RunOnce(d)'
    <2>1. Idle(d) => Idle(d)'
      BY <1>4, <1>5 DEF Alone, Idle
    <2> QED
      BY <1>1, <1>3, <1>5, <2>1, OnceFrame DEF RunsOnce
  <1>6. RunOnce(c)'
    <2>1. CASE k \in Runs
      <3>1. fifo' = Append(fifo, c) /\ work' = work
        BY <1>1, <2>1 DEF Runs, Queued, Plain
      <3>2. \A i \in DOMAIN fifo' : fifo'[i] = c => i = Len(fifo) + 1
        BY <1>0, <1>2, <3>1
      <3> QED
        BY <1>1, <1>2, <1>3, <3>1, <3>2 DEF RunOnce, Idle
    <2>2. CASE k \notin Runs
      BY <1>1, <1>2, <1>3, <2>2 DEF RunOnce
    <2> QED
      BY <2>1, <2>2
  <1> QED
    BY <1>1, <1>3, <1>5, <1>6 DEF RunsOnce, Queued, WithParams, Plain

LEMMA TurnOnce ==
    ASSUME TypeOK, SerialInv, UsesInv, RunsOnce,
           BindTurn \/ QueueEmpty \/ Turn \/ GoOn
    PROVE  /\ RunsOnce' /\ kind' = kind
           /\ \A d \in Calls : kind[d] \in Runs => answered'[d] = answered[d]
  <1>0. /\ NativeTypeOK /\ work \in [Calls -> WorkRecords] /\ fifo \in Seq(Calls)
        /\ binds \in Seq(Calls) /\ then \in Someone /\ answered \in [Calls -> Nat]
    BY SerialTypes DEF QueueTypeOK
  <1>1. CASE UNCHANGED <<kind, fifo, answered, work>>
    <2>1. ASSUME NEW d \in Calls PROVE RunOnce(d)'
      BY <1>1, <2>1, OnceFrame DEF RunsOnce, Idle
    <2> QED
      BY <1>1, <2>1 DEF RunsOnce
  <1>2. ASSUME NEW c \in Calls, NEW o, QueueStep(c, o), kind' = kind,
               kind[c] \notin Runs, kind[c] # "none",
               fifo' = fifo \/ (fifo # <<>> /\ fifo' = Tail(fifo)),
               \A d \in Calls : d # c => answered'[d] = answered[d]
        PROVE  /\ RunsOnce' /\ kind' = kind
               /\ \A d \in Calls : kind[d] \in Runs => answered'[d] = answered[d]
    <2>1. RunOnce(c)'
      BY <1>2, OnceAnswered DEF RunsOnce
    <2>2. ASSUME NEW d \in Calls, d # c PROVE RunOnce(d)'
      BY <1>2, <2>2, OnceFrame DEF RunsOnce, QueueStep, Alone, Idle
    <2> QED
      BY <1>2, <2>1, <2>2 DEF RunsOnce
  <1>3. CASE BindTurn /\ binds # <<>>
    <2>1. PICK c \in Calls : c = Head(binds) /\ c = binds[1] /\ 1 \in DOMAIN binds
      BY <1>0, <1>3
    <2>2. /\ Bind(c) /\ kind' = kind /\ fifo' = fifo
          /\ \E n \in {0, 1} : answered' = [answered EXCEPT ![c] = @ + n]
      BY <1>3, <2>1 DEF BindTurn, ParseParams
    <2>3. kind[c] = "bind"
      BY <2>1 DEF SerialInv, OneAtATime
    <2>4. QueueStep(c, "bind")
      BY <1>0, <2>2, QueuesMoves
    <2> QED
      BY <1>0, <1>2, <2>2, <2>3, <2>4 DEF Runs
  <1>4. CASE Turn
    <2>1. PICK c \in Calls : c = Head(fifo) /\ c = fifo[1] /\ 1 \in DOMAIN fifo
      BY <1>0, <1>4 DEF Turn
    <2>2. /\ Starts(c, stage[c]) /\ kind' = kind /\ ParseParams(c, kind[c])
          /\ fifo # <<>> /\ fifo' = Tail(fifo)
      BY <1>4, <2>1 DEF Turn
    <2>3. PICK o : QueueStep(c, o)
      BY <1>0, <2>2, StartsMoves
    <2>4. kind[c] # "none"
      BY <2>1 DEF UsesInv, WaitsOK
    <2>5. CASE kind[c] \notin Runs
      <3>1. \A d \in Calls : d # c => answered'[d] = answered[d]
        BY <1>0, <2>2 DEF ParseParams
      <3> QED
        BY <1>2, <2>2, <2>3, <2>4, <2>5, <3>1
    <2>6. CASE kind[c] \in Runs
      <3>1. answered' = answered
        BY <1>0, <2>2, <2>6 DEF ParseParams, Runs, WithParams
      <3>2. answered[c] = 0 /\ \A j \in DOMAIN fifo : fifo[j] = c => j = 1
        BY <2>1, <2>6 DEF RunsOnce, RunOnce
      <3>3. \A i \in DOMAIN fifo' : /\ i + 1 \in DOMAIN fifo /\ fifo'[i] = fifo[i + 1]
                                    /\ i \in Nat \ {0}
        BY <1>0, <2>2
      <3>4. \A i \in DOMAIN fifo' : fifo'[i] # c
        <4>1. \A i \in Nat \ {0} : i + 1 # 1
          OBVIOUS
        <4> QED
          BY <3>2, <3>3, <4>1
      <3>5. RunOnce(c)'
        BY <2>2, <2>4, <3>1, <3>2, <3>4 DEF RunOnce
      <3>6. ASSUME NEW d \in Calls, d # c PROVE RunOnce(d)'
        BY <2>2, <2>3, <3>1, <3>6, OnceFrame DEF RunsOnce, QueueStep, Alone, Idle
      <3> QED
        BY <2>2, <3>1, <3>5, <3>6 DEF RunsOnce
    <2> QED
      BY <2>5, <2>6
  <1>5. CASE GoOn
    <2>1. PICK c \in Calls : c = then
      BY <1>0, <1>5 DEF GoOn, Someone
    <2>2. PICK o : Queues(c, o)
      BY <1>5, <2>1 DEF GoOn, Execute, ExecuteNonQuery
    <2>3. kind' = kind /\ fifo' = fifo /\ answered' = answered
      BY <1>5 DEF GoOn
    <2>4. kind[c] \in WithParams
      <3>1. stage[c] # "callback"
        BY <1>5, <2>1 DEF GoOn
      <3> QED
        BY <2>1, <3>1 DEF UsesInv, CallUses
    <2> QED
      BY <1>0, <1>2, <2>2, <2>3, <2>4, QueuesMoves DEF WithParams, Runs
  <1>6. CASE QueueEmpty \/ (BindTurn /\ binds = <<>>)
    BY <1>1, <1>6 DEF QueueEmpty, BindTurn, nativeVars
  <1> QED
    BY <1>3, <1>4, <1>5, <1>6

LEMMA HandlerOnce ==
    ASSUME TypeOK, SerialInv, UsesInv, RunsOnce, NEW c \in Calls, Handler(c)
    PROVE  /\ RunsOnce' /\ UNCHANGED <<kind, binds, bindBusy>> /\ ~bindTurn
           /\ answered' = answered \/ Answer(c)
           /\ bindTurn' \/ Owes' => kind[c] \in Runs /\ answered[c] = 0 /\ Answer(c)
           /\ bindTurn' => ~Owes'
           /\ Owes' => then' = c
  <1>0. /\ NativeTypeOK /\ stage \in [Calls -> Stages]
        /\ answered \in [Calls -> Nat]
    BY SerialTypes DEF QueueTypeOK
  <1>1. UNCHANGED <<kind, binds, bindBusy>> /\ ~bindTurn
    BY DEF Handler, AfterBindOfParams, AfterExecution, AfterOther, AfterUnqueued,
           AfterStreaming, StreamData, StreamEnd, StreamError, Ends, CallsBack,
           InLoop, queueVars
  <1>2. answered' = answered \/ Answer(c)
    BY DEF Handler, AfterBindOfParams, AfterExecution, AfterOther, AfterUnqueued,
           AfterStreaming, StreamData, StreamEnd, StreamError, Ends, CallsBack,
           Again, Done, GivesUp, Reads, queueVars
  <1>3. /\ bindTurn' => AfterExecution(c) /\ kind[c] \notin WithParams /\ Ends(c)
        /\ Owes' => CallsBack(c) /\ ~Idle(c)
    <2>1. CASE AfterExecution(c)
      <3>1. work[c].phase = "done"
        BY <2>1 DEF AfterExecution, UV_AfterExecute, UV_AfterExecuteNonQuery, Delivers
      <3>2. CASE Ends(c) /\ bindTurn' = (kind[c] = "execute" /\ bindBusy)
        BY <2>1, <3>2 DEF AfterExecution, Ends, InLoop, Owes, WithParams
      <3>3. CASE CallsBack(c)
        BY <1>1, <3>1, <3>3 DEF CallsBack, Idle
      <3> QED
        BY <2>1, <3>2, <3>3 DEF AfterExecution
    <2>2. CASE AfterOther(c)
      <3>1. work[c].phase = "done"
        BY <1>0, <2>2, AfterOtherMoves DEF HandlerStep
      <3>2. CASE CallsBack(c)
        BY <1>1, <3>1, <3>2 DEF CallsBack, Idle
      <3>3. CASE then' = then /\ bindTurn' = bindTurn
        BY <1>1, <2>2, <3>3 DEF AfterOther, InLoop, Owes
      <3> QED
        BY <2>2, <3>2, <3>3 DEF AfterOther, Ends, queueVars
    <2>3. CASE AfterBindOfParams(c)
      <3>1. CASE Ends(c) /\ UNCHANGED bindTurn
        BY <1>1, <2>3, <3>1 DEF AfterBindOfParams, Ends, InLoop, Owes
      <3>2. CASE then' = c /\ stage'[c] \in {"execute", "nonQuery"} /\ bindTurn' = bindTurn
        BY <1>1, <3>2 DEF Owes
      <3> QED
        BY <1>0, <2>3, <3>1, <3>2 DEF AfterBindOfParams
    <2>4. CASE then' = then /\ bindTurn' = bindTurn /\ InLoop
      BY <1>1, <2>4 DEF InLoop, Owes
    <2> QED
      BY <2>1, <2>2, <2>3, <2>4
         DEF Handler, AfterUnqueued, AfterStreaming, StreamData, StreamEnd, StreamError
  <1>4. \/ kind[c] \in WithParams \cup {"stream"} /\ Alone(c)
        \/ /\ HandlerStep(c) /\ fifo' = fifo
           /\ work'[c] = NoWork \/ (UNCHANGED queueVars /\ work'[c].phase = "endless")
    <2>1. CASE AfterBindOfParams(c)
      BY <1>0, <2>1, ReportsMoves
         DEF AfterBindOfParams, UV_AfterBind, HandlerStep
    <2>2. CASE AfterExecution(c)
      BY <1>0, <2>2, AfterExecutionMoves DEF AfterExecution, Ends, CallsBack
    <2>3. CASE AfterOther(c)
      <3>1. /\ HandlerStep(c)
            /\ \/ CallsBack(c) /\ work'[c] = NoWork
               \/ Ends(c) /\ work'[c] = NoWork
               \/ js' = c /\ UNCHANGED queueVars
        BY <1>0, <2>3, AfterOtherMoves
      <3>2. js = Nobody /\ c # Nobody
        BY <2>3, NobodyAssumption DEF AfterOther, InLoop
      <3> QED
        BY <3>1, <3>2 DEF Ends, CallsBack, HandlerStep, queueVars
    <2>4. CASE AfterUnqueued(c)
      <3>1. PICK o : Reports(c, o)
        BY <2>4 DEF AfterUnqueued, UV_AfterPrepare, UV_AfterSetAttr, UV_AfterBind
      <3> QED
        BY <1>0, <2>4, <3>1, ReportsMoves DEF AfterUnqueued
    <2>5. CASE AfterStreaming(c)
      <3>1. PICK o : Reports(c, o)
        BY <2>5 DEF AfterStreaming, UV_AfterExecuteForStreaming,
                    UV_AfterParamData, UV_AfterPutData
      <3> QED
        BY <1>0, <2>5, <3>1, ReportsMoves DEF AfterStreaming, HandlerStep
    <2>6. CASE StreamData(c) \/ StreamEnd(c) \/ StreamError(c)
      <3>1. stage[c] \in {"reading", "putData"} /\ work' = work
        BY <2>6 DEF StreamData, StreamEnd, StreamError, nativeVars
      <3>2. kind[c] = "stream"
        BY <3>1 DEF UsesInv, CallUses, Streaming
      <3> QED
        BY <3>1, <3>2 DEF Alone
    <2> QED
      BY <2>1, <2>2, <2>3, <2>4, <2>5, <2>6 DEF Handler
  <1>5. \A d \in Calls : d # c => answered'[d] = answered[d] /\ (Idle(d) => Idle(d)')
    BY <1>0, <1>2, <1>4 DEF Answer, Alone, HandlerStep, Idle
  <1>6. fifo' = fifo \/ fifo' = Append(fifo, c)
    BY DEF Handler, AfterBindOfParams, AfterExecution, AfterOther, AfterUnqueued,
           AfterStreaming, StreamData, StreamEnd, StreamError, Ends, CallsBack,
           Again, Done, GivesUp, Reads, queueVars
  <1>7. ASSUME NEW d \in Calls, d # c PROVE RunOnce(d)'
    BY <1>1, <1>5, <1>6, <1>7, OnceFrame DEF RunsOnce
  <1>8. RunOnce(c)'
    <2>1. CASE kind[c] \in WithParams \cup {"stream"}
      BY <1>1, <2>1, OnceAnswered DEF RunsOnce, WithParams, Runs
    <2>2. CASE HandlerStep(c) /\ fifo' = fifo /\ work'[c] = NoWork
      <3>1. ~Idle(c) /\ Idle(c)'
        BY <2>2 DEF HandlerStep, Idle, NoWork
      <3>2. kind[c] # "none"
        BY <3>1 DEF SerialInv, CallOK
      <3> QED
        BY <1>1, <2>2, <3>1, <3>2, OnceAnswered DEF RunsOnce
    <2>3. CASE UNCHANGED queueVars /\ HandlerStep(c)
      <3>1. ~Idle(c) /\ UNCHANGED <<kind, fifo, answered>>
        BY <2>3 DEF HandlerStep, Idle, queueVars
      <3> QED
        BY <3>1 DEF RunsOnce, RunOnce
    <2> QED
      BY <1>4, <2>1, <2>2, <2>3
  <1>9. bindTurn' \/ Owes' => kind[c] \in Runs /\ answered[c] = 0 /\ Answer(c)
    <2>1. CASE AfterExecution(c) /\ kind[c] \notin WithParams /\ Ends(c)
      <3>1. work[c].op \in {"execute", "nonQuery"} /\ work[c].phase = "done"
        BY <2>1 DEF AfterExecution, UV_AfterExecute, UV_AfterExecuteNonQuery, Delivers
      <3>2. kind[c] \in Runs
        BY <2>1, <3>1 DEF UsesInv, CallUses, Executions, Runs
      <3>3. answered[c] = 0
        BY <3>1, <3>2 DEF RunsOnce, RunOnce, Idle
      <3> QED
        BY <2>1, <3>2, <3>3 DEF Ends
    <2>2. CASE Owes' /\ CallsBack(c) /\ ~Idle(c)
      <3>1. kind[c] \in Runs
        BY <1>1, <2>2 DEF CallsBack, Owes, Runs
      <3> QED
        BY <2>2, <3>1 DEF CallsBack, RunsOnce, RunOnce
    <2> QED
      BY <1>3, <2>1, <2>2
  <1>10. (Owes' => then' = c) /\ (bindTurn' => ~Owes')
    BY <1>1, <1>3 DEF CallsBack
  <1> QED
    BY <1>1, <1>2, <1>7, <1>8, <1>9, <1>10 DEF RunsOnce

(* Every bind that has run but the first is paid for by an execution, and   *)
(* so is the one that is about to run while bindQueue is executing, and the *)
(* one the callback that runs will let go on.                               *)
BindsPaid ==
    /\ IsFiniteSet(BindsRun) /\ IsFiniteSet(Executed)
    /\ ~bindBusy => BindsRun = {}
    /\ Owes => then \in Executed
    /\ bindBusy => Cardinality(BindsRun) + (IF bindTurn THEN 1 ELSE 0)
                       + (IF Owes THEN 1 ELSE 0) <= 1 + Cardinality(Executed)

LEMMA BindsFrame ==
    ASSUME BindsPaid, BindsRun' = BindsRun, bindBusy' = bindBusy,
           bindTurn' => bindTurn, Owes' => Owes /\ then' = then, NEW c,
           Executed' = Executed \/ Executed' = Executed \cup {c}
    PROVE  BindsPaid'
  <1>1. Cardinality(BindsRun) \in Nat /\ Cardinality(Executed) \in Nat
    BY FS_CardinalityType DEF BindsPaid
  <1>2. /\ IsFiniteSet(Executed')
        /\ Cardinality(Executed') \in Nat /\ Cardinality(Executed') >= Cardinality(Executed)
    <2>1. CASE Executed' = Executed
      BY <1>1, <2>1 DEF BindsPaid
    <2>2. CASE Executed' = Executed \cup {c}
      <3>1. /\ IsFiniteSet(Executed')
            /\ \/ Cardinality(Executed') = Cardinality(Executed)
               \/ Cardinality(Executed') = Cardinality(Executed) + 1
        BY <2>2, FS_AddElement DEF BindsPaid
      <3> QED
        BY <1>1, <3>1
    <2> QED
      BY <2>1, <2>2
  <1>3. Owes' => then' \in Executed'
    BY DEF BindsPaid
  <1> QED
    BY <1>1, <1>2, <1>3 DEF BindsPaid

LEMMA ApplicationBinds ==
    ASSUME TypeOK, SerialInv, UsesInv, RunsOnce, BindsPaid,
           NEW c \in Calls, Application(c)
    PROVE  BindsPaid'
  <1>0. binds \in Seq(Calls)
    BY SerialTypes
  <1>1. /\ kind[c] = "none" /\ answered' = answered /\ answered[c] = 0
        /\ \A d \in Calls : d # c => kind'[d] = kind[d]
        /\ kind'[c] = "bind" => PushBind(c)
    BY ApplicationOnce DEF RunsOnce, RunOnce
  <1>2. Executed' = Executed
    BY <1>1 DEF Executed
  <1>5. (Owes' => Owes) /\ then' = then
    <2>1. /\ then' = then /\ then # c
          /\ \A d \in Calls : d # c => stage'[d] = stage[d]
      <3>1. stage \in [Calls -> Stages]
        BY SerialTypes DEF QueueTypeOK
      <3>2. then # c
        BY <1>1 DEF SerialInv, CallOK
      <3>3. CASE \E k \in Kinds : Push(c, k)
        BY <3>1, <3>2, <3>3 DEF Push
      <3>4. CASE ~\E k \in Kinds : Push(c, k)
        BY <3>2, <3>4 DEF Application, CallSync, PushBind, PushSetAttr
      <3> QED
        BY <3>3, <3>4
    <2>2. Owes' => then \in Calls
      BY <2>1, SerialTypes DEF Owes, QueueTypeOK, Someone
    <2> QED
      BY <1>1, <2>1, <2>2 DEF Owes
  <1>3. CASE PushBind(c)
    <2>1. binds' = Append(binds, c) /\ bindTurn' = ~bindBusy /\ bindBusy' = bindBusy
      BY <1>3 DEF PushBind
    <2>2. /\ DOMAIN binds' = DOMAIN binds \cup {Len(binds) + 1}
          /\ binds'[Len(binds) + 1] = c
          /\ \A i \in DOMAIN binds : binds'[i] = binds[i]
      BY <1>0, <2>1
    <2>3. BindsRun' = BindsRun
      BY <1>1, <2>2 DEF BindsRun
    <2>4. Cardinality(BindsRun) \in Nat /\ Cardinality(Executed) \in Nat
      BY FS_CardinalityType DEF BindsPaid
    <2>5. CASE bindBusy = TRUE
      <3>1. bindTurn' = FALSE /\ bindBusy' = TRUE
        BY <2>1, <2>5
      <3>2. Cardinality(BindsRun) <= 1 + Cardinality(Executed)
        BY <2>4, <2>5 DEF BindsPaid
      <3>3. bindTurn' => bindTurn
        BY <3>1
      <3> QED
        BY <1>2, <1>5, <2>1, <2>3, <3>3, BindsFrame
    <2>6. CASE bindBusy = FALSE
      BY <1>2, <1>5, <2>1, <2>3, <2>6 DEF BindsPaid
    <2> QED
      BY <2>5, <2>6, SerialTypes DEF QueueTypeOK
  <1>4. CASE ~PushBind(c)
    <2>1. UNCHANGED <<binds, bindBusy, bindTurn>>
      BY <1>4 DEF Application, Push, CallSync, PushSetAttr
    <2>2. BindsRun' = BindsRun
      BY <1>1, <1>4, <2>1 DEF BindsRun
    <2> QED
      BY <1>2, <1>5, <2>1, <2>2, BindsFrame
  <1> QED
    BY <1>3, <1>4

LEMMA TurnBinds ==
    ASSUME TypeOK, SerialInv, UsesInv, RunsOnce, BindsPaid,
           BindTurn \/ QueueEmpty \/ Turn \/ GoOn
    PROVE  BindsPaid'
  <1>0. binds \in Seq(Calls)
    BY SerialTypes
  <1>1. kind' = kind /\ Executed' = Executed
    BY TurnOnce DEF Executed, Runs
  <1>4. (Owes' => Owes /\ then' = then)
        /\ (BindTurn => (Owes' <=> Owes) /\ then' = then)
    BY <1>1 DEF BindTurn, QueueEmpty, Turn, GoOn, Owes
  <1>2. CASE BindTurn /\ binds # <<>>
    <2>1. PICK c \in Calls : c = Head(binds) /\ c = binds[1]
      BY <1>0, <1>2
    <2>2. bindTurn /\ bindTurn' = FALSE /\ bindBusy' = TRUE /\ binds' = Tail(binds)
      BY <1>2 DEF BindTurn
    <2>3. \A i \in DOMAIN binds : i = 1 \/ (i - 1 \in DOMAIN binds' /\ binds'[i - 1] = binds[i])
      BY <1>0, <1>2, <2>2
    <2>4. BindsRun' \subseteq BindsRun \cup {c}
      BY <1>1, <2>1, <2>3 DEF BindsRun
    <2>5. /\ Cardinality(BindsRun) \in Nat /\ Cardinality(Executed) \in Nat
          /\ IsFiniteSet(BindsRun \cup {c})
          /\ Cardinality(BindsRun \cup {c}) <= Cardinality(BindsRun) + 1
          /\ Cardinality(BindsRun \cup {c}) \in Nat
      <3>1. Cardinality(BindsRun) \in Nat /\ Cardinality(Executed) \in Nat
        BY FS_CardinalityType DEF BindsPaid
      <3>2. /\ IsFiniteSet(BindsRun \cup {c})
            /\ \/ Cardinality(BindsRun \cup {c}) = Cardinality(BindsRun)
               \/ Cardinality(BindsRun \cup {c}) = Cardinality(BindsRun) + 1
        BY FS_AddElement DEF BindsPaid
      <3> QED
        BY <3>1, <3>2
    <2>6. /\ IsFiniteSet(BindsRun') /\ Cardinality(BindsRun') \in Nat
          /\ Cardinality(BindsRun') <= Cardinality(BindsRun \cup {c})
      BY <2>4, <2>5, FS_Subset, FS_CardinalityType
    <2>7. ~bindBusy => Cardinality(BindsRun) = 0
      BY FS_EmptySet DEF BindsPaid
    <2>8. Cardinality(BindsRun) + (IF Owes THEN 1 ELSE 0) <= Cardinality(Executed)
      <3>1. CASE bindBusy
        BY <2>2, <2>5, <3>1 DEF BindsPaid
      <3>2. CASE ~bindBusy
        <4>1. Owes => Executed # {}
          BY DEF BindsPaid
        <4>2. Owes => Cardinality(Executed) # 0
          BY <4>1, FS_EmptySet DEF BindsPaid
        <4> QED
          BY <2>5, <2>7, <3>2, <4>2
      <3> QED
        BY <3>1, <3>2
    <2>9. Owes' => then' \in Executed'
      BY <1>1, <1>2, <1>4 DEF BindsPaid
    <2>10. Cardinality(BindsRun') + (IF Owes' THEN 1 ELSE 0)
               <= 1 + Cardinality(Executed)
      BY <1>2, <1>4, <2>5, <2>6, <2>8
    <2> QED
      BY <1>1, <2>2, <2>5, <2>6, <2>9, <2>10 DEF BindsPaid
  <1>3. CASE ~(BindTurn /\ binds # <<>>)
    <2>1. UNCHANGED <<binds, bindBusy>> /\ (bindTurn' => bindTurn)
      BY <1>3 DEF BindTurn, QueueEmpty, Turn, GoOn
    <2>2. BindsRun' = BindsRun
      BY <1>1, <2>1 DEF BindsRun
    <2> QED
      BY <1>1, <1>4, <2>1, <2>2, BindsFrame
  <1> QED
    BY <1>2, <1>3

(* The callback that was answered returns; what it owes falls due. *)
LEMMA ReturnBinds ==
    ASSUME TypeOK, RunsOnce, BindsPaid, CallbackReturns
    PROVE  RunsOnce' /\ BindsPaid'
  <1>1. /\ UNCHANGED <<kind, answered, fifo, work, binds, bindBusy>>
        /\ then' = Nobody /\ ~bindTurn
        /\ bindTurn' = (kind[then] = "nonQuery" /\ bindBusy)
        /\ Owes <=> kind[then] = "nonQuery"
    BY DEF CallbackReturns, NextCall, InCallback, nativeVars, Owes
  <1>2. ASSUME NEW d \in Calls PROVE RunOnce(d)'
    BY <1>1, OnceFrame DEF RunsOnce, Idle
  <1>7. RunsOnce'
    BY <1>2 DEF RunsOnce
  <1>3. BindsRun' = BindsRun /\ Executed' = Executed /\ ~Owes'
    BY <1>1 DEF BindsRun, Executed, Owes
  <1>4. Cardinality(BindsRun) \in Nat /\ Cardinality(Executed) \in Nat
    BY FS_CardinalityType DEF BindsPaid
  <1>5. CASE bindTurn'
    <2>1. bindBusy /\ bindBusy' /\ Owes
      BY <1>1, <1>5
    <2>2. Cardinality(BindsRun) + 1 <= 1 + Cardinality(Executed)
      BY <1>1, <1>4, <2>1 DEF BindsPaid
    <2>3. IsFiniteSet(BindsRun) /\ IsFiniteSet(Executed)
      BY DEF BindsPaid
    <2>4. bindBusy' => Cardinality(BindsRun') + (IF bindTurn' THEN 1 ELSE 0)
               + (IF Owes' THEN 1 ELSE 0) <= 1 + Cardinality(Executed')
      BY <1>3, <1>4, <1>5, <2>2
    <2> QED
      BY <1>3, <1>7, <2>1, <2>3, <2>4 DEF BindsPaid
  <1>6. CASE ~bindTurn'
    <2>1. bindBusy' = bindBusy
      BY <1>1
    <2> QED
      BY <1>3, <1>6, <1>7, <2>1, BindsFrame
  <1> QED
    BY <1>5, <1>6

LEMMA HandlerBinds ==
    ASSUME TypeOK, SerialInv, UsesInv, RunsOnce, BindsPaid,
           NEW c \in Calls, Handler(c)
    PROVE  BindsPaid'
  <1>0. answered \in [Calls -> Nat]
    BY SerialTypes DEF QueueTypeOK
  <1>1. /\ UNCHANGED <<kind, binds, bindBusy>> /\ ~bindTurn
        /\ answered' = answered \/ Answer(c)
        /\ bindTurn' \/ Owes' => kind[c] \in Runs /\ answered[c] = 0 /\ Answer(c)
        /\ bindTurn' => ~Owes'
        /\ Owes' => then' = c
    BY HandlerOnce
  <1>2. BindsRun' = BindsRun
    BY <1>1 DEF BindsRun
  <1>3. Answer(c) => /\ answered'[c] = answered[c] + 1 /\ answered'[c] > 0
                     /\ \A d \in Calls : d # c => answered'[d] = answered[d]
    BY <1>0 DEF Answer
  <1>4. Executed' = Executed \/ Executed' = Executed \cup {c}
    BY <1>0, <1>1, <1>3 DEF Executed
  <1>5. CASE ~bindTurn' /\ ~Owes'
    BY <1>1, <1>2, <1>4, <1>5, BindsFrame
  <1>6. CASE bindTurn' \/ Owes'
    <2>1. c \notin Executed /\ Executed' = Executed \cup {c}
      BY <1>0, <1>1, <1>3, <1>6 DEF Executed, Runs
    <2>2. Cardinality(BindsRun) \in Nat /\ Cardinality(Executed) \in Nat
      BY FS_CardinalityType DEF BindsPaid
    <2>3. IsFiniteSet(Executed') /\ Cardinality(Executed') = Cardinality(Executed) + 1
      BY <2>1, FS_AddElement DEF BindsPaid
    <2>4. Owes' => then' \in Executed'
      BY <1>1, <2>1
    <2>5. bindBusy => Cardinality(BindsRun) <= 1 + Cardinality(Executed)
      BY <2>2 DEF BindsPaid
    <2>6. bindBusy' = bindBusy /\ (bindTurn' => ~Owes')
      BY <1>1
    <2>7. bindBusy' => Cardinality(BindsRun') + (IF bindTurn' THEN 1 ELSE 0)
               + (IF Owes' THEN 1 ELSE 0) <= 1 + Cardinality(Executed')
      BY <1>2, <2>2, <2>3, <2>5, <2>6
    <2> QED
      BY <1>1, <1>2, <2>3, <2>4, <2>7 DEF BindsPaid
  <1> QED
    BY <1>5, <1>6

BindsInv == TypeOK /\ SerialInv /\ UsesInv /\ RunsOnce /\ BindsPaid

LEMMA BindsInit == Init => BindsInv
  <1> SUFFICES ASSUME Init PROVE BindsInv
    OBVIOUS
  <1>1. RunsOnce
    BY DEF Init, RunsOnce, RunOnce, Runs
  <1>2. BindsRun = {} /\ Executed = {}
    BY DEF Init, BindsRun, Executed
  <1>3. BindsPaid
    BY <1>2, FS_EmptySet DEF Init, BindsPaid, Owes
  <1> QED
    BY <1>1, <1>3, TypeInit, SerialInit, UsesInit DEF BindsInv

LEMMA BindsStep == BindsInv /\ [Next]_vars => BindsInv'
  <1> SUFFICES ASSUME BindsInv, [Next]_vars PROVE RunsOnce' /\ BindsPaid'
    BY TypeStep, SerialStep, UsesStep DEF BindsInv
  <1>0. NativeTypeOK
    BY SerialTypes DEF BindsInv
  <1>1. ASSUME UNCHANGED queueVars, \A d \in Calls : Idle(d) => Idle(d)'
        PROVE  RunsOnce' /\ BindsPaid'
    <2>1. /\ UNCHANGED <<kind, answered, fifo, binds, bindBusy, bindTurn, then>>
          /\ Owes' <=> Owes
      BY <1>1 DEF queueVars, Owes
    <2>2. ASSUME NEW d \in Calls PROVE RunOnce(d)'
      BY <1>1, <2>1, OnceFrame DEF BindsInv, RunsOnce
    <2>3. BindsRun' = BindsRun /\ Executed' = Executed
      BY <2>1 DEF BindsRun, Executed
    <2> QED
      BY <2>1, <2>2, <2>3, BindsFrame DEF BindsInv, RunsOnce
  <1>2. ASSUME NEW c \in Calls, Application(c) PROVE RunsOnce' /\ BindsPaid'
    BY <1>2, ApplicationOnce, ApplicationBinds DEF BindsInv
  <1>3. ASSUME NEW c \in Calls, Works(c) PROVE RunsOnce' /\ BindsPaid'
    <2>1. WorkerStep(c) /\ UNCHANGED queueVars
      BY <1>0, <1>3, WorkerMoves DEF Works
    <2> QED
      BY <1>1, <2>1 DEF WorkerStep, Alone, Idle
  <1>4. CASE Thread
    <2>1. ASSUME NEW c \in Calls, Unblock(c), UNCHANGED queueVars
          PROVE  RunsOnce' /\ BindsPaid'
      <3>1. Alone(c) /\ work'[c] = NoWork
        BY <1>0, <2>1, UnblockMoves
      <3>2. \A d \in Calls : Idle(d) => Idle(d)'
        BY <3>1 DEF Alone, Idle, NoWork
      <3> QED
        BY <1>1, <2>1, <3>2
    <2>2. CASE HandlerEnds
      <3>1. work' = work /\ UNCHANGED queueVars
        BY <2>2 DEF HandlerEnds, LateFreeStmt
      <3> QED
        BY <1>1, <3>1 DEF Idle
    <2>3. CASE CallbackReturns
      BY <2>3, ReturnBinds DEF BindsInv
    <2> QED
      BY <1>4, <2>1, <2>2, <2>3, TurnOnce, TurnBinds, HandlerOnce, HandlerBinds
         DEF Thread, BindsInv
  <1>5. CASE (Disconnect /\ UNCHANGED queueVars) \/ UNCHANGED vars
    <2>1. work' = work /\ UNCHANGED queueVars
      BY <1>0, <1>5, DisconnectMoves DEF vars, queueVars, nativeVars
    <2> QED
      BY <1>1, <2>1 DEF Idle
  <1> QED
    BY <1>2, <1>3, <1>4, <1>5 DEF Next

(* bindQueue never runs ahead: whatever is called in between, the binds     *)
(* that have run exceed the executions without parameters that were         *)
(* answered by one at most.                                                 *)
THEOREM BindsCorrect == Spec => []BindsAreExecuted
  <1>1. BindsInv => BindsAreExecuted
    <2> SUFFICES ASSUME BindsInv PROVE BindsAreExecuted
      OBVIOUS
    <2>1. Cardinality(BindsRun) \in Nat /\ Cardinality(Executed) \in Nat
      BY FS_CardinalityType DEF BindsInv, BindsPaid
    <2>2. ~bindBusy => Cardinality(BindsRun) = 0
      BY FS_EmptySet DEF BindsInv, BindsPaid
    <2>3. CASE bindBusy
      BY <2>1, <2>3 DEF BindsInv, BindsPaid, BindsAreExecuted
    <2>4. CASE ~bindBusy
      BY <2>1, <2>2, <2>4 DEF BindsAreExecuted
    <2> QED
      BY <2>3, <2>4
  <1> QED
    BY <1>1, BindsInit, BindsStep, PTL DEF Spec
=============================================================================
