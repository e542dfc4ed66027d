------------------------ MODULE Transactions_proofs ------------------------
(***************************************************************************)
(* Proofs about Transactions, for every number of clients and of calls:    *)
(* inTransaction agrees with the driver's autocommit whenever nothing is   *)
(* under way, unless a connection is handed over while its last            *)
(* transaction is being rolled back or the driver has refused what the     *)
(* flag was set for; and what a client is told of its writes is true,      *)
(* unless besides a failure is swallowed.                                  *)
(***************************************************************************)
EXTENDS Transactions, TLAPS

-----------------------------------------------------------------------------
(* The list of calls. *)

Typed == calls \in Seq(CallRecords)

LEMMA CallsAreRecords ==
    ASSUME Typed
    PROVE  /\ Len(calls) \in Nat /\ DOMAIN calls = 1..Len(calls)
           /\ \A i \in DOMAIN calls :
                 /\ i \in Nat /\ i > 0
                 /\ calls[i] \in CallRecords
  BY DEF Typed

(* A call that is made is the last of the list. *)
LEMMA CallMade ==
    ASSUME TypeOK, NEW c \in Clients, NEW k \in Kinds,
           NEW h \in {"async", "sync", "close", "closeSync"}, Call(c, k, h)
    PROVE  /\ calls' \in Seq(CallRecords) /\ Len(calls') <= MaxCalls
           /\ js' \in 0..MaxCalls
           /\ Len(calls) + 1 \in Ids /\ Len(calls) + 1 \notin DOMAIN calls
           /\ DOMAIN calls' = DOMAIN calls \cup {Len(calls) + 1}
           /\ \A i \in DOMAIN calls : calls'[i] = calls[i]
           /\ calls'[Len(calls) + 1] =
                 [by |-> c, kind |-> k, how |-> h, in |-> unit[c],
                  phase |-> "queued", ret |-> "ok"]
           /\ Waiting' = Waiting \cup {Len(calls) + 1}
  <1> DEFINE n == Len(calls) + 1
             r == [by |-> c, kind |-> k, how |-> h, in |-> unit[c],
                   phase |-> "queued", ret |-> "ok"]
  <1>1. /\ calls \in Seq(CallRecords) /\ Len(calls) \in Nat
        /\ DOMAIN calls = 1..Len(calls) /\ MaxCalls \in Nat
    BY MaxCallsAssumption DEF TypeOK
  <1>2. calls' = Append(calls, r) /\ Len(calls) < MaxCalls
    BY DEF Call
  <1>3. r \in CallRecords
    BY DEF TypeOK, CallRecords
  <1>4. /\ calls' \in Seq(CallRecords) /\ Len(calls') = n
        /\ \A i \in 1..Len(calls) : calls'[i] = calls[i]
        /\ calls'[n] = r
    BY <1>1, <1>2, <1>3
  <1>5. DOMAIN calls' = 1..n /\ n \in Ids
    BY <1>1, <1>2, <1>4 DEF Ids
  <1>6. js' \in 0..MaxCalls
    BY <1>1, <1>2 DEF Call
  <1>7. Waiting' = Waiting \cup {n}
    BY <1>1, <1>4, <1>5 DEF Waiting, UnderWay
  <1> HIDE DEF n, r
  <1> QED
    BY <1>1, <1>2, <1>4, <1>5, <1>6, <1>7 DEF n, r

(* A step of one call leaves the others as they are. *)
LEMMA CallChanged ==
    ASSUME Typed, NEW i \in DOMAIN calls, NEW r \in CallRecords,
           calls' = [calls EXCEPT ![i] = r]
    PROVE  /\ calls' \in Seq(CallRecords) /\ Len(calls') = Len(calls)
           /\ DOMAIN calls' = DOMAIN calls
           /\ calls'[i] = r
           /\ \A j \in DOMAIN calls : j # i => calls'[j] = calls[j]
           /\ Waiting' = IF r.phase # "over" THEN Waiting \cup {i}
                         ELSE Waiting \ {i}
  BY DEF Typed, Waiting, UnderWay

(* The work of a call, or one of its parts, is done. *)
Worked(i, p, r) == calls' = [calls EXCEPT ![i].phase = p, ![i].ret = r]

LEMMA CallWorked ==
    ASSUME Typed, NEW i \in DOMAIN calls, NEW p \in {"ended", "done"},
           NEW r \in {"ok", "error"}, calls[i].phase # "over",
           Worked(i, p, r)
    PROVE  /\ calls' \in Seq(CallRecords) /\ Len(calls') = Len(calls)
           /\ DOMAIN calls' = DOMAIN calls
           /\ \A j \in DOMAIN calls :
                 /\ calls'[j].by = calls[j].by /\ calls'[j].kind = calls[j].kind
                 /\ calls'[j].how = calls[j].how /\ calls'[j].in = calls[j].in
                 /\ j # i => calls'[j] = calls[j]
           /\ calls'[i].phase = p /\ calls'[i].ret = r
           /\ Waiting' = Waiting
  <1> DEFINE new == [calls[i] EXCEPT !.phase = p, !.ret = r]
  <1>1. calls[i] \in CallRecords
    BY CallsAreRecords
  <1>2. /\ new \in CallRecords
        /\ new.phase = p /\ new.ret = r
        /\ new.by = calls[i].by /\ new.kind = calls[i].kind
        /\ new.how = calls[i].how /\ new.in = calls[i].in
    BY <1>1 DEF CallRecords
  <1>3. calls' = [calls EXCEPT ![i] = new]
    BY DEF Typed, Worked
  <1>4. i \in Waiting
    BY DEF Waiting, UnderWay
  <1> HIDE DEF new
  <1>5. new.phase # "over"
    BY <1>2
  <1>6. /\ calls' \in Seq(CallRecords) /\ Len(calls') = Len(calls)
        /\ DOMAIN calls' = DOMAIN calls
        /\ calls'[i] = new
        /\ \A j \in DOMAIN calls : j # i => calls'[j] = calls[j]
        /\ Waiting' = Waiting \cup {i}
    BY <1>2, <1>3, <1>5, CallChanged
  <1> QED
    BY <1>2, <1>4, <1>6

(* A call whose return has been handled. *)
LEMMA CallDelivered ==
    ASSUME Typed, NEW i \in DOMAIN calls, Delivered(i)
    PROVE  /\ calls' \in Seq(CallRecords) /\ Len(calls') = Len(calls)
           /\ DOMAIN calls' = DOMAIN calls
           /\ \A j \in DOMAIN calls : j # i => calls'[j] = calls[j]
           /\ calls'[i].phase = "over"
           /\ calls'[i].kind = IF calls[i].kind = "write" THEN "write" ELSE "past"
           /\ calls'[i].how = IF calls[i].kind = "write" THEN calls[i].how ELSE "none"
           /\ calls[i].kind = "write" =>
                 calls'[i].by = calls[i].by /\ calls'[i].in = calls[i].in
           /\ calls[i].kind # "write" => calls'[i].by = Nobody
           /\ calls'[i].ret = "ok"
           /\ Waiting' = Waiting \ {i}
           /\ i \in Waiting
  <1> DEFINE r == IF calls[i].kind = "write"
                  THEN [calls[i] EXCEPT !.phase = "over", !.ret = "ok"]
                  ELSE [by |-> Nobody, kind |-> "past", how |-> "none",
                        in |-> 0, phase |-> "over", ret |-> "ok"]
  <1>1. calls[i] \in CallRecords
    BY CallsAreRecords
  <1>2. r \in CallRecords /\ r.phase = "over"
    <2>1. CASE calls[i].kind = "write"
      <3>1. r = [calls[i] EXCEPT !.phase = "over", !.ret = "ok"]
        BY <2>1
      <3>2. /\ [calls[i] EXCEPT !.phase = "over", !.ret = "ok"] \in CallRecords
            /\ [calls[i] EXCEPT !.phase = "over", !.ret = "ok"].phase = "over"
        BY <1>1 DEF CallRecords
      <3> QED
        BY <3>1, <3>2
    <2>2. CASE calls[i].kind # "write"
      BY <2>2, MaxCallsAssumption DEF CallRecords
    <2> QED
      BY <2>1, <2>2
  <1>3. calls' = [calls EXCEPT ![i] = r]
    BY DEF Delivered, Over
  <1>4. i \in Waiting
    BY DEF Waiting, UnderWay, Delivered
  <1>5. /\ calls' \in Seq(CallRecords) /\ Len(calls') = Len(calls)
        /\ DOMAIN calls' = DOMAIN calls
        /\ calls'[i] = r
        /\ \A j \in DOMAIN calls : j # i => calls'[j] = calls[j]
        /\ Waiting' = Waiting \ {i}
    <2> HIDE DEF r
    <2> QED BY <1>2, <1>3, CallChanged
  <1> QED
    BY <1>1, <1>4, <1>5 DEF CallRecords

-----------------------------------------------------------------------------
(* Types. *)

LEMMA InitTypes == Init => TypeOK
  <1> SUFFICES ASSUME Init PROVE TypeOK
    OBVIOUS
  <1>1. calls \in Seq(CallRecords) /\ Len(calls) <= MaxCalls
    BY MaxCallsAssumption DEF Init
  <1>2. /\ unit \in [Clients -> 0..MaxCalls]
        /\ told \in [Ids -> Outcomes]
        /\ js \in 0..MaxCalls
    BY MaxCallsAssumption DEF Init, Outcomes
  <1> QED
    BY <1>1, <1>2 DEF Init, TypeOK

LEMMA TypesKept == TypeOK /\ [Next]_vars => TypeOK'
  <1> SUFFICES ASSUME TypeOK, [Next]_vars PROVE TypeOK'
    OBVIOUS
  <1> USE MaxCallsAssumption
  <1>0. Typed
    BY DEF TypeOK, Typed
  <1>1. CASE UNCHANGED vars
    BY <1>1 DEF vars, TypeOK
  <1>2. ASSUME NEW c \in Clients, Client(c) PROVE TypeOK'
    <2>1. CASE Take(c)
      BY <1>2, <2>1 DEF Take, TypeOK, Mishaps
    <2>2. ASSUME NEW h \in {"async", "sync"},
                 \/ BeginTransaction(c, h)
                 \/ \E k \in {"commit", "rollback"} : EndTransaction(c, k, h)
          PROVE  TypeOK'
      <3>1. \E k \in Kinds : Call(c, k, h)
        BY <2>2 DEF BeginTransaction, EndTransaction, Kinds
      <3>2. /\ calls' \in Seq(CallRecords) /\ Len(calls') <= MaxCalls
            /\ js' \in 0..MaxCalls /\ DOMAIN calls \subseteq DOMAIN calls'
        BY <3>1, <2>2, CallMade
      <3> QED
        BY <2>2, <3>2 DEF BeginTransaction, EndTransaction, ByHolder, Call, TypeOK
    <2>3. CASE Query(c)
      <3>1. /\ calls' \in Seq(CallRecords) /\ Len(calls') <= MaxCalls
            /\ js' \in 0..MaxCalls /\ DOMAIN calls \subseteq DOMAIN calls'
        BY <2>3, CallMade DEF Query, Kinds
      <3> QED
        BY <2>3, <3>1 DEF Query, ByHolder, Call, TypeOK
    <2>4. ASSUME NEW h \in {"close", "closeSync"}, PoolClose(c, h)
          PROVE  TypeOK'
      <3>1. /\ calls' \in Seq(CallRecords) /\ Len(calls') <= MaxCalls
            /\ js' \in 0..MaxCalls /\ DOMAIN calls \subseteq DOMAIN calls'
        <4>1. CASE inTransaction
          BY <2>4, <4>1, CallMade DEF PoolClose, Kinds
        <4>2. CASE ~inTransaction
          BY <2>4, <4>2 DEF PoolClose, TypeOK
        <4> QED
          BY <4>1, <4>2
      <3>2. told' \in [Ids -> Outcomes] /\ unit' \in [Clients -> 0..MaxCalls]
        BY <2>4 DEF PoolClose, LeavesUnit, TypeOK, Outcomes
      <3> QED
        BY <2>4, <3>1, <3>2 DEF PoolClose, ByHolder, Call, TypeOK
    <2> QED
      BY <1>2, <2>1, <2>2, <2>3, <2>4 DEF Client
  <1>3. ASSUME NEW i \in DOMAIN calls, Worker(i) PROVE TypeOK'
    <2>1. calls[i] \in CallRecords /\ calls[i].ret \in {"ok", "error"}
      BY <1>0, CallsAreRecords DEF CallRecords
    <2>2. \E p \in {"ended", "done"}, r \in {"ok", "error"} :
             calls[i].phase # "over" /\ Worked(i, p, r)
      BY <1>3, <2>1 DEF Worker, UV_BeginTransaction, UV_EndTran,
         UV_AutocommitOn, UV_Query, AtWork, Returns, Worked
    <2>3. /\ calls' \in Seq(CallRecords) /\ Len(calls') = Len(calls)
          /\ DOMAIN calls' = DOMAIN calls
      BY <2>2, <1>0, CallWorked
    <2>4. /\ auto' \in BOOLEAN /\ obeyed' \in BOOLEAN /\ alive' = alive
          /\ pending' \subseteq DOMAIN calls
          /\ committed' \subseteq DOMAIN calls
      BY <1>3 DEF Worker, UV_BeginTransaction, UV_EndTran, UV_AutocommitOn,
         AutocommitIsOn, AutocommitRefused, UV_Query, TypeOK
    <2>5. mishaps' \subseteq Mishaps
      BY <1>3 DEF Worker, UV_BeginTransaction, UV_EndTran, UV_AutocommitOn,
         UV_Query, AutocommitIsOn, AutocommitRefused, Failure, TypeOK, Mishaps
    <2>6. Unchanged
      BY <1>3 DEF Worker, UV_BeginTransaction, UV_EndTran, UV_AutocommitOn,
         UV_Query
    <2> QED
      BY <2>3, <2>4, <2>5, <2>6 DEF Unchanged, TypeOK
  <1>4. ASSUME NEW i \in DOMAIN calls, After(i) PROVE TypeOK'
    <2>1. Delivered(i)
      BY <1>4 DEF After, UV_AfterBeginTransaction, UV_AfterEndTransaction,
         UV_AfterQuery
    <2>2. /\ calls' \in Seq(CallRecords) /\ Len(calls') = Len(calls)
          /\ DOMAIN calls' = DOMAIN calls
      BY <1>0, <2>1, CallDelivered
    <2>3. i \in 0..MaxCalls
      BY DEF TypeOK
    <2>4. /\ unit' \in [Clients -> 0..MaxCalls]
          /\ inTransaction' \in BOOLEAN
      <3>1. 0 \in 0..MaxCalls
        OBVIOUS
      <3>2. unit \in [Clients -> 0..MaxCalls]
        BY DEF TypeOK
      <3>3. unit' \in [Clients -> 0..MaxCalls]
        <4>1. CASE UV_AfterBeginTransaction(i)
          BY <2>3, <3>2, <4>1 DEF UV_AfterBeginTransaction
        <4>2. CASE UV_AfterEndTransaction(i)
          BY <3>1, <3>2, <4>2 DEF UV_AfterEndTransaction
        <4>3. CASE UV_AfterQuery(i)
          BY <3>2, <4>3 DEF UV_AfterQuery
        <4> QED
          BY <1>4, <4>1, <4>2, <4>3 DEF After
      <3>4. inTransaction' \in BOOLEAN
        BY <1>4 DEF After, UV_AfterBeginTransaction, UV_AfterEndTransaction,
           UV_AfterQuery, TypeOK
      <3> QED
        BY <3>3, <3>4
    <2>5. told' \in [Ids -> Outcomes]
      BY <1>4 DEF After, UV_AfterBeginTransaction, UV_AfterEndTransaction,
         UV_AfterQuery, UnitIs, TypeOK, Outcomes
    <2> QED
      BY <2>1, <2>2, <2>4, <2>5 DEF Delivered, TypeOK
  <1>5. CASE ConnectionLost
    BY <1>5 DEF ConnectionLost, Unchanged, TypeOK
  <1> QED
    BY <1>1, <1>2, <1>3, <1>4, <1>5 DEF Next

(* The variables hold what the code's fields can hold, in every behaviour,  *)
(* whatever the clients and the server do.                                  *)
THEOREM TypeCorrect == Spec => []TypeOK
  BY InitTypes, TypesKept, PTL DEF Spec

-----------------------------------------------------------------------------
(* The flag and the driver. *)

NoEarly == "early" \notin mishaps

(* Only ending takes two calls of the driver, and only rollbacks are made   *)
(* by the pool.                                                             *)
Shape ==
    \A i \in Waiting :
        /\ calls[i].kind \in Kinds /\ calls[i].by \in Clients
        /\ calls[i].kind \in {"begin", "write"} =>
              calls[i].phase # "ended" /\ calls[i].how \in {"async", "sync"}
        /\ calls[i].kind = "write" => calls[i].how = "async"
        /\ calls[i].how \in {"close", "closeSync"} => calls[i].kind = "rollback"
        /\ calls[i].how \in {"async", "sync", "close", "closeSync"}
        /\ calls[i].phase = "queued" => calls[i].ret = "ok"

(* While no connection is handed over early one call is under way at most,  *)
(* and it is the holder's, or the rollback after the last one.              *)
OneAtATime ==
    NoEarly =>
        \A i \in Waiting :
            /\ \A j \in Waiting : j = i
            /\ calls[i].how \in {"close", "closeSync"} => holder = Nobody
            /\ calls[i].how \in {"async", "sync"} => calls[i].by = holder

(* What flag and driver are while a call is under way: the flag is set for  *)
(* it already, or, by a synchronous begin, when it has succeeded.           *)
Agrees ==
    NoEarly =>
        /\ obeyed /\ Waiting = {} => inTransaction = ~auto
        /\ \A i \in Waiting :
              /\ calls[i].kind = "begin" =>
                    /\ calls[i].how = "async" => inTransaction
                    /\ calls[i].phase = "done" /\ calls[i].ret = "ok" => ~auto
                    /\ calls[i].ret = "error" /\ obeyed => calls[i].how = "sync"
                    /\ obeyed /\ calls[i].how = "sync"
                          /\ (calls[i].phase = "queued" \/ calls[i].ret = "error")
                          => inTransaction = ~auto
              /\ calls[i].kind \in {"commit", "rollback"} =>
                    ~inTransaction /\ (calls[i].phase = "done" /\ obeyed => auto)
              /\ calls[i].kind = "write" /\ obeyed => inTransaction = ~auto

FlagInv == TypeOK /\ Shape /\ OneAtATime /\ Agrees

(* The holder makes a call: nothing else was under way. *)
LEMMA HolderIsAlone ==
    ASSUME FlagInv, NEW c \in Clients, ByHolder(c)
    PROVE  /\ NoEarly => Waiting = {}
           /\ NoEarly' = NoEarly
  <1>1. \A i \in Waiting : calls[i].how \in {"async", "sync", "close", "closeSync"}
    BY DEF FlagInv, Shape
  <1> QED
    BY <1>1, NobodyAssumption DEF FlagInv, OneAtATime, ByHolder, NoEarly

LEMMA FlagKeptByCall ==
    ASSUME FlagInv, NEW c \in Clients, Client(c), TypeOK'
    PROVE  FlagInv'
  <1>0. /\ TypeOK /\ Shape /\ OneAtATime /\ Agrees
        /\ auto \in BOOLEAN /\ inTransaction \in BOOLEAN
    BY DEF FlagInv, TypeOK
  <1>1. CASE Take(c)
    <2>1. calls' = calls /\ Waiting' = Waiting
      BY <1>1 DEF Take, Waiting, UnderWay
    <2>2. NoEarly' => NoEarly /\ Waiting = {}
      BY <1>1 DEF Take, NoEarly
    <2> QED
      BY <1>0, <1>1, <2>1, <2>2
         DEF FlagInv, Shape, OneAtATime, Agrees, Take
  <1>2. ASSUME ByHolder(c), NEW k \in Kinds, NEW h \in {"async", "sync"}, Call(c, k, h),
               k = "write" => h = "async",
               auto' = auto, obeyed' = obeyed, holder' = holder,
               inTransaction' = IF k = "begin" /\ h = "async" THEN TRUE
                                ELSE IF k \in {"commit", "rollback"} THEN FALSE
                                ELSE inTransaction
        PROVE  FlagInv'
    <2> DEFINE n == Len(calls) + 1
    <2>1. /\ \A i \in DOMAIN calls : calls'[i] = calls[i]
          /\ calls'[n] = [by |-> c, kind |-> k, how |-> h, in |-> unit[c],
                          phase |-> "queued", ret |-> "ok"]
          /\ Waiting' = Waiting \cup {n}
      BY <1>0, <1>2, CallMade
    <2> HIDE DEF n
    <2>2. Waiting \subseteq DOMAIN calls
      BY DEF Waiting
    <2>3. /\ calls'[n].by = c /\ calls'[n].kind = k /\ calls'[n].how = h
          /\ calls'[n].phase = "queued" /\ calls'[n].ret = "ok"
      BY <2>1
    <2>4. Shape'
      BY <1>0, <1>2, <2>1, <2>2, <2>3 DEF Shape, Kinds
    <2>5. NoEarly' => NoEarly /\ Waiting = {} /\ Waiting' = {n}
      BY <1>2, <2>1, HolderIsAlone
    <2>6. holder = c
      BY <1>2 DEF ByHolder
    <2>7. OneAtATime'
      BY <1>2, <2>3, <2>5, <2>6 DEF OneAtATime
    <2>8. Agrees'
      <3> SUFFICES ASSUME NoEarly' PROVE Agrees'
        BY DEF Agrees
      <3>1. /\ Waiting' = {n} /\ auto' = auto /\ obeyed' = obeyed
            /\ obeyed => inTransaction = ~auto
        BY <1>0, <1>2, <2>5 DEF Agrees
      <3>2. CASE k = "begin"
        <4>1. h = "async" => inTransaction'
          BY <1>2, <3>2
        <4>2. h = "sync" => inTransaction' = inTransaction
          BY <1>2, <3>2
        <4>3. obeyed' /\ h = "sync" => inTransaction' = ~auto'
          BY <3>1, <4>2
        <4> QED
          BY <2>3, <3>1, <3>2, <4>1, <4>3 DEF Agrees
      <3>3. CASE k \in {"commit", "rollback"}
        BY <1>2, <2>3, <3>1, <3>3 DEF Agrees
      <3>4. CASE k = "write"
        BY <1>2, <2>3, <3>1, <3>4 DEF Agrees
      <3> QED
        BY <1>2, <3>2, <3>3, <3>4 DEF Kinds
    <2> QED
      BY <2>4, <2>7, <2>8 DEF FlagInv
  <1>3. ASSUME NEW h \in {"async", "sync"},
               \/ BeginTransaction(c, h)
               \/ \E k \in {"commit", "rollback"} : EndTransaction(c, k, h)
        PROVE  FlagInv'
    BY <1>2, <1>3 DEF BeginTransaction, EndTransaction, Call, Kinds
  <1>4. CASE Query(c)
    BY <1>2, <1>4 DEF Query, Call, Kinds
  <1>5. ASSUME NEW h \in {"close", "closeSync"}, PoolClose(c, h)
        PROVE  FlagInv'
    <2>1. NoEarly' => NoEarly /\ Waiting = {}
      BY <1>5, HolderIsAlone DEF PoolClose
    <2>2. CASE inTransaction
      <3> DEFINE n == Len(calls) + 1
      <3>1. Call(c, "rollback", h) /\ "rollback" \in Kinds
        BY <1>5, <2>2 DEF PoolClose, Kinds
      <3>2. /\ \A i \in DOMAIN calls : calls'[i] = calls[i]
            /\ calls'[n] = [by |-> c, kind |-> "rollback", how |-> h,
                            in |-> unit[c], phase |-> "queued", ret |-> "ok"]
            /\ Waiting' = Waiting \cup {n}
        BY <1>0, <3>1, CallMade
      <3> HIDE DEF n
      <3>3. /\ calls'[n].kind = "rollback" /\ calls'[n].how = h
            /\ calls'[n].phase = "queued" /\ calls'[n].ret = "ok"
            /\ calls'[n].by = c
        BY <3>2
      <3>4. Waiting \subseteq DOMAIN calls
        BY DEF Waiting
      <3>5. Shape'
        BY <1>0, <3>1, <3>2, <3>3, <3>4 DEF Shape
      <3>6. holder' = Nobody /\ inTransaction' = FALSE
        BY <1>5 DEF PoolClose
      <3>7. OneAtATime'
        BY <2>1, <3>2, <3>3, <3>6 DEF OneAtATime
      <3>8. Agrees'
        BY <2>1, <3>2, <3>3, <3>6 DEF Agrees
      <3> QED
        BY <3>5, <3>7, <3>8 DEF FlagInv
    <2>3. CASE ~inTransaction
      <3>1. calls' = calls /\ Waiting' = Waiting
        BY <1>5, <2>3 DEF PoolClose, Waiting, UnderWay
      <3>2. /\ auto' = auto /\ obeyed' = obeyed /\ inTransaction' = inTransaction
        BY <1>0, <1>5, <2>3 DEF PoolClose
      <3> QED
        BY <1>0, <2>1, <3>1, <3>2 DEF FlagInv, Shape, OneAtATime, Agrees
    <2> QED
      BY <2>2, <2>3
  <1> QED
    BY <1>1, <1>3, <1>4, <1>5 DEF Client

LEMMA FlagKeptByWork ==
    ASSUME FlagInv, NEW i \in DOMAIN calls, Worker(i), TypeOK'
    PROVE  FlagInv'
  <1>0. /\ TypeOK /\ Shape /\ OneAtATime /\ Agrees /\ Typed
        /\ auto \in BOOLEAN /\ inTransaction \in BOOLEAN /\ obeyed \in BOOLEAN
        /\ calls[i] \in CallRecords /\ calls[i].ret \in {"ok", "error"}
    BY CallsAreRecords DEF FlagInv, TypeOK, Typed, CallRecords
  <1>1. PICK p \in {"ended", "done"}, r \in {"ok", "error"} :
            /\ calls[i].phase # "over" /\ Worked(i, p, r)
            /\ p = "ended" => calls[i].kind \in {"commit", "rollback"}
            /\ calls[i].kind \in {"commit", "rollback"} /\ p = "done" =>
                  (auto' /\ obeyed') \/ (auto' = auto /\ ~obeyed')
            /\ calls[i].kind \in {"commit", "rollback"} /\ p = "ended" =>
                  auto' = auto /\ obeyed' = obeyed
            /\ calls[i].kind = "begin" =>
                  /\ calls[i].phase = "queued"
                  /\ r = "ok" => ~auto'
                  /\ r = "error" =>
                        /\ auto' = auto
                        /\ obeyed' = (obeyed /\ calls[i].how = "sync")
            /\ calls[i].kind = "write" => auto' = auto /\ obeyed' = obeyed
    <2>1. CASE UV_BeginTransaction(i)
      BY <2>1, <1>0 DEF UV_BeginTransaction, AtWork, Returns, Worked
    <2>2. CASE UV_EndTran(i)
      BY <2>2, <1>0 DEF UV_EndTran, AtWork, Worked
    <2>3. CASE UV_AutocommitOn(i)
      <3>1. calls[i].kind \in {"commit", "rollback"}
        BY <1>0, <2>3 DEF UV_AutocommitOn, Shape, Waiting, UnderWay, Kinds
      <3> QED
        BY <2>3, <3>1, <1>0 DEF UV_AutocommitOn, AutocommitIsOn,
           AutocommitRefused, Returns, Worked
    <2>4. CASE UV_Query(i)
      BY <2>4, <1>0 DEF UV_Query, AtWork, Returns, Worked
    <2> QED
      BY <2>1, <2>2, <2>3, <2>4 DEF Worker
  <1>2. /\ \A j \in DOMAIN calls :
              /\ calls'[j].by = calls[j].by /\ calls'[j].kind = calls[j].kind
              /\ calls'[j].how = calls[j].how /\ calls'[j].in = calls[j].in
              /\ j # i => calls'[j] = calls[j]
        /\ calls'[i].phase = p /\ calls'[i].ret = r
        /\ Waiting' = Waiting
    BY <1>0, <1>1, CallWorked
  <1>3. /\ Waiting \subseteq DOMAIN calls /\ i \in Waiting
    BY <1>1 DEF Waiting, UnderWay
  <1>4. /\ holder' = holder /\ inTransaction' = inTransaction
        /\ NoEarly' = NoEarly
    BY DEF Worker, UV_BeginTransaction, UV_EndTran, UV_AutocommitOn, UV_Query,
       AutocommitIsOn, AutocommitRefused, Failure, Unchanged, NoEarly
  <1>5. Shape'
    BY <1>0, <1>1, <1>2, <1>3 DEF Shape
  <1>6. OneAtATime'
    BY <1>0, <1>2, <1>3, <1>4 DEF OneAtATime
  <1>7. Agrees'
    <2> SUFFICES ASSUME NoEarly PROVE Agrees'
      BY <1>4 DEF Agrees
    <2>1. Waiting = {i}
      BY <1>0, <1>3 DEF OneAtATime
    <2>2. calls[i].kind \in Kinds
      BY <1>0, <1>3 DEF Shape
    <2>3. CASE calls[i].kind = "begin"
      <3>1. /\ calls[i].how \in {"async", "sync"} /\ calls[i].phase = "queued"
            /\ calls[i].how = "async" => inTransaction
            /\ obeyed /\ calls[i].how = "sync" => inTransaction = ~auto
        BY <1>0, <1>1, <1>3, <2>3 DEF Agrees, Shape
      <3>2. /\ Waiting' = {i} /\ calls'[i].kind = "begin"
            /\ calls'[i].how = calls[i].how
            /\ calls'[i].phase = "done" /\ calls'[i].ret = r
        BY <1>1, <1>2, <2>1, <2>3
      <3> QED
        <4>1. calls'[i].how = "async" => inTransaction'
          BY <1>4, <3>1, <3>2
        <4>2. r = "ok" => ~auto'
          BY <1>1, <2>3
        <4>3. r = "error" /\ obeyed' => calls[i].how = "sync" /\ obeyed
          BY <1>1, <2>3
        <4>4. r = "error" /\ obeyed' => inTransaction' = ~auto'
          BY <1>1, <1>4, <2>3, <3>1, <4>3
        <4> QED
          BY <2>3, <3>2, <4>1, <4>2, <4>3, <4>4 DEF Agrees
    <2>4. CASE calls[i].kind \in {"commit", "rollback"}
      BY <1>0, <1>1, <1>2, <1>3, <1>4, <2>1, <2>4 DEF Agrees
    <2>5. CASE calls[i].kind = "write"
      BY <1>0, <1>1, <1>2, <1>3, <1>4, <2>1, <2>5 DEF Agrees
    <2> QED
      BY <2>2, <2>3, <2>4, <2>5 DEF Kinds
  <1> QED
    BY <1>5, <1>6, <1>7 DEF FlagInv

LEMMA FlagKeptByReturn ==
    ASSUME FlagInv, NEW i \in DOMAIN calls, After(i), TypeOK'
    PROVE  FlagInv'
  <1>0. /\ TypeOK /\ Shape /\ OneAtATime /\ Agrees /\ Typed
        /\ auto \in BOOLEAN /\ inTransaction \in BOOLEAN
    BY DEF FlagInv, TypeOK, Typed
  <1>1. Delivered(i)
    BY DEF After, UV_AfterBeginTransaction, UV_AfterEndTransaction,
       UV_AfterQuery
  <1>2. /\ \A j \in DOMAIN calls : j # i => calls'[j] = calls[j]
        /\ Waiting' = Waiting \ {i} /\ i \in Waiting
    BY <1>0, <1>1, CallDelivered
  <1>3. Waiting \subseteq DOMAIN calls
    BY DEF Waiting
  <1>4. /\ auto' = auto /\ obeyed' = obeyed /\ holder' = holder
        /\ mishaps' = mishaps /\ calls[i].phase = "done"
    BY <1>1 DEF Delivered
  <1>5. Shape'
    BY <1>0, <1>2, <1>3 DEF Shape
  <1>6. OneAtATime'
    BY <1>0, <1>2, <1>3, <1>4 DEF OneAtATime, NoEarly
  <1>7. Agrees'
    <2> SUFFICES ASSUME NoEarly PROVE Agrees'
      BY <1>4 DEF Agrees, NoEarly
    <2>1. Waiting = {i} /\ Waiting' = {}
      BY <1>0, <1>2 DEF OneAtATime
    <2>2. CASE UV_AfterBeginTransaction(i)
      <3>1. /\ calls[i].kind = "begin" /\ calls[i].how \in {"async", "sync"}
            /\ calls[i].ret \in {"ok", "error"}
            /\ inTransaction' = (inTransaction \/ (calls[i].how = "sync"
                                                  /\ calls[i].ret = "ok"))
        BY <1>0, <1>2, <2>2, CallsAreRecords
           DEF Shape, UV_AfterBeginTransaction, CallRecords
      <3>2. obeyed => inTransaction' = ~auto
        BY <1>0, <1>2, <1>4, <3>1 DEF Agrees
      <3> QED
        BY <1>4, <2>1, <3>2 DEF Agrees
    <2>3. CASE UV_AfterEndTransaction(i)
      BY <1>0, <1>2, <1>4, <2>1, <2>3 DEF Agrees, UV_AfterEndTransaction
    <2>4. CASE UV_AfterQuery(i)
      BY <1>0, <1>2, <1>4, <2>1, <2>4 DEF Agrees, UV_AfterQuery
    <2> QED
      BY <2>2, <2>3, <2>4 DEF After
  <1> QED
    BY <1>5, <1>6, <1>7 DEF FlagInv

LEMMA InitFlag == Init => FlagInv
  <1> SUFFICES ASSUME Init PROVE FlagInv
    OBVIOUS
  <1>1. Waiting = {}
    BY DEF Init, Waiting
  <1> QED
    BY <1>1, InitTypes DEF Init, FlagInv, Shape, OneAtATime, Agrees

LEMMA FlagKept == FlagInv /\ [Next]_vars => FlagInv'
  <1> SUFFICES ASSUME FlagInv, [Next]_vars PROVE FlagInv'
    OBVIOUS
  <1>1. TypeOK'
    BY TypesKept DEF FlagInv
  <1>2. CASE UNCHANGED vars
    <2>1. Waiting' = Waiting /\ NoEarly' = NoEarly
      BY <1>2 DEF vars, Waiting, UnderWay, NoEarly
    <2> QED
      BY <1>1, <1>2, <2>1 DEF vars, FlagInv, Shape, OneAtATime, Agrees
  <1>3. CASE ConnectionLost
    <2>1. Waiting' = Waiting /\ NoEarly' = NoEarly /\ calls' = calls
          /\ UNCHANGED <<holder, inTransaction, auto, obeyed>>
      BY <1>3 DEF ConnectionLost, Unchanged, Waiting, UnderWay, NoEarly
    <2> QED
      BY <1>1, <2>1 DEF FlagInv, Shape, OneAtATime, Agrees
  <1> QED
    BY <1>1, <1>2, <1>3, FlagKeptByCall, FlagKeptByWork, FlagKeptByReturn
       DEF Next

(* Whenever nothing is under way conn.inTransaction says what the driver    *)
(* does: a connection that is closed within a transaction is rolled back,   *)
(* and one that is not is left alone.  The exceptions are connections       *)
(* handed over while they are being rolled back, and those whose driver has *)
(* refused the last change the flag stands for; a synchronous begin that is *)
(* refused is no exception.                                                 *)
THEOREM FlagTellsTheDriver == Spec => []FlagIsAutocommit
  <1>1. FlagInv => FlagIsAutocommit
    BY DEF FlagInv, Agrees, FlagIsAutocommit, NoEarly
  <1> QED
    BY <1>1, InitFlag, FlagKept, PTL DEF Spec

-----------------------------------------------------------------------------
(* What clients are told. *)

(* What is written is written by a call that has been carried out, and a    *)
(* client is told of it when that is over.                                  *)
Books ==
    /\ auto \/ ~alive => pending = {}
    /\ pending \cap committed = {}
    /\ \A i \in pending \cup committed : calls[i].phase # "queued"
    /\ \A i \in Ids : told[i] # "nothing" =>
          /\ i \in DOMAIN calls
          /\ calls[i].phase = "over" /\ calls[i].kind = "write"

(* The driver has been asked to end the transaction. *)
EndAsked(j) ==
    calls[j].kind \in {"commit", "rollback"} /\ calls[j].phase \in {"ended", "done"}

(* Only the holder takes itself to be in a transaction, and it is right     *)
(* unless it waits for a call that begins or ends one.                      *)
Units ==
    /\ holder = Nobody => ~inTransaction
    /\ \A c \in Clients : unit[c] # 0 => c = holder
    /\ alive /\ holder # Nobody
       /\ (\A j \in Waiting : \/ calls[j].phase = "queued"
                              \/ calls[j].kind = "write"
                              \/ calls[j].kind = "begin" /\ calls[j].ret = "error")
          => (unit[holder] # 0 <=> ~auto)

(* The calls under way. *)
Works ==
    \A j \in Waiting :
        /\ calls[j].kind = "write" =>
              /\ calls[j].in = unit[calls[j].by]
              /\ calls[j].phase = "done" /\ calls[j].ret = "ok" =>
                    IF calls[j].in = 0 THEN j \in committed
                    ELSE j \notin committed /\ (alive => j \in pending)
        /\ EndAsked(j) =>
              /\ calls[j].ret = "ok" \/ calls[j].phase = "done" => pending = {}
              /\ calls[j].ret = "error" => calls[j].how = "sync"

(* What has been told. *)
Told ==
    \A i \in Ids :
        /\ told[i] = "committed" => i \in committed
        /\ told[i] = "undone" =>
              /\ i \notin committed
              /\ i \in pending =>
                    \E j \in Waiting : /\ calls[j].how \in {"close", "closeSync"}
                                       /\ calls[j].phase = "queued"
        /\ told[i] = "unit" =>
              /\ calls[i].by = holder /\ holder \in Clients
              /\ alive => unit[holder] # 0
              /\ (\A j \in Waiting : ~EndAsked(j)) =>
                    i \notin committed /\ (alive => i \in pending)
              /\ \A j \in Waiting : EndAsked(j) /\ calls[j].ret = "ok" =>
                    (i \in committed <=> calls[j].kind = "commit")

(* Without mishaps a live driver has refused nothing but a synchronous      *)
(* begin, and that has left everything as it was.                           *)
Truth == mishaps = {} => Units /\ Works /\ Told /\ (alive => obeyed)

TruthInv == FlagInv /\ Books /\ Truth

(* Without mishaps a call under way is alone. *)
LEMMA Alone ==
    ASSUME FlagInv, mishaps = {}, NEW i \in Waiting
    PROVE  Waiting = {i} /\ i \in DOMAIN calls /\ i \in Ids
  <1>1. OneAtATime /\ TypeOK /\ NoEarly
    BY DEF FlagInv, NoEarly
  <1>2. i \in DOMAIN calls /\ DOMAIN calls \subseteq Ids
    BY <1>1, CallsAreRecords, MaxCallsAssumption
       DEF Waiting, TypeOK, Typed, Ids
  <1> QED
    BY <1>1, <1>2 DEF OneAtATime

LEMMA BooksKeptByCall ==
    ASSUME TruthInv, TypeOK', pending' = pending, committed' = committed,
           auto' = auto, alive' = alive,
           DOMAIN calls \subseteq DOMAIN calls',
           \A i \in DOMAIN calls : calls'[i] = calls[i],
           \A i \in Ids : told'[i] # "nothing" => told[i] # "nothing"
    PROVE  Books'
  <1>1. pending \cup committed \subseteq DOMAIN calls
    BY DEF TruthInv, FlagInv, TypeOK
  <1> QED
    BY <1>1 DEF TruthInv, Books

(* The holder begins or ends a transaction, or writes. *)
LEMMA TruthKeptByHolder ==
    ASSUME TruthInv, TypeOK', NEW c \in Clients, ByHolder(c),
           NEW k \in Kinds, NEW h \in {"async", "sync"}, Call(c, k, h),
           UNCHANGED <<auto, pending, committed, alive, holder, unit, told>>
    PROVE  Books' /\ Truth'
  <1>0. /\ FlagInv /\ Books /\ Truth /\ TypeOK /\ mishaps' = mishaps
        /\ holder = c /\ obeyed' = obeyed
    BY DEF TruthInv, FlagInv, ByHolder, Call
  <1>1. PICK n \in Ids :
        /\ \A i \in DOMAIN calls : calls'[i] = calls[i]
        /\ DOMAIN calls' = DOMAIN calls \cup {n} /\ n \notin DOMAIN calls
        /\ calls'[n] = [by |-> c, kind |-> k, how |-> h, in |-> unit[c],
                        phase |-> "queued", ret |-> "ok"]
        /\ Waiting' = Waiting \cup {n}
    BY <1>0, CallMade
  <1>2. /\ calls'[n].by = c /\ calls'[n].kind = k /\ calls'[n].how = h
        /\ calls'[n].in = unit[c] /\ calls'[n].phase = "queued"
    BY <1>1
  <1>3. Books'
    BY <1>1, BooksKeptByCall
  <1>4. ASSUME mishaps = {} PROVE (Units /\ Works /\ Told /\ (alive => obeyed))'
    <2>1. Waiting = {} /\ Waiting' = {n}
      BY <1>0, <1>1, <1>4, HolderIsAlone DEF NoEarly
    <2>2. Units /\ Works /\ Told /\ (alive => obeyed)
      BY <1>0, <1>4 DEF Truth
    <2>3. Units'
      BY <1>0, <2>1, <2>2, NobodyAssumption DEF Units
    <2>4. ~EndAsked(n)'
      BY <1>2 DEF EndAsked
    <2>5. Works'
      BY <1>2, <2>1, <2>4 DEF Works
    <2>6. \A i \in Ids : told[i] # "nothing" => calls'[i] = calls[i]
      BY <1>0, <1>1 DEF Books
    <2>7. Told'
      BY <2>1, <2>2, <2>4, <2>6 DEF Told
    <2> QED
      BY <1>0, <2>2, <2>3, <2>5, <2>7
  <1> QED
    BY <1>0, <1>3, <1>4 DEF Truth

LEMMA TruthKeptByClose ==
    ASSUME TruthInv, TypeOK', NEW c \in Clients,
           NEW h \in {"close", "closeSync"}, PoolClose(c, h)
    PROVE  Books' /\ Truth'
  <1>0. /\ FlagInv /\ Books /\ Truth /\ TypeOK /\ mishaps' = mishaps
        /\ inTransaction \in BOOLEAN
        /\ holder = c /\ holder' = Nobody /\ ~inTransaction'
        /\ pending' = pending /\ committed' = committed
        /\ auto' = auto /\ alive' = alive /\ obeyed' = obeyed
    BY DEF TruthInv, FlagInv, TypeOK, ByHolder, PoolClose, Call
  <1>1. /\ \A i \in DOMAIN calls : calls'[i] = calls[i]
        /\ DOMAIN calls \subseteq DOMAIN calls'
        /\ ~inTransaction => Waiting' = Waiting
        /\ inTransaction =>
              \E n \in Ids : /\ calls'[n].kind = "rollback" /\ calls'[n].how = h
                            /\ calls'[n].phase = "queued"
                            /\ Waiting' = Waiting \cup {n}
    <2>1. CASE inTransaction
      <3>1. Call(c, "rollback", h) /\ "rollback" \in Kinds
        BY <2>1 DEF PoolClose, Kinds
      <3>2. PICK n \in Ids :
               /\ DOMAIN calls' = DOMAIN calls \cup {n}
               /\ \A i \in DOMAIN calls : calls'[i] = calls[i]
               /\ calls'[n] = [by |-> c, kind |-> "rollback", how |-> h,
                               in |-> unit[c], phase |-> "queued", ret |-> "ok"]
               /\ Waiting' = Waiting \cup {n}
        BY <1>0, <3>1, CallMade
      <3>3. /\ calls'[n].kind = "rollback" /\ calls'[n].how = h
            /\ calls'[n].phase = "queued"
        BY <3>2
      <3> QED
        BY <2>1, <3>2, <3>3
    <2>2. CASE ~inTransaction
      BY <2>2 DEF PoolClose, Waiting, UnderWay
    <2> QED
      BY <1>0, <2>1, <2>2
  <1>2. /\ told \in [Ids -> Outcomes] /\ unit \in [Clients -> 0..MaxCalls]
        /\ unit' = [unit EXCEPT ![c] = 0]
        /\ \A i \in Ids : told'[i] = IF i \in DOMAIN calls /\ calls[i].by = c
                                        /\ told[i] = "unit"
                                     THEN "undone" ELSE told[i]
    BY <1>0 DEF PoolClose, LeavesUnit, TypeOK
  <1>3. Books'
    BY <1>0, <1>1, <1>2, BooksKeptByCall
  <1>4. ASSUME mishaps = {} PROVE (Units /\ Works /\ Told /\ (alive => obeyed))'
    <2>1. Waiting = {} /\ NoEarly
      BY <1>0, <1>4, HolderIsAlone DEF NoEarly, PoolClose
    <2>2. Units /\ Works /\ Told /\ (alive => obeyed)
      BY <1>0, <1>4 DEF Truth
    <2>3. Units'
      <3>1. \A d \in Clients : unit'[d] = 0
        BY <1>0, <1>2, <2>2 DEF Units
      <3> QED
        BY <1>0, <3>1 DEF Units
    <2>4. \A j \in Waiting' : /\ calls'[j].kind = "rollback" /\ calls'[j].how = h
                             /\ calls'[j].phase = "queued"
      BY <1>0, <1>1, <2>1
    <2>5. Works'
      BY <2>4 DEF Works, EndAsked
    <2>6. ~inTransaction => pending = {}
      <3>1. alive => inTransaction = ~auto
        BY <1>0, <2>1, <2>2 DEF FlagInv, Agrees
      <3> QED
        BY <1>0, <3>1 DEF Books
    <2>7. ASSUME NEW i \in Ids
          PROVE  /\ told'[i] = "committed" => i \in committed
                 /\ told'[i] = "undone" =>
                       /\ i \notin committed
                       /\ i \in pending => inTransaction
                 /\ told'[i] # "unit"
      <3>1. \A j \in Waiting : ~EndAsked(j)
        BY <2>1
      <3>2. told[i] = "unit" => /\ i \notin committed
                                /\ i \in DOMAIN calls /\ calls[i].by = c
        BY <1>0, <2>2, <3>1 DEF Told, Books
      <3>3. told[i] = "undone" => i \notin committed
        BY <2>2 DEF Told
      <3> QED
        BY <1>2, <2>2, <2>6, <3>2, <3>3 DEF Told
    <2>8. inTransaction => \E j \in Waiting' : /\ calls'[j].how = h
                                              /\ calls'[j].phase = "queued"
      BY <1>1
    <2>9. Told'
      BY <1>0, <2>7, <2>8 DEF Told
    <2> QED
      BY <1>0, <2>2, <2>3, <2>5, <2>9
  <1> QED
    BY <1>0, <1>3, <1>4 DEF Truth

LEMMA TruthKeptByTake ==
    ASSUME TruthInv, TypeOK', NEW c \in Clients, Take(c)
    PROVE  Books' /\ Truth'
  <1>0. /\ FlagInv /\ Books /\ Truth /\ TypeOK
        /\ UNCHANGED <<calls, auto, pending, committed, alive, inTransaction,
                       unit, told, obeyed>>
        /\ Waiting' = Waiting /\ holder = Nobody /\ holder' = c /\ alive
        /\ mishaps' = {} => mishaps = {} /\ Waiting = {}
    BY DEF TruthInv, FlagInv, Take, Waiting, UnderWay
  <1>1. Books'
    BY <1>0, BooksKeptByCall
  <1>2. ASSUME mishaps' = {} PROVE (Units /\ Works /\ Told /\ (alive => obeyed))'
    <2>1. Units /\ Told /\ Waiting = {} /\ NoEarly /\ obeyed
      BY <1>0, <1>2 DEF Truth, NoEarly
    <2>2. auto
      BY <1>0, <2>1 DEF FlagInv, Agrees, Units, TypeOK
    <2>3. unit[c] = 0 /\ \A d \in Clients : unit[d] = 0
      BY <1>0, <2>1, NobodyAssumption DEF Units
    <2>4. Units'
      BY <1>0, <2>2, <2>3, NobodyAssumption DEF Units
    <2>5. Works'
      BY <1>0, <2>1 DEF Works
    <2>6. Told'
      BY <1>0, <2>1, NobodyAssumption DEF Told
    <2> QED
      BY <1>0, <2>1, <2>4, <2>5, <2>6
  <1> QED
    BY <1>1, <1>2 DEF Truth

LEMMA BooksKeptByWork ==
    ASSUME TruthInv, TypeOK', NEW i \in DOMAIN calls, Worker(i)
    PROVE  Books'
  <1>0. /\ Typed /\ Books /\ calls[i] \in CallRecords
        /\ calls[i].ret \in {"ok", "error"}
        /\ auto \in BOOLEAN /\ alive \in BOOLEAN
        /\ pending \subseteq DOMAIN calls /\ committed \subseteq DOMAIN calls
    BY CallsAreRecords DEF TruthInv, FlagInv, TypeOK, Typed, CallRecords
  <1>1. PICK p \in {"ended", "done"}, r \in {"ok", "error"} :
            calls[i].phase # "over" /\ Worked(i, p, r)
    BY <1>0 DEF Worker, UV_BeginTransaction, UV_EndTran, UV_AutocommitOn,
       UV_Query, AtWork, Returns, Worked
  <1>2. /\ \A j \in DOMAIN calls : j # i => calls'[j] = calls[j]
        /\ calls'[i].phase = p /\ calls[i].phase # "over"
        /\ DOMAIN calls' = DOMAIN calls
    BY <1>0, <1>1, CallWorked
  <1>3. /\ auto' \/ ~alive' => pending' = {}
        /\ pending' \cap committed' = {}
        /\ pending' \cup committed' \subseteq pending \cup committed \cup {i}
        /\ alive' = alive /\ told' = told
    <2>1. CASE UV_BeginTransaction(i)
      BY <1>0, <2>1 DEF UV_BeginTransaction, Unchanged, Books
    <2>2. CASE UV_EndTran(i)
      BY <1>0, <2>2 DEF UV_EndTran, Unchanged, Books
    <2>3. CASE UV_AutocommitOn(i)
      BY <1>0, <2>3 DEF UV_AutocommitOn, AutocommitIsOn, AutocommitRefused,
         Unchanged, Books
    <2>4. CASE UV_Query(i)
      BY <1>0, <2>4 DEF UV_Query, AtWork, Unchanged, Books
    <2> QED
      BY <2>1, <2>2, <2>3, <2>4 DEF Worker
  <1> QED
    BY <1>0, <1>1, <1>2, <1>3 DEF Books

(* What a step of the driver for call i leaves as it is. *)
LEMMA WorkFacts ==
    ASSUME TruthInv, NEW i \in DOMAIN calls, Worker(i), mishaps' = {},
           NEW p \in {"ended", "done"}, NEW r \in {"ok", "error"},
           calls[i].phase # "over", Worked(i, p, r)
    PROVE  /\ FlagInv /\ Books /\ Units /\ Works /\ Told /\ NoEarly
           /\ mishaps = {} /\ auto \in BOOLEAN /\ alive \in BOOLEAN
           /\ (alive => obeyed)
           /\ Waiting = {i} /\ Waiting' = {i} /\ calls[i].kind \in Kinds
           /\ calls'[i].phase = p /\ calls'[i].ret = r
           /\ calls'[i].kind = calls[i].kind /\ calls'[i].how = calls[i].how
           /\ calls'[i].by = calls[i].by /\ calls'[i].in = calls[i].in
           /\ \A k \in Ids : told[k] # "nothing" =>
                 k # i /\ calls'[k].by = calls[k].by
           /\ UNCHANGED <<alive, holder, inTransaction, unit, told>>
  <1>1. FlagInv /\ Books /\ TypeOK /\ Typed /\ Shape
    BY DEF TruthInv, FlagInv, TypeOK, Typed
  <1>2. mishaps = {}
    BY DEF Worker, UV_BeginTransaction, UV_EndTran, UV_AutocommitOn, UV_Query,
       AutocommitIsOn, AutocommitRefused
  <1>3. Units /\ Works /\ Told /\ NoEarly /\ (alive => obeyed)
    BY <1>2 DEF TruthInv, Truth, NoEarly
  <1>4. i \in Waiting
    BY DEF Waiting, UnderWay
  <1>5. Waiting = {i} /\ calls[i].kind \in Kinds
    BY <1>1, <1>2, <1>4, Alone DEF Shape
  <1>6. /\ Waiting' = Waiting
        /\ calls'[i].phase = p /\ calls'[i].ret = r
        /\ \A j \in DOMAIN calls :
              /\ calls'[j].by = calls[j].by /\ calls'[j].kind = calls[j].kind
              /\ calls'[j].how = calls[j].how /\ calls'[j].in = calls[j].in
    BY <1>1, CallWorked
  <1>7. UNCHANGED <<alive, holder, inTransaction, unit, told>>
    BY DEF Worker, UV_BeginTransaction, UV_EndTran, UV_AutocommitOn, UV_Query,
       Unchanged
  <1>8. \A k \in Ids : told[k] # "nothing" =>
           k # i /\ calls'[k].by = calls[k].by
    BY <1>1, <1>6 DEF Books
  <1>9. auto \in BOOLEAN /\ alive \in BOOLEAN
    BY <1>1 DEF TypeOK
  <1> QED
    BY <1>1, <1>2, <1>3, <1>5, <1>6, <1>7, <1>8, <1>9

LEMMA TruthKeptByBegin ==
    ASSUME TruthInv, NEW i \in DOMAIN calls, UV_BeginTransaction(i),
           mishaps' = {}
    PROVE  (Units /\ Works /\ Told /\ (alive => obeyed))'
  <1>1. /\ calls[i].kind = "begin" /\ Worker(i)
        /\ pending' = pending /\ committed' = committed
        /\ calls[i].phase = "queued"
    BY DEF UV_BeginTransaction, AtWork, Worker
  <1>2. PICK r \in {"ok", "error"} :
            /\ calls[i].phase # "over" /\ Worked(i, "done", r)
            /\ r = "ok" => obeyed'
            /\ r = "error" => obeyed' = obeyed /\ auto' = auto
    <2>1. TypeOK
      BY DEF TruthInv, FlagInv
    <2> QED
      BY <2>1 DEF UV_BeginTransaction, AtWork, Returns, Worked, Failure, TypeOK
  <1>3. /\ FlagInv /\ Units /\ Works /\ Told /\ (alive => obeyed)
        /\ Waiting = {i} /\ Waiting' = {i}
        /\ calls'[i].phase = "done" /\ calls'[i].kind = "begin"
        /\ calls'[i].ret = r
        /\ \A k \in Ids : told[k] # "nothing" => calls'[k].by = calls[k].by
        /\ UNCHANGED <<alive, holder, inTransaction, unit, told>>
    BY <1>1, <1>2, WorkFacts
  <1>4. ~EndAsked(i) /\ ~EndAsked(i)'
    BY <1>1, <1>3 DEF EndAsked
  <1>5. Units'
    BY <1>1, <1>2, <1>3 DEF Units
  <1>6. Works'
    BY <1>3, <1>4 DEF Works
  <1>7. Told'
    <2> SUFFICES ASSUME NEW k \in Ids, told[k] # "nothing",
                        ~(told[k] = "undone" /\ k \in pending)
                 PROVE  /\ told'[k] = "committed" => k \in committed'
                        /\ told'[k] = "undone" => k \notin committed'
                        /\ told'[k] = "unit" =>
                              /\ calls'[k].by = holder' /\ holder' \in Clients
                              /\ alive' => unit'[holder'] # 0
                              /\ k \notin committed'
                              /\ alive' => k \in pending'
      <3>1. \A k \in Ids : told[k] = "undone" => k \notin pending
        <4>1. calls[i].how \notin {"close", "closeSync"}
          BY <1>1, <1>3 DEF FlagInv, Shape
        <4> QED
          BY <1>3, <4>1 DEF Told
      <3> QED
        BY <1>1, <1>3, <1>4, <3>1 DEF Told
    <2> QED
      BY <1>1, <1>3, <1>4 DEF Told
  <1> QED
    BY <1>2, <1>3, <1>5, <1>6, <1>7

(* Only a rollback that waits for its worker leaves written what a client   *)
(* takes to be undone.                                                      *)
LEMMA UndoneIsGone ==
    ASSUME Told, NEW i, Waiting = {i},
           calls[i].how \notin {"close", "closeSync"} \/ calls[i].phase # "queued"
    PROVE  \A k \in Ids : told[k] = "undone" => k \notin pending
  BY DEF Told

LEMMA TruthKeptByEnd ==
    ASSUME TruthInv, NEW i \in DOMAIN calls, UV_EndTran(i), mishaps' = {}
    PROVE  (Units /\ Works /\ Told /\ (alive => obeyed))'
  <1>1. /\ calls[i].kind \in {"commit", "rollback"} /\ Worker(i)
        /\ calls[i].phase = "queued" /\ obeyed' = obeyed
    BY DEF UV_EndTran, AtWork, Worker
  <1>2. i \in Waiting
    BY <1>1 DEF Waiting, UnderWay
  <1>3. calls[i].ret = "ok"
    BY <1>1, <1>2 DEF TruthInv, FlagInv, Shape
  <1>4. PICK r \in {"ok", "error"} :
            /\ Worked(i, "ended", r)
            /\ \/ /\ r = "ok" /\ alive /\ pending' = {}
                  /\ committed' = IF calls[i].kind = "commit"
                                  THEN committed \cup pending ELSE committed
               \/ /\ r = "error" /\ calls[i].how = "sync"
                  /\ pending' \in {pending, {}} /\ committed' = committed
    <2>1. CASE /\ alive
               /\ calls' = [calls EXCEPT ![i].phase = "ended"]
               /\ committed' = IF calls[i].kind = "commit"
                               THEN committed \cup pending ELSE committed
               /\ pending' = {}
      <3>1. calls \in Seq(CallRecords) /\ calls[i] \in CallRecords
        BY CallsAreRecords DEF TruthInv, FlagInv, TypeOK, Typed
      <3>2. Worked(i, "ended", "ok")
        BY <1>3, <2>1, <3>1 DEF Worked, CallRecords
      <3> QED
        BY <2>1, <3>2
    <2>2. CASE /\ calls' = [calls EXCEPT ![i].phase = "ended", ![i].ret = "error"]
               /\ mishaps' = mishaps \cup Failure(i)
               /\ pending' \in {pending, {}}
               /\ UNCHANGED committed
      BY <2>2 DEF Failure, Worked
    <2> QED
      BY <2>1, <2>2 DEF UV_EndTran
  <1>5. /\ FlagInv /\ Books /\ Units /\ Works /\ Told /\ (alive => obeyed)
        /\ Waiting = {i} /\ Waiting' = {i}
        /\ calls'[i].phase = "ended" /\ calls'[i].kind = calls[i].kind
        /\ calls'[i].ret = r /\ calls'[i].how = calls[i].how
        /\ \A k \in Ids : told[k] # "nothing" => calls'[k].by = calls[k].by
        /\ UNCHANGED <<alive, holder, inTransaction, unit, told>>
    BY <1>1, <1>4, WorkFacts
  <1>6. Units'
    BY <1>1, <1>5 DEF Units
  <1>7. Works'
    BY <1>1, <1>4, <1>5 DEF Works, EndAsked
  <1>8. Told'
    <2>1. ~EndAsked(i) /\ EndAsked(i)'
      BY <1>1, <1>5 DEF EndAsked
    <2>2. ASSUME NEW k \in Ids, told[k] = "committed"
          PROVE  k \in committed'
      BY <1>4, <1>5, <2>2 DEF Told
    <2>3. ASSUME NEW k \in Ids, told[k] = "undone"
          PROVE  k \notin committed' /\ k \notin pending'
      <3>1. CASE calls[i].how \in {"close", "closeSync"}
        <4>1. calls[i].kind = "rollback"
          BY <1>2, <1>5, <3>1 DEF FlagInv, Shape
        <4> QED
          BY <1>4, <1>5, <2>3, <3>1, <4>1 DEF Told
      <3>2. CASE calls[i].how \notin {"close", "closeSync"}
        BY <1>4, <1>5, <2>3, <3>2, UndoneIsGone DEF Told
      <3> QED
        BY <3>1, <3>2
    <2>4. ASSUME NEW k \in Ids, told[k] = "unit"
          PROVE  /\ calls'[k].by = holder' /\ holder' \in Clients
                 /\ alive' => unit'[holder'] # 0
                 /\ r = "ok" => (k \in committed' <=> calls[i].kind = "commit")
      <3>1. k \notin committed /\ (alive => k \in pending)
        BY <1>5, <2>1, <2>4 DEF Told
      <3>2. /\ calls[k].by = holder /\ holder \in Clients
            /\ alive => unit[holder] # 0
        BY <1>5, <2>4 DEF Told
      <3>3. r = "ok" => (k \in committed' <=> calls[i].kind = "commit")
        BY <1>1, <1>4, <3>1
      <3> QED
        BY <1>5, <2>4, <3>2, <3>3
    <2> QED
      BY <1>5, <2>1, <2>2, <2>3, <2>4 DEF Told
  <1> QED
    BY <1>1, <1>5, <1>6, <1>7, <1>8

LEMMA TruthKeptByAutocommit ==
    ASSUME TruthInv, NEW i \in DOMAIN calls, UV_AutocommitOn(i), mishaps' = {}
    PROVE  (Units /\ Works /\ Told /\ (alive => obeyed))'
  <1>0. Books
    BY DEF TruthInv
  <1>1. /\ Worker(i) /\ calls[i].phase = "ended" /\ i \in Waiting
        /\ pending' = {}
        /\ committed' = IF alive THEN committed \cup pending ELSE committed
        /\ alive => obeyed'
    <2>1. CASE AutocommitIsOn
      BY <2>1 DEF AutocommitIsOn, UV_AutocommitOn, Worker, Waiting, UnderWay
    <2>2. CASE AutocommitRefused(i)
      BY <1>0, <2>2
         DEF AutocommitRefused, Books, UV_AutocommitOn, Worker, Waiting, UnderWay
    <2> QED
      BY <2>1, <2>2 DEF UV_AutocommitOn
  <1>2. calls[i].kind \in {"commit", "rollback"} /\ calls[i].ret \in {"ok", "error"}
    BY <1>1, CallsAreRecords
       DEF TruthInv, FlagInv, TypeOK, Typed, CallRecords, Shape, Kinds
  <1>3. PICK r \in {"ok", "error"} :
            /\ Worked(i, "done", r)
            /\ r = "ok" => calls[i].ret = "ok"
            /\ r = "error" => calls[i].how = "sync" \/ calls[i].ret = "error"
    BY <1>2 DEF UV_AutocommitOn, AutocommitRefused, Returns, Worked, Failure
  <1>4. /\ FlagInv /\ Books /\ Units /\ Works /\ Told
        /\ Waiting = {i} /\ Waiting' = {i}
        /\ calls'[i].phase = "done" /\ calls'[i].kind = calls[i].kind
        /\ calls'[i].ret = r /\ calls'[i].how = calls[i].how
        /\ \A k \in Ids : told[k] # "nothing" => calls'[k].by = calls[k].by
        /\ UNCHANGED <<alive, holder, inTransaction, unit, told>>
    BY <1>1, <1>3, WorkFacts
  <1>5. EndAsked(i) /\ EndAsked(i)'
    BY <1>1, <1>2, <1>4 DEF EndAsked
  <1>6. Units'
    BY <1>2, <1>4 DEF Units
  <1>7. Works'
    BY <1>1, <1>2, <1>3, <1>4, <1>5 DEF Works
  <1>8. Told'
    <2>1. r = "ok" => pending = {} /\ committed' = committed
      BY <1>1, <1>3, <1>4, <1>5 DEF Works
    <2>2. ASSUME NEW k \in Ids, told[k] = "undone"
          PROVE  k \notin committed'
      <3>1. k \notin pending
        BY <1>1, <1>4, <2>2, UndoneIsGone
      <3> QED
        BY <1>1, <1>4, <2>2, <3>1 DEF Told
    <2> QED
      BY <1>1, <1>3, <1>4, <1>5, <2>1, <2>2 DEF Told
  <1> QED
    BY <1>1, <1>4, <1>6, <1>7, <1>8

LEMMA TruthKeptByQuery ==
    ASSUME TruthInv, NEW i \in DOMAIN calls, UV_Query(i), mishaps' = {}
    PROVE  (Units /\ Works /\ Told /\ (alive => obeyed))'
  <1>1. /\ Worker(i) /\ calls[i].phase = "queued" /\ calls[i].kind = "write"
        /\ auto' = auto /\ obeyed' = obeyed
    BY DEF UV_Query, AtWork, Worker
  <1>2. PICK r \in {"ok", "error"} :
            /\ Worked(i, "done", r)
            /\ \/ /\ r = "ok" /\ alive
                  /\ committed' = IF auto THEN committed \cup pending \cup {i}
                                  ELSE committed
                  /\ pending' = IF auto THEN {} ELSE pending \cup {i}
               \/ r = "error" /\ pending' = pending /\ committed' = committed
    BY DEF UV_Query, Returns, Worked
  <1>3. /\ FlagInv /\ Books /\ Units /\ Works /\ Told /\ NoEarly
        /\ (alive => obeyed)
        /\ Waiting = {i} /\ Waiting' = {i} /\ auto \in BOOLEAN
        /\ calls'[i].phase = "done" /\ calls'[i].kind = "write"
        /\ calls'[i].ret = r /\ calls'[i].in = calls[i].in
        /\ calls'[i].by = calls[i].by
        /\ \A k \in Ids : told[k] # "nothing" =>
              k # i /\ calls'[k].by = calls[k].by
        /\ UNCHANGED <<alive, holder, inTransaction, unit, told>>
    BY <1>1, <1>2, WorkFacts
  <1>4. calls[i].by = holder /\ calls[i].how = "async" /\ holder \in Clients \cup {Nobody}
    BY <1>1, <1>3 DEF FlagInv, TypeOK, OneAtATime, Shape
  <1>5. ~EndAsked(i) /\ ~EndAsked(i)'
    BY <1>1, <1>3 DEF EndAsked
  <1>6. pending = {} \/ ~auto
    BY <1>3 DEF Books
  <1>7. calls[i].in = unit[holder]
    BY <1>1, <1>3, <1>4 DEF Works
  <1>8. holder # Nobody
    BY <1>3, <1>4, NobodyAssumption DEF FlagInv, Shape
  <1>9. alive => (unit[holder] # 0 <=> ~auto)
    BY <1>1, <1>3, <1>8 DEF Units
  <1>10. Units'
    BY <1>1, <1>3 DEF Units
  <1>11. i \notin committed /\ i \notin pending
    BY <1>1, <1>3 DEF Books
  <1>12. Works'
    BY <1>2, <1>3, <1>4, <1>5, <1>6, <1>7, <1>9, <1>11 DEF Works
  <1>13. Told'
    <2>1. \A k \in Ids : told[k] = "undone" => k \notin pending
      BY <1>3, <1>4, UndoneIsGone
    <2>2. ASSUME NEW k \in Ids, told[k] = "unit"
          PROVE  k \notin committed' /\ (alive => k \in pending')
      <3>1. /\ k \notin committed /\ (alive => k \in pending /\ unit[holder] # 0)
            /\ k # i
        BY <1>3, <1>5, <2>2 DEF Told
      <3> QED
        BY <1>2, <1>9, <3>1
    <2>3. ASSUME NEW k \in Ids, told[k] = "undone"
          PROVE  k \notin committed' /\ k \notin pending'
      BY <1>2, <1>3, <1>6, <2>1, <2>3 DEF Told
    <2> QED
      BY <1>2, <1>3, <1>5, <2>2, <2>3 DEF Told
  <1> QED
    BY <1>1, <1>3, <1>10, <1>12, <1>13

LEMMA TruthKeptByReturn ==
    ASSUME TruthInv, TypeOK', NEW i \in DOMAIN calls, After(i)
    PROVE  Books' /\ Truth'
  <1>0. /\ TypeOK /\ Typed /\ FlagInv /\ Books /\ calls[i].ret \in {"ok", "error"}
        /\ told \in [Ids -> Outcomes] /\ unit \in [Clients -> 0..MaxCalls]
        /\ pending \subseteq DOMAIN calls /\ committed \subseteq DOMAIN calls
    BY CallsAreRecords DEF TruthInv, FlagInv, TypeOK, Typed, CallRecords
  <1>1. Delivered(i)
    BY DEF After, UV_AfterBeginTransaction, UV_AfterEndTransaction,
       UV_AfterQuery
  <1>2. /\ DOMAIN calls' = DOMAIN calls
        /\ \A j \in DOMAIN calls : j # i => calls'[j] = calls[j]
        /\ Waiting' = Waiting \ {i} /\ i \in Waiting
        /\ calls'[i].phase = "over"
        /\ calls[i].kind = "write" =>
              calls'[i].kind = "write" /\ calls'[i].by = calls[i].by
    BY <1>0, <1>1, CallDelivered
  <1>3. /\ UNCHANGED <<auto, pending, committed, alive, holder, mishaps, obeyed>>
        /\ calls[i].phase = "done"
    BY <1>1 DEF Delivered
  <1>4. /\ i \in Ids /\ i \in Nat /\ i # 0
        /\ calls[i].by \in Clients /\ calls[i].kind \in Kinds
    BY <1>0, <1>2, CallsAreRecords, MaxCallsAssumption
       DEF FlagInv, TypeOK, Shape, Ids
  <1>5. told[i] = "nothing"
    BY <1>0, <1>3, <1>4 DEF Books
  <1>6. Books'
    <2>1. \A k \in Ids : told'[k] # "nothing" =>
             told[k] # "nothing" \/ (k = i /\ calls[i].kind = "write")
      BY <1>0, <1>4, <1>5 DEF After, UV_AfterBeginTransaction,
         UV_AfterEndTransaction, UV_AfterQuery, UnitIs
    <2> QED
      BY <1>0, <1>2, <1>3, <1>4, <1>5, <2>1 DEF Books
  <1>7. ASSUME mishaps = {} PROVE (Units /\ Works /\ Told /\ (alive => obeyed))'
    <2>0. /\ Units /\ Works /\ Told /\ NoEarly /\ (alive => obeyed)
          /\ Waiting = {i} /\ Waiting' = {}
      BY <1>0, <1>2, <1>7, Alone DEF TruthInv, Truth, NoEarly
    <2>1. Works'
      BY <2>0 DEF Works
    <2>2. \A k \in Ids : told[k] # "nothing" => k # i /\ calls'[k] = calls[k]
      BY <1>0, <1>2, <1>3 DEF Books
    <2>3. alive => inTransaction' = ~auto
      <3>1. FlagInv'
        BY <1>0, FlagKeptByReturn
      <3> QED
        BY <1>3, <2>0, <3>1 DEF FlagInv, Agrees, NoEarly
    <2>4. calls[i].how \in {"async", "sync"} => calls[i].by = holder
      BY <1>0, <1>2, <2>0 DEF FlagInv, OneAtATime
    <2>5. \A k \in Ids : told[k] = "undone" => k \notin committed /\ k \notin pending
      BY <1>3, <2>0, UndoneIsGone DEF Told
    <2>6. ~EndAsked(i) =>
             \A k \in Ids : told[k] = "unit" =>
                /\ calls[k].by = holder /\ holder \in Clients
                /\ alive => unit[holder] # 0
                /\ k \notin committed /\ (alive => k \in pending)
      BY <2>0 DEF Told
    <2>7. CASE UV_AfterBeginTransaction(i)
      <3>1. /\ calls[i].kind = "begin" /\ told' = told
            /\ unit' = [unit EXCEPT ![calls[i].by] =
                           IF ReportedOk(i) THEN i ELSE @]
        BY <2>7 DEF UV_AfterBeginTransaction
      <3>2. /\ calls[i].how \in {"async", "sync"} /\ calls[i].by = holder
            /\ holder \in Clients /\ holder # Nobody
        BY <1>0, <1>2, <1>4, <2>4, <3>1, NobodyAssumption DEF FlagInv, Shape
      <3>3. /\ alive /\ ReportedOk(i) => ~auto
            /\ alive /\ ~ReportedOk(i) => (unit[holder] # 0 <=> ~auto)
        <4>1. alive /\ calls[i].ret = "error" => calls[i].how = "sync"
          BY <1>0, <1>2, <2>0, <3>1 DEF FlagInv, Agrees
        <4>2. calls[i].ret = "ok" => ~auto
          BY <1>0, <1>2, <1>3, <2>0, <3>1 DEF FlagInv, Agrees
        <4>3. alive /\ calls[i].ret = "error" => (unit[holder] # 0 <=> ~auto)
          BY <2>0, <3>1, <3>2 DEF Units
        <4> QED
          BY <1>0, <3>2, <4>1, <4>2, <4>3 DEF ReportedOk
      <3>4. unit'[holder] = IF ReportedOk(i) THEN i ELSE unit[holder]
        BY <1>0, <3>1, <3>2
      <3>5. \A c \in Clients : c # holder => unit'[c] = unit[c]
        BY <1>0, <3>1, <3>2
      <3>6. Units'
        BY <1>3, <1>4, <2>0, <3>2, <3>3, <3>4, <3>5 DEF Units
      <3>7. ~EndAsked(i)
        BY <3>1 DEF EndAsked
      <3>8. Told'
        BY <1>3, <1>4, <2>0, <2>2, <2>5, <2>6, <3>1, <3>3, <3>4, <3>7 DEF Told
      <3> QED
        BY <1>3, <2>0, <2>1, <3>6, <3>8
    <2>8. CASE UV_AfterEndTransaction(i)
      <3>1. /\ calls[i].kind \in {"commit", "rollback"}
            /\ inTransaction' = inTransaction /\ EndAsked(i)
        BY <1>3, <2>8 DEF UV_AfterEndTransaction, EndAsked
      <3>2. /\ pending = {}
            /\ calls[i].ret = "error" => calls[i].how = "sync"
        BY <1>2, <1>3, <2>0, <3>1 DEF Works
      <3>3. alive => auto
        BY <1>0, <1>2, <1>3, <2>0, <3>1 DEF FlagInv, Agrees
      <3>4. CASE calls[i].how \in {"async", "sync"}
        <4>1. /\ unit' = [unit EXCEPT ![calls[i].by] = 0]
              /\ UnitIs(calls[i].by, IF ~ReportedOk(i) THEN "unknown"
                                     ELSE IF calls[i].kind = "commit" THEN "committed"
                                     ELSE "undone")
          BY <2>8, <3>4 DEF UV_AfterEndTransaction
        <4>2. /\ calls[i].by = holder /\ holder \in Clients /\ holder # Nobody
          BY <1>4, <2>4, <3>4, NobodyAssumption
        <4>3. \A c \in Clients : unit'[c] = 0
          BY <1>0, <2>0, <4>1, <4>2 DEF Units
        <4>4. Units'
          BY <1>3, <2>0, <3>3, <4>2, <4>3 DEF Units
        <4>5. ReportedOk(i) => calls[i].ret = "ok"
          BY <1>0, <3>2, <3>4 DEF ReportedOk
        <4>6. ASSUME NEW k \in Ids
              PROVE  /\ told'[k] = "committed" => k \in committed
                     /\ told'[k] = "undone" => k \notin committed
                     /\ told'[k] # "unit"
          <5>1. CASE told[k] = "unit"
            <6>1. /\ calls[k].by = holder /\ k \in DOMAIN calls
                  /\ ReportedOk(i) => (k \in committed <=> calls[i].kind = "commit")
              BY <1>0, <1>2, <2>0, <3>1, <4>5, <5>1 DEF Told, Books
            <6>2. told'[k] = IF ~ReportedOk(i) THEN "unknown"
                             ELSE IF calls[i].kind = "commit" THEN "committed"
                             ELSE "undone"
              BY <4>1, <4>2, <5>1, <6>1 DEF UnitIs
            <6> QED
              BY <3>1, <6>1, <6>2
          <5>2. CASE told[k] # "unit"
            <6>1. told'[k] = told[k]
              BY <4>1, <5>2 DEF UnitIs
            <6> QED
              BY <2>0, <5>2, <6>1 DEF Told
          <5> QED
            BY <5>1, <5>2
        <4>7. Told'
          BY <1>3, <3>2, <4>6 DEF Told
        <4> QED
          BY <1>3, <2>0, <2>1, <4>4, <4>7
      <3>5. CASE calls[i].how \notin {"async", "sync"}
        <4>1. told' = told /\ unit' = unit
          BY <2>8, <3>5 DEF UV_AfterEndTransaction
        <4>2. holder = Nobody
          BY <1>0, <1>2, <2>0, <3>5 DEF FlagInv, OneAtATime, Shape
        <4>3. Units'
          BY <1>3, <2>0, <3>1, <4>1, <4>2 DEF Units
        <4>4. Told'
          BY <1>3, <2>0, <2>2, <2>5, <3>2, <4>1, <4>2, NobodyAssumption DEF Told
        <4> QED
          BY <1>3, <2>0, <2>1, <4>3, <4>4
      <3> QED
        BY <3>4, <3>5
    <2>9. CASE UV_AfterQuery(i)
      <3>1. /\ calls[i].kind = "write" /\ unit' = unit
            /\ inTransaction' = inTransaction
            /\ told' = [told EXCEPT ![i] = IF calls[i].ret = "error" THEN "unknown"
                                           ELSE IF calls[i].in = 0 THEN "committed"
                                           ELSE "unit"]
        BY <2>9 DEF UV_AfterQuery
      <3>2. ~EndAsked(i)
        BY <3>1 DEF EndAsked
      <3>3. /\ calls[i].by = holder /\ holder \in Clients
            /\ calls[i].in = unit[holder]
        BY <1>0, <1>2, <1>4, <2>0, <2>4, <3>1 DEF FlagInv, Shape, Works
      <3>4. calls[i].ret = "ok" =>
               IF unit[holder] = 0 THEN i \in committed
               ELSE i \notin committed /\ (alive => i \in pending)
        BY <1>2, <1>3, <2>0, <3>1, <3>3 DEF Works
      <3>5. Units'
        BY <1>3, <2>0, <3>1 DEF Units
      <3>6. told'[i] = IF calls[i].ret = "error" THEN "unknown"
                       ELSE IF unit[holder] = 0 THEN "committed" ELSE "unit"
        BY <1>0, <1>4, <3>1, <3>3
      <3>7. \A k \in Ids : k # i => told'[k] = told[k]
        BY <1>0, <3>1
      <3>8. ASSUME NEW k \in Ids
            PROVE  /\ told'[k] = "committed" => k \in committed
                   /\ told'[k] = "undone" => k \notin committed /\ k \notin pending
                   /\ told'[k] = "unit" =>
                         /\ calls'[k].by = holder /\ (alive => unit[holder] # 0)
                         /\ k \notin committed /\ (alive => k \in pending)
        <4>1. CASE k = i
          BY <1>0, <1>2, <3>1, <3>3, <3>4, <3>6, <4>1
        <4>2. CASE k # i
          BY <2>0, <2>2, <2>5, <2>6, <3>2, <3>7, <4>2 DEF Told
        <4> QED
          BY <4>1, <4>2
      <3>9. Told'
        BY <1>3, <2>0, <3>1, <3>3, <3>8 DEF Told
      <3> QED
        BY <1>3, <2>0, <2>1, <3>5, <3>9
    <2> QED
      BY <2>7, <2>8, <2>9 DEF After
  <1> QED
    BY <1>3, <1>6, <1>7 DEF Truth

LEMMA TruthKeptByLoss ==
    ASSUME TruthInv, TypeOK', ConnectionLost
    PROVE  Books' /\ Truth'
  <1>1. /\ UNCHANGED <<calls, committed, mishaps, holder, inTransaction, unit, told>>
        /\ pending' = {} /\ ~alive' /\ Waiting' = Waiting
    BY DEF ConnectionLost, Unchanged, Waiting, UnderWay
  <1>2. Books'
    BY <1>1 DEF TruthInv, Books
  <1>3. ASSUME mishaps = {} PROVE (Units /\ Works /\ Told /\ (alive => obeyed))'
    <2>1. Units /\ Works /\ Told
      BY <1>3 DEF TruthInv, Truth
    <2>2. \A j : EndAsked(j)' = EndAsked(j)
      BY <1>1 DEF EndAsked
    <2>3. Units' /\ Works'
      BY <1>1, <2>1, <2>2 DEF Units, Works
    <2>4. Told'
      BY <1>1, <2>1, <2>2 DEF Told
    <2> QED
      BY <1>1, <2>3, <2>4
  <1> QED
    BY <1>1, <1>2, <1>3 DEF Truth

LEMMA InitTruth == Init => TruthInv
  <1> SUFFICES ASSUME Init PROVE TruthInv
    OBVIOUS
  <1>1. Waiting = {}
    BY DEF Init, Waiting
  <1>2. Books /\ Works
    BY <1>1 DEF Init, Books, Works
  <1>3. Units
    BY <1>1, NobodyAssumption DEF Init, Units
  <1>4. Told
    BY <1>1 DEF Init, Told
  <1> QED
    BY <1>2, <1>3, <1>4, InitFlag DEF Init, TruthInv, Truth

LEMMA TruthKept == TruthInv /\ [Next]_vars => TruthInv'
  <1> SUFFICES ASSUME TruthInv, [Next]_vars PROVE TruthInv'
    OBVIOUS
  <1>1. FlagInv' /\ TypeOK'
    BY FlagKept DEF TruthInv, FlagInv
  <1>2. CASE UNCHANGED vars
    <2>1. Waiting' = Waiting
      BY <1>2 DEF vars, Waiting, UnderWay
    <2>2. \A j : EndAsked(j)' = EndAsked(j)
      BY <1>2 DEF vars, EndAsked
    <2>3. Books' = Books /\ Units' = Units
      BY <1>2, <2>1 DEF vars, Books, Units
    <2>4. Works' = Works
      BY <1>2, <2>1, <2>2 DEF vars, Works
    <2>5. Told' = Told
      BY <1>2, <2>1, <2>2 DEF vars, Told
    <2> QED
      BY <1>1, <1>2, <2>3, <2>4, <2>5 DEF vars, TruthInv, Truth
  <1>3. ASSUME NEW c \in Clients, Client(c) PROVE TruthInv'
    <2>1. CASE Take(c)
      BY <1>1, <2>1, TruthKeptByTake DEF TruthInv
    <2>2. ASSUME NEW h \in {"async", "sync"},
                 \/ BeginTransaction(c, h)
                 \/ \E k \in {"commit", "rollback"} : EndTransaction(c, k, h)
          PROVE  TruthInv'
      BY <1>1, <2>2, TruthKeptByHolder
         DEF TruthInv, BeginTransaction, EndTransaction, Kinds
    <2>3. CASE Query(c)
      BY <1>1, <2>3, TruthKeptByHolder DEF TruthInv, Query, Kinds
    <2>4. ASSUME NEW h \in {"close", "closeSync"}, PoolClose(c, h)
          PROVE  TruthInv'
      BY <1>1, <2>4, TruthKeptByClose DEF TruthInv
    <2> QED
      BY <1>3, <2>1, <2>2, <2>3, <2>4 DEF Client
  <1>4. ASSUME NEW i \in DOMAIN calls, Worker(i) PROVE TruthInv'
    <2>1. Books'
      BY <1>1, <1>4, BooksKeptByWork
    <2>2. mishaps' = {} => (Units /\ Works /\ Told /\ (alive => obeyed))'
      BY <1>4, TruthKeptByBegin, TruthKeptByEnd, TruthKeptByAutocommit,
         TruthKeptByQuery DEF Worker
    <2> QED
      BY <1>1, <2>1, <2>2 DEF TruthInv, Truth
  <1>5. ASSUME NEW i \in DOMAIN calls, After(i) PROVE TruthInv'
    BY <1>1, <1>5, TruthKeptByReturn DEF TruthInv
  <1>6. CASE ConnectionLost
    BY <1>1, <1>6, TruthKeptByLoss DEF TruthInv
  <1> QED
    BY <1>2, <1>3, <1>4, <1>5, <1>6 DEF Next

(* A client that has been told that its writes are committed, or undone,    *)
(* has been told the truth: whenever the connection is lost and whatever    *)
(* else fails, unless a connection is handed over while it is being rolled  *)
(* back, an error of the driver is swallowed or the driver refuses to turn  *)
(* autocommit on and so leaves a transaction open.                          *)
THEOREM ClientsAreToldTheTruth == Spec => []ToldIsTrue
  <1>1. TruthInv => ToldIsTrue
    BY DEF TruthInv, Truth, Told, ToldIsTrue
  <1> QED
    BY <1>1, InitTruth, TruthKept, PTL DEF Spec

=============================================================================
