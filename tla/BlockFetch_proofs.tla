-------------------------- MODULE BlockFetch_proofs --------------------------
(***************************************************************************)
(* What is proved about BlockFetch, for any calls, sizes of the block,     *)
(* result sets and styles.                                                 *)
(*                                                                         *)
(* Typed is the inductive strengthening of TypeOK: it adds that a row      *)
(* function that was given a row has a place in the block (Placed),        *)
(* without which AfterRow could read beside it.                            *)
(*                                                                         *)
(* InOrder is that of OnceInOrder, for an application that keeps to one    *)
(* style and waits for its calls (KeepsStyle): what calls have in hand and *)
(* what is left in the block comes after what the application has.         *)
(*                                                                         *)
(* NoneLost is NothingLost, row by row, and inductive with InOrder.        *)
(* Ending is the strengthening of EndIsEnd: where the driver is when       *)
(* something says that there are no more rows.                             *)
(***************************************************************************)
EXTENDS BlockFetch, SequenceTheorems, TLAPS

-----------------------------------------------------------------------------
(* Types. *)

(* A row function that found a row has its place in the block. *)
Placed ==
    \A c \in Calls : At(c, "after") /\ result[c] = "ok" => idx[c] \in 1 .. size

(* The types of what belongs to the calls, and of the rest. *)
CallsTyped ==
    /\ fn \in [Calls -> Functions \cup {"none"}]
    /\ count \in [Calls -> Counts \cup {0}]
    /\ stage \in [Calls -> Stages]
    /\ result \in [Calls -> {"ok", "nodata", "error"}]
    /\ idx \in [Calls -> 0 .. size]
    /\ rows \in [Calls -> Seq(RowNumbers)]
    /\ fifo \in Seq(Calls)

BlockTyped ==
    /\ pos \in RowNumbers
    /\ errors \in 0 .. MaxErrors
    /\ buffer \in [1 .. size -> RowNumbers]
    /\ valid \subseteq 1 .. size
    /\ fetched \in 0 .. size
    /\ current \in 0 .. size
    /\ exhausted \in BOOLEAN
    /\ handed \subseteq RowNumbers

SetTyped ==
    /\ size \in Sizes
    /\ style \subseteq Functions \cup {"moreResultsSync"}
    /\ set \in 1 .. Len(Ends)

AppTyped ==
    /\ out \in Seq(RowNumbers)
    /\ dropped \subseteq RowNumbers
    /\ ended \in BOOLEAN

Typed == CallsTyped /\ BlockTyped /\ SetTyped /\ AppTyped /\ Placed

LEMMA TypedIsTypeOK == Typed => TypeOK
  BY DEF TypeOK, Typed, CallsTyped, BlockTyped, AppTyped, SetTyped

LEMMA TypeOKIsTyped == TypeOK /\ Placed => Typed
  BY DEF TypeOK, Typed, CallsTyped, BlockTyped, AppTyped, SetTyped

LEMMA EndsAreRows ==
    ASSUME NEW s \in 1 .. Len(Ends), NEW n \in Nat, n <= Ends[s]
    PROVE  n \in RowNumbers
  <1>1. Len(Ends) \in Nat \ {0} /\ DOMAIN Ends = 1 .. Len(Ends)
    BY ConstantsAssumption
  <1>2. Ends[s] <= Ends[Len(Ends)] /\ Ends[s] \in Nat /\ Ends[Len(Ends)] \in Nat
    BY <1>1, ConstantsAssumption
  <1> QED
    BY <1>2 DEF RowNumbers

LEMMA TypedInit == Init => Typed
  <1> SUFFICES ASSUME Init PROVE Typed
    OBVIOUS
  <1>1. size \in Sizes /\ size \in Nat \ {0}
    BY ConstantsAssumption DEF Init
  <1>2. 0 \in RowNumbers /\ Len(Ends) \in Nat \ {0} /\ set \in 1 .. Len(Ends)
    <2>1. Len(Ends) \in Nat \ {0} /\ Ends[1] \in Nat
      BY ConstantsAssumption
    <2> QED
      BY <2>1, EndsAreRows DEF Init
  <1>9. 0 \in 0 .. size /\ <<>> \in Seq(RowNumbers)
    BY <1>1
  <1>11. MaxErrors \in Nat
    BY ConstantsAssumption
  <1>4. style \subseteq Functions \cup {"moreResultsSync"}
    BY ConstantsAssumption DEF Init
  <1>5. /\ pos \in RowNumbers /\ errors \in 0 .. MaxErrors
        /\ buffer \in [1 .. size -> RowNumbers]
        /\ valid \subseteq 1 .. size
        /\ fetched \in 0 .. size /\ current \in 0 .. size
        /\ exhausted \in BOOLEAN
        /\ dropped \subseteq RowNumbers
        /\ handed \subseteq RowNumbers
        /\ ended \in BOOLEAN
    <2>1. buffer = [i \in 1 .. size |-> 0]
      BY DEF Init
    <2>2. buffer \in [1 .. size -> RowNumbers]
      BY <1>2, <2>1
    <2>3. pos = 0 /\ errors = 0 /\ fetched = 0 /\ current = 0
      BY DEF Init
    <2>4. valid = {} /\ dropped = {} /\ handed = {} /\ exhausted = FALSE /\ ended = FALSE
      BY DEF Init
    <2>5. errors \in 0 .. MaxErrors
      BY <1>11, <2>3
    <2> QED
      BY <1>2, <1>9, <2>2, <2>3, <2>4, <2>5
  <1>6. fifo \in Seq(Calls) /\ out \in Seq(RowNumbers)
    BY DEF Init
  <1>7. /\ fn \in [Calls -> Functions \cup {"none"}]
        /\ count \in [Calls -> Counts \cup {0}]
        /\ stage \in [Calls -> Stages]
        /\ result \in [Calls -> {"ok", "nodata", "error"}]
    BY DEF Init, Stages
  <1>10. idx \in [Calls -> 0 .. size] /\ rows \in [Calls -> Seq(RowNumbers)]
    BY <1>9 DEF Init
  <1>8. Placed
    BY DEF Init, Placed, At
  <1> QED
    BY <1>1, <1>2, <1>4, <1>5, <1>6, <1>7, <1>8, <1>10, TypeOKIsTyped DEF TypeOK

(* What SQLFetch does to the block. *)
LEMMA TypedRows ==
    ASSUME TypeOK, NEW good \in SUBSET (1 .. size), FetchRows(good)
    PROVE  /\ set' = set /\ pos' \in RowNumbers /\ errors' = errors
           /\ buffer' \in [1 .. size -> RowNumbers]
           /\ valid' \subseteq 1 .. size
           /\ fetched' \in 1 .. size
           /\ handed' \subseteq RowNumbers
           /\ pos' = pos + fetched' /\ pos' <= Ends[set]
  <1>1. /\ size \in Nat \ {0} /\ pos \in Nat
        /\ set \in 1 .. Len(Ends)
        /\ Ends[set] \in Nat
    <2>1. size \in Nat \ {0} /\ set \in 1 .. Len(Ends)
      BY ConstantsAssumption DEF TypeOK
    <2> QED
      BY <2>1, ConstantsAssumption DEF TypeOK, RowNumbers
  <1>2. fetched' \in 1 .. size /\ pos + fetched' <= Ends[set]
    <2>1. fetched' = IF size <= Ends[set] - pos THEN size ELSE Ends[set] - pos
      BY DEF FetchRows
    <2>2. pos < Ends[set]
      BY DEF FetchRows
    <2> QED
      BY <1>1, <2>1, <2>2
  <1>3. \A i \in 1 .. fetched' : pos + i \in RowNumbers
    <2> TAKE i \in 1 .. fetched'
    <2>1. pos + i \in Nat /\ pos + i <= Ends[set]
      BY <1>1, <1>2
    <2> QED
      BY <1>1, <2>1, EndsAreRows
  <1>4. pos' = pos + fetched' /\ pos' \in RowNumbers
    BY <1>2, <1>3 DEF FetchRows
  <1>5. buffer' \in [1 .. size -> RowNumbers]
    <2>1. buffer \in [1 .. size -> RowNumbers]
      BY DEF TypeOK
    <2>2. buffer' = [i \in 1 .. size |->
                        IF i <= fetched' THEN pos + i ELSE buffer[i]]
      BY DEF FetchRows
    <2>3. \A i \in 1 .. size : i <= fetched' => i \in 1 .. fetched'
      BY <1>1, <1>2
    <2> QED
      BY <1>3, <2>1, <2>2, <2>3
  <1>6. handed' \subseteq RowNumbers
    <2>1. good \subseteq 1 .. fetched' /\ handed' = handed \cup {pos + i : i \in good}
      BY DEF FetchRows
    <2> QED
      BY <1>3, <2>1 DEF TypeOK
  <1>7. set' = set /\ errors' = errors /\ valid' \subseteq 1 .. size
    BY DEF FetchRows
  <1> QED
    BY <1>2, <1>4, <1>5, <1>6, <1>7

LEMMA TypedNoData ==
    ASSUME TypeOK, FetchNoData
    PROVE  /\ set' = set /\ pos' = pos /\ errors' = errors
           /\ handed' = handed /\ buffer' = buffer /\ valid' = valid
           /\ fetched' = 0
  BY DEF FetchNoData, driver

LEMMA TypedError ==
    ASSUME TypeOK, FetchError
    PROVE  /\ set' = set /\ pos' = pos /\ errors' \in 0 .. MaxErrors
           /\ handed' = handed /\ buffer' = buffer /\ valid' = valid
           /\ fetched' = 0
  BY ConstantsAssumption DEF FetchError, TypeOK

LEMMA SizeIsPositive == TypeOK => size \in Nat \ {0}
  BY ConstantsAssumption DEF TypeOK

LEMMA TypedFetched ==
    ASSUME Typed, UNCHANGED <<size, fifo>>, NEW c \in Calls,
           NEW r \in {"ok", "nodata", "error"}, NEW i \in 0 .. size,
           NEW s \in {"work", "after", "copy"},
           s = "after" /\ r = "ok" => i # 0,
           Fetched(c, r, i, s)
    PROVE  CallsTyped' /\ Placed'
  <1>1. CallsTyped' /\ RowNumbers' = RowNumbers
    BY DEF CallsTyped, Fetched, Typed, BlockTyped, AppTyped, SetTyped, Stages, RowNumbers
  <1>2. size \in Nat
    BY SizeIsPositive, TypedIsTypeOK
  <1>3. Placed'
    BY <1>2 DEF Placed, Typed, CallsTyped, BlockTyped, AppTyped, SetTyped, At, Fetched
  <1> QED
    BY <1>1, <1>3

LEMMA TypedFinish ==
    ASSUME Typed, UNCHANGED <<size, rows>>, NEW c \in Calls, Finish(c)
    PROVE  CallsTyped' /\ Placed'
  <1>1. fifo # <<>> => Head(fifo) \in Calls /\ Tail(fifo) \in Seq(Calls)
    BY DEF Typed, CallsTyped, BlockTyped, AppTyped, SetTyped
  <1>2. CallsTyped'
    BY <1>1 DEF Finish, Typed, CallsTyped, BlockTyped, AppTyped, SetTyped, Stages, RowNumbers
  <1>3. Placed'
    BY <1>1 DEF Finish, Typed, CallsTyped, BlockTyped, AppTyped, SetTyped, Placed, At
  <1> QED
    BY <1>2, <1>3

LEMMA TypedAnswer ==
    ASSUME Typed, size' = size, NEW c \in Calls,
           NEW data \in Seq(RowNumbers), NEW end \in BOOLEAN,
           Answer(c, data, end)
    PROVE  CallsTyped' /\ Placed' /\ AppTyped'
  <1>1. CallsTyped' /\ Placed'
    BY TypedFinish DEF Answer
  <1>2. out' \in Seq(RowNumbers)
    BY ConcatProperties DEF Answer, Typed, CallsTyped, BlockTyped, AppTyped, SetTyped
  <1>3. AppTyped'
    BY <1>2 DEF Answer, Typed, CallsTyped, BlockTyped, AppTyped, SetTyped, RowNumbers
  <1> QED
    BY <1>1, <1>3

(* A fetch without rows leaves the block typed. *)
LEMMA TypedNoRows ==
    ASSUME Typed, size' = size, FetchNoData \/ FetchError,
           current' = 0 \/ current' = current,
           exhausted' \in BOOLEAN
    PROVE  BlockTyped' /\ set' = set
  <1>1. size \in Nat \ {0} /\ TypeOK /\ RowNumbers' = RowNumbers
    BY SizeIsPositive, TypedIsTypeOK DEF RowNumbers
  <1>2. /\ set' = set /\ pos' = pos /\ errors' \in 0 .. MaxErrors
        /\ handed' = handed /\ buffer' = buffer /\ valid' = valid
        /\ fetched' = 0
    <2>1. CASE FetchNoData
      BY <1>1, <2>1, TypedNoData DEF TypeOK
    <2>2. CASE FetchError
      BY <1>1, <2>2, TypedError
    <2> QED
      BY <2>1, <2>2
  <1>3. 0 \in 0 .. size /\ fetched' \in 0 .. size
    BY <1>1, <1>2
  <1>4. current' \in 0 .. size
    BY <1>3 DEF Typed, BlockTyped
  <1> QED
    BY <1>1, <1>2, <1>3, <1>4 DEF Typed, BlockTyped

LEMMA TypedOthers ==
    ASSUME Typed, OthersUnchanged
    PROVE  BlockTyped' /\ SetTyped' /\ size' = size
  BY DEF OthersUnchanged, driver, block, Typed, CallsTyped, BlockTyped, AppTyped, SetTyped, RowNumbers

LEMMA TypedNext == Typed /\ [Next]_vars => Typed'
  <1> SUFFICES ASSUME Typed, [Next]_vars PROVE Typed'
    OBVIOUS
  <1>0. size \in Nat \ {0} /\ TypeOK /\ RowNumbers' = RowNumbers
    BY SizeIsPositive, TypedIsTypeOK DEF RowNumbers
  <1>1. ASSUME NEW c \in Calls, NEW f \in Functions, NEW n \in Counts \cup {0},
               Calling(c, f, n)
        PROVE  Typed'
    <2>1. CallsTyped'
      <3>1. fifo' \in Seq(Calls)
        <4>1. fifo \in Seq(Calls)
          BY DEF Typed, CallsTyped
        <4>2. Append(fifo, c) \in Seq(Calls)
          BY <4>1, AppendProperties
        <4>3. fifo' = fifo \/ fifo' = Append(fifo, c)
          BY <1>1 DEF Calling
        <4> QED
          BY <4>1, <4>2, <4>3
      <3>2. stage' \in [Calls -> Stages]
        BY <1>1 DEF Calling, Typed, CallsTyped, Stages
      <3>3. fn' \in [Calls -> Functions \cup {"none"}]
        BY <1>1 DEF Calling, Typed, CallsTyped
      <3>4. count' \in [Calls -> Counts \cup {0}]
        BY <1>1 DEF Calling, Typed, CallsTyped
      <3>5. UNCHANGED <<size, result, idx, rows>>
        BY <1>1 DEF Calling
      <3> QED
        BY <1>0, <3>1, <3>2, <3>3, <3>4, <3>5 DEF Typed, CallsTyped
    <2>2. Placed'
      BY <1>1 DEF Calling, Placed, Typed, CallsTyped, BlockTyped, AppTyped, SetTyped, At
    <2>3. BlockTyped' /\ SetTyped' /\ AppTyped'
      BY <1>0, <1>1 DEF Calling, driver, block, Typed, BlockTyped, SetTyped, AppTyped
    <2> QED
      BY <2>1, <2>2, <2>3 DEF Typed
  <1>2. CASE MoreResultsSync
    <2>1. set' \in 1 .. Len(Ends) /\ pos' \in RowNumbers
      <3>1. set \in 1 .. Len(Ends) /\ Ends[set] \in Nat /\ Len(Ends) \in Nat
        BY <1>0, ConstantsAssumption DEF TypeOK
      <3> QED
        BY <1>2, <3>1, EndsAreRows DEF MoreResultsSync
    <2>2. CallsTyped' /\ Placed'
      BY <1>0, <1>2 DEF MoreResultsSync, calls, Placed, At, Typed, CallsTyped
    <2>3. BlockTyped' /\ SetTyped' /\ AppTyped'
      BY <1>0, <1>2, <2>1 DEF MoreResultsSync, block, Typed, BlockTyped, SetTyped, AppTyped
    <2> QED
      BY <2>2, <2>3 DEF Typed
  <1>3. ASSUME NEW c \in Calls, FetchBlock(c) PROVE Typed'
    <2>1. AppTyped' /\ UNCHANGED <<size, fifo>>
      BY <1>0, <1>3 DEF FetchBlock, AppTyped, Typed
    <2>2. CallsTyped' /\ Placed'
      <3>1. CASE Fetched(c, "nodata", 0, "after")
        BY <1>0, <2>1, <3>1, TypedFetched
      <3>2. CASE Fetched(c, "ok", 0, "copy")
        BY <1>0, <2>1, <3>2, TypedFetched
      <3>3. CASE Fetched(c, "error", 0, "after")
        BY <1>0, <2>1, <3>3, TypedFetched
      <3> QED
        BY <1>3, <3>1, <3>2, <3>3 DEF FetchBlock
    <2>3. BlockTyped' /\ set' = set
      <3>1. CASE NotFetching
        BY <1>0, <2>1, <3>1 DEF NotFetching, driver, block, BlockTyped, Typed
      <3>2. CASE /\ current' = 0 /\ exhausted' = exhausted
                 /\ \E good \in SUBSET (1 .. size) : FetchRows(good)
        BY <1>0, <2>1, <3>2, TypedRows DEF BlockTyped, Typed
      <3>3. CASE current' = 0 /\ exhausted' = ~Single /\ FetchNoData
        BY <1>0, <2>1, <3>3, TypedNoRows DEF Typed, BlockTyped, Single
      <3>4. CASE current' = 0 /\ exhausted' = exhausted /\ FetchError
        BY <1>0, <2>1, <3>4, TypedNoRows DEF Typed, BlockTyped, Single
      <3> QED
        BY <1>3, <3>1, <3>2, <3>3, <3>4 DEF FetchBlock
    <2>4. SetTyped'
      BY <1>0, <1>3, <2>3 DEF FetchBlock, SetTyped, Typed
    <2> QED
      BY <2>1, <2>2, <2>3, <2>4 DEF Typed
  <1>4. ASSUME NEW c \in Calls, FetchWhole(c) PROVE Typed'
    <2>1. AppTyped' /\ UNCHANGED <<size, fifo>>
      BY <1>0, <1>4 DEF FetchWhole, AppTyped, Typed
    <2>2. CallsTyped' /\ Placed'
      <3>1. CASE Fetched(c, "nodata", 0, "after")
        BY <1>0, <2>1, <3>1, TypedFetched
      <3>2. CASE Fetched(c, "ok", 0, "copy")
        BY <1>0, <2>1, <3>2, TypedFetched
      <3>3. CASE Fetched(c, "error", 0, "after")
        BY <1>0, <2>1, <3>3, TypedFetched
      <3> QED
        BY <1>4, <3>1, <3>2, <3>3 DEF FetchWhole
    <2>3. BlockTyped' /\ set' = set
      <3>1. UNCHANGED <<current, exhausted>>
        BY <1>4 DEF FetchWhole
      <3>2. CASE \E good \in SUBSET (1 .. size) : FetchRows(good)
        BY <1>0, <2>1, <3>1, <3>2, TypedRows DEF BlockTyped, Typed
      <3>3. CASE FetchNoData
        BY <1>0, <2>1, <3>1, <3>3, TypedNoRows DEF Typed, BlockTyped, Single
      <3>4. CASE FetchError
        BY <1>0, <2>1, <3>1, <3>4, TypedNoRows DEF Typed, BlockTyped, Single
      <3> QED
        BY <1>4, <3>2, <3>3, <3>4 DEF FetchWhole
    <2>4. SetTyped'
      BY <1>0, <1>4, <2>3 DEF FetchWhole, SetTyped, Typed
    <2> QED
      BY <2>1, <2>2, <2>3, <2>4 DEF Typed
  <1>5. ASSUME NEW c \in Calls, TakeRow(c) PROVE Typed'
    <2>1. AppTyped' /\ SetTyped' /\ UNCHANGED <<size, fifo>>
      BY <1>0, <1>5 DEF TakeRow, AppTyped, SetTyped, Typed, driver
    <2>2. PICK i \in 1 .. size : current' = i /\ Fetched(c, "ok", i, "after")
      BY <1>0, <1>5 DEF TakeRow, First, Left, TypeOK
    <2>3. CallsTyped' /\ Placed'
      BY <1>0, <2>1, <2>2, TypedFetched
    <2>4. BlockTyped'
      BY <1>0, <1>5, <2>1, <2>2 DEF TakeRow, driver, block, BlockTyped, Typed
    <2> QED
      BY <2>1, <2>3, <2>4 DEF Typed
  <1>6. ASSUME NEW c \in Calls, Refill(c) PROVE Typed'
    <2>1. AppTyped' /\ UNCHANGED <<size, fifo>>
      BY <1>0, <1>6 DEF Refill, AppTyped, Typed
    <2>2. CASE /\ \E good \in SUBSET (1 .. size) : FetchRows(good)
               /\ exhausted' = exhausted
               /\ valid' = {} /\ current' = fetched' /\ UNCHANGED calls
      <3>1. CallsTyped' /\ Placed'
        BY <1>0, <2>1, <2>2 DEF calls, Placed, At, Typed, CallsTyped
      <3>2. BlockTyped' /\ set' = set
        BY <1>0, <2>1, <2>2, TypedRows DEF BlockTyped, Typed
      <3>3. SetTyped'
        BY <1>0, <1>6, <3>2 DEF Refill, SetTyped, Typed
      <3> QED
        BY <2>1, <3>1, <3>2, <3>3 DEF Typed
    <2>3. CASE /\ \E good \in SUBSET (1 .. size) : FetchRows(good)
               /\ exhausted' = exhausted
               /\ \E i \in First(valid') :
                     current' = i /\ Fetched(c, "ok", i, "after")
      <3>0. valid' \subseteq 1 .. size
        BY <1>0, <2>3, TypedRows
      <3>1. PICK i \in 1 .. size : current' = i /\ Fetched(c, "ok", i, "after")
        BY <2>3, <3>0 DEF First
      <3>2. CallsTyped' /\ Placed'
        BY <1>0, <2>1, <3>1, TypedFetched
      <3>3. BlockTyped' /\ set' = set
        BY <1>0, <2>1, <2>3, <3>1, TypedRows DEF BlockTyped, Typed
      <3>4. SetTyped'
        BY <1>0, <1>6, <3>3 DEF Refill, SetTyped, Typed
      <3> QED
        BY <2>1, <3>2, <3>3, <3>4 DEF Typed
    <2>4. CASE /\ FetchNoData /\ current' = 0 /\ exhausted' = TRUE
               /\ Fetched(c, "nodata", 0, "after")
      <3>1. CallsTyped' /\ Placed'
        BY <1>0, <2>1, <2>4, TypedFetched
      <3>2. BlockTyped' /\ set' = set
        BY <1>0, <2>1, <2>4, TypedNoRows DEF Typed, BlockTyped, Single
      <3>3. SetTyped'
        BY <1>0, <1>6, <3>2 DEF Refill, SetTyped, Typed
      <3> QED
        BY <2>1, <3>1, <3>2, <3>3 DEF Typed
    <2>5. CASE /\ FetchError /\ current' = 0 /\ exhausted' = exhausted
               /\ Fetched(c, "error", 0, "after")
      <3>1. CallsTyped' /\ Placed'
        BY <1>0, <2>1, <2>5, TypedFetched
      <3>2. BlockTyped' /\ set' = set
        BY <1>0, <2>1, <2>5, TypedNoRows DEF Typed, BlockTyped, Single
      <3>3. SetTyped'
        BY <1>0, <1>6, <3>2 DEF Refill, SetTyped, Typed
      <3> QED
        BY <2>1, <3>1, <3>2, <3>3 DEF Typed
    <2> QED
      BY <1>6, <2>2, <2>3, <2>4, <2>5 DEF Refill
  <1>7. ASSUME NEW c \in Calls, FindsExhausted(c) PROVE Typed'
    <2>1. AppTyped' /\ SetTyped' /\ BlockTyped' /\ UNCHANGED <<size, fifo>>
      BY <1>0, <1>7 DEF FindsExhausted, NotFetching, AppTyped, SetTyped, BlockTyped, Typed, driver, block
    <2>2. CallsTyped' /\ Placed'
      BY <1>0, <1>7, <2>1, TypedFetched DEF FindsExhausted
    <2> QED
      BY <2>1, <2>2 DEF Typed
  <1>8. ASSUME NEW c \in Calls, FetchOneRow(c) PROVE Typed'
    <2>1. AppTyped' /\ UNCHANGED <<size, fifo>>
      BY <1>0, <1>8 DEF FetchOneRow, AppTyped, Typed
    <2>2. CallsTyped' /\ Placed'
      <3>1. CASE Fetched(c, "nodata", 0, "after")
        BY <1>0, <2>1, <3>1, TypedFetched
      <3>2. CASE Fetched(c, "ok", 1, "after")
        BY <1>0, <2>1, <3>2, TypedFetched
      <3>3. CASE Fetched(c, "error", 0, "after")
        BY <1>0, <2>1, <3>3, TypedFetched
      <3> QED
        BY <1>8, <3>1, <3>2, <3>3 DEF FetchOneRow
    <2>3. BlockTyped' /\ set' = set
      <3>1. UNCHANGED <<current, exhausted>>
        BY <1>8 DEF FetchOneRow
      <3>2. CASE FetchRows({1})
        BY <1>0, <2>1, <3>1, <3>2, TypedRows DEF BlockTyped, Typed
      <3>3. CASE FetchNoData
        BY <1>0, <2>1, <3>1, <3>3, TypedNoRows DEF Typed, BlockTyped, Single
      <3>4. CASE FetchError
        BY <1>0, <2>1, <3>1, <3>4, TypedNoRows DEF Typed, BlockTyped, Single
      <3> QED
        BY <1>8, <3>2, <3>3, <3>4 DEF FetchOneRow
    <2>4. SetTyped'
      BY <1>0, <1>8, <2>3 DEF FetchOneRow, SetTyped, Typed
    <2> QED
      BY <2>1, <2>2, <2>3, <2>4 DEF Typed
  <1>9. ASSUME NEW c \in Calls, CopyRow(c) PROVE Typed'
    <2>1. BlockTyped' /\ SetTyped' /\ size' = size
      BY <1>9, TypedOthers DEF CopyRow
    <2>2. AppTyped' /\ fifo' = fifo
      BY <1>0, <1>9 DEF CopyRow, NotAnswered, AppTyped, Typed
    <2>3. idx'[c] = idx[c] + 1 /\ idx'[c] \in 1 .. size
          /\ idx' \in [Calls -> 0 .. size]
      BY <1>0, <1>9 DEF CopyRow, TypeOK
    <2>4. rows' \in [Calls -> Seq(RowNumbers)]
      <3>1. Append(rows[c], buffer[idx'[c]]) \in Seq(RowNumbers)
        BY <1>0, <2>3, AppendProperties DEF TypeOK
      <3> QED
        BY <1>0, <1>9, <3>1 DEF CopyRow, TypeOK
    <2>5. CallsTyped'
      BY <1>0, <1>9, <2>1, <2>2, <2>3, <2>4
      DEF CopyRow, NotAnswered, CallsTyped, Stages, Typed
    <2>6. Placed'
      BY <1>0, <1>9, <2>1, <2>3 DEF CopyRow, NotAnswered, Typed, CallsTyped, BlockTyped, AppTyped, SetTyped, Placed, At
    <2> QED
      BY <2>1, <2>2, <2>5, <2>6 DEF Typed
  <1>10. ASSUME NEW c \in Calls, WholeCopied(c) PROVE Typed'
    <2>1. BlockTyped' /\ SetTyped' /\ size' = size
      BY <1>10, TypedOthers DEF WholeCopied
    <2>2. AppTyped' /\ CallsTyped'
      BY <1>0, <1>10, <2>1 DEF WholeCopied, NotAnswered, AppTyped, CallsTyped, Stages, Typed
    <2>3. Placed'
      BY <1>0, <1>10, <2>1 DEF WholeCopied, NotAnswered, Typed, CallsTyped, BlockTyped, AppTyped, SetTyped, Placed, At
    <2> QED
      BY <2>1, <2>2, <2>3 DEF Typed
  <1>11. ASSUME NEW c \in Calls, BlockCopied(c) PROVE Typed'
    <2>1. BlockTyped' /\ SetTyped' /\ size' = size
      BY <1>11, TypedOthers DEF BlockCopied
    <2>2. rows[c] \in Seq(RowNumbers)
      BY <1>0 DEF TypeOK
    <2> QED
      BY <1>11, <2>1, <2>2, TypedAnswer DEF BlockCopied, Typed
  <1>12. ASSUME NEW c \in Calls, AfterRow(c) PROVE Typed'
    <2> DEFINE data == Append(rows[c], buffer[idx[c]])
    <2>1. BlockTyped' /\ SetTyped' /\ size' = size
      BY <1>12, TypedOthers DEF AfterRow
    <2>2. idx[c] \in 1 .. size
      BY <1>12 DEF AfterRow, OnJS, Typed, Placed
    <2>3. data \in Seq(RowNumbers)
      BY <1>0, <2>2, AppendProperties DEF TypeOK
    <2>4. CASE Answer(c, data, FALSE)
      BY <2>1, <2>3, <2>4, TypedAnswer DEF Typed
    <2>5. CASE /\ rows' = [rows EXCEPT ![c] = data]
               /\ NotAnswered(c, "work") /\ UNCHANGED idx
      <3>1. AppTyped'
        BY <1>0, <2>5 DEF NotAnswered, AppTyped, Typed
      <3>2. rows' \in [Calls -> Seq(RowNumbers)]
        BY <1>0, <2>3, <2>5 DEF TypeOK
      <3>3. CallsTyped'
        BY <1>0, <2>1, <2>5, <3>2 DEF NotAnswered, CallsTyped, Stages, Typed
      <3>4. Placed'
        BY <1>0, <2>1, <2>5 DEF NotAnswered, Typed, CallsTyped, BlockTyped, AppTyped, SetTyped, Placed, At
      <3> QED
        BY <2>1, <3>1, <3>3, <3>4 DEF Typed
    <2> QED
      BY <1>12, <2>4, <2>5 DEF AfterRow
  <1>13. ASSUME NEW c \in Calls, AfterNoData(c) PROVE Typed'
    <2>1. BlockTyped' /\ SetTyped' /\ size' = size
      BY <1>13, TypedOthers DEF AfterNoData
    <2>2. rows[c] \in Seq(RowNumbers)
      BY <1>0 DEF TypeOK
    <2> QED
      BY <1>13, <2>1, <2>2, TypedAnswer DEF AfterNoData, Typed
  <1>14. ASSUME NEW c \in Calls, AfterError(c) PROVE Typed'
    <2>1. BlockTyped' /\ SetTyped' /\ size' = size
      BY <1>14, TypedOthers DEF AfterError
    <2>2. CallsTyped' /\ Placed'
      BY <1>14, <2>1, TypedFinish DEF AfterError
    <2>3. {rows[c][i] : i \in DOMAIN rows[c]} \subseteq RowNumbers
      <3>1. rows[c] \in Seq(RowNumbers)
        BY <1>0 DEF TypeOK
      <3>2. \A i \in DOMAIN rows[c] : rows[c][i] \in RowNumbers
        BY <3>1
      <3> QED
        BY <3>2
    <2>4. AppTyped'
      BY <1>0, <1>14, <2>3 DEF AfterError, AppTyped, Typed
    <2> QED
      BY <2>1, <2>2, <2>4 DEF Typed
  <1>15. CASE UNCHANGED vars
    BY <1>0, <1>15 DEF vars, driver, block, calls, Typed, CallsTyped, BlockTyped, SetTyped, AppTyped, Placed, At
  <1> QED
    BY <1>1, <1>2, <1>3, <1>4, <1>5, <1>6, <1>7, <1>8, <1>9, <1>10, <1>11,
       <1>12, <1>13, <1>14, <1>15 DEF Next, Works

(* The variables keep their types: no row is read beside the block, and the *)
(* counters of the block stay within it, however the calls interleave       *)
(* (odbc_result.cpp, all of the row delivery).                              *)
THEOREM TypeCorrect == Spec => []TypeOK
  <1>1. Init => Typed
    BY TypedInit
  <1>2. Typed /\ [Next]_vars => Typed'
    BY TypedNext
  <1>3. Typed => TypeOK
    BY TypedIsTypeOK
  <1> QED
    BY <1>1, <1>2, <1>3, PTL DEF Spec

-----------------------------------------------------------------------------
(* Rows in order. *)

Rising(s) == \A i, j \in DOMAIN s : i < j => s[i] < s[j]

Below(s, n) == \A i \in DOMAIN s : s[i] < n

Precedes(s, t) == \A i \in DOMAIN s, j \in DOMAIN t : s[i] < t[j]

LEMMA NoRows ==
    ASSUME NEW s, NEW n
    PROVE  Rising(<<>>) /\ Below(<<>>, n) /\ Precedes(s, <<>>)
  BY DEF Rising, Below, Precedes

LEMMA BelowMore ==
    ASSUME NEW s \in Seq(Nat), NEW m \in Nat, NEW n \in Nat, m <= n, Below(s, m)
    PROVE  Below(s, n)
  <1>1. \A i \in DOMAIN s : s[i] \in Nat
    OBVIOUS
  <1> QED
    BY <1>1 DEF Below

(* One more row, and larger than those before it. *)
LEMMA AppendInOrder ==
    ASSUME NEW s \in Seq(Nat), NEW t \in Seq(Nat), NEW x \in Nat,
           Rising(s), Precedes(t, s), Below(s, x), Below(t, x)
    PROVE  /\ Append(s, x) \in Seq(Nat)
           /\ Rising(Append(s, x))
           /\ Precedes(t, Append(s, x))
           /\ \A n \in Nat : x < n => Below(Append(s, x), n)
  <1> DEFINE a == Append(s, x)
  <1>1. /\ a \in Seq(Nat) /\ Len(s) \in Nat
        /\ DOMAIN s = 1 .. Len(s) /\ DOMAIN a = 1 .. Len(s) + 1
        /\ \A i \in DOMAIN s : s[i] \in Nat
        /\ \A i \in DOMAIN t : t[i] \in Nat
    BY AppendProperties
  <1>2. /\ \A i \in 1 .. Len(s) : a[i] = s[i]
        /\ a[Len(s) + 1] = x
    BY AppendProperties
  <1> HIDE DEF a
  <1>3. \A i \in 1 .. Len(s) + 1 : i \in 1 .. Len(s) \/ i = Len(s) + 1
    BY <1>1
  <1>4. Rising(a)
    <2> SUFFICES ASSUME NEW i \in 1 .. Len(s) + 1, NEW j \in 1 .. Len(s) + 1, i < j
                 PROVE  a[i] < a[j]
      BY <1>1 DEF Rising
    <2>1. i \in 1 .. Len(s)
      BY <1>1
    <2>2. CASE j \in 1 .. Len(s)
      BY <1>1, <1>2, <2>1, <2>2 DEF Rising
    <2>3. CASE j = Len(s) + 1
      BY <1>1, <1>2, <2>1, <2>3 DEF Below
    <2> QED
      BY <1>3, <2>2, <2>3
  <1>5. Precedes(t, a)
    BY <1>1, <1>2, <1>3 DEF Precedes, Below
  <1>6. \A n \in Nat : x < n => Below(a, n)
    <2> SUFFICES ASSUME NEW n \in Nat, x < n, NEW i \in 1 .. Len(s) + 1
                 PROVE  a[i] < n
      BY <1>1 DEF Below
    <2>1. CASE i \in 1 .. Len(s)
      <3>1. a[i] = s[i] /\ s[i] \in Nat /\ s[i] < x
        BY <1>1, <1>2, <2>1 DEF Below
      <3> QED
        BY <3>1
    <2>2. CASE i = Len(s) + 1
      BY <1>2, <2>2
    <2> QED
      BY <1>3, <2>1, <2>2
  <1> QED
    BY <1>1, <1>4, <1>5, <1>6 DEF a

(* The rows of a call after those the application has. *)
LEMMA ConcatInOrder ==
    ASSUME NEW s \in Seq(Nat), NEW t \in Seq(Nat),
           Rising(s), Rising(t), Precedes(s, t)
    PROVE  /\ s \o t \in Seq(Nat)
           /\ Rising(s \o t)
           /\ \A n \in Nat : Below(s, n) /\ Below(t, n) => Below(s \o t, n)
  <1> DEFINE a == s \o t
  <1>1. /\ a \in Seq(Nat) /\ Len(s) \in Nat /\ Len(t) \in Nat
        /\ DOMAIN s = 1 .. Len(s) /\ DOMAIN t = 1 .. Len(t)
        /\ DOMAIN a = 1 .. Len(s) + Len(t)
        /\ \A i \in 1 .. Len(s) : s[i] \in Nat
        /\ \A i \in 1 .. Len(t) : t[i] \in Nat
    BY ConcatProperties
  <1>2. /\ \A i \in 1 .. Len(s) : a[i] = s[i]
        /\ \A i \in 1 .. Len(s) + Len(t) : i > Len(s) => a[i] = t[i - Len(s)]
    BY ConcatProperties
  <1> HIDE DEF a
  <1>3. \A i \in 1 .. Len(s) + Len(t) :
           \/ i \in 1 .. Len(s)
           \/ i > Len(s) /\ i - Len(s) \in 1 .. Len(t)
    BY <1>1
  <1>4. Rising(a)
    <2> SUFFICES ASSUME NEW i \in 1 .. Len(s) + Len(t),
                        NEW j \in 1 .. Len(s) + Len(t), i < j
                 PROVE  a[i] < a[j]
      BY <1>1 DEF Rising
    <2>1. CASE j \in 1 .. Len(s)
      <3>1. i \in 1 .. Len(s)
        BY <1>1, <2>1
      <3> QED
        BY <1>1, <1>2, <2>1, <3>1 DEF Rising
    <2>2. CASE i \in 1 .. Len(s) /\ j > Len(s) /\ j - Len(s) \in 1 .. Len(t)
      BY <1>1, <1>2, <2>2 DEF Precedes
    <2>3. CASE i > Len(s) /\ i - Len(s) \in 1 .. Len(t)
      <3>1. j > Len(s) /\ j - Len(s) \in 1 .. Len(t)
        BY <1>1, <2>3
      <3>2. a[i] = t[i - Len(s)] /\ a[j] = t[j - Len(s)]
        BY <1>2, <2>3, <3>1
      <3>3. i - Len(s) < j - Len(s)
        BY <1>1
      <3> QED
        BY <1>1, <2>3, <3>1, <3>2, <3>3 DEF Rising
    <2> QED
      BY <1>3, <2>1, <2>2, <2>3
  <1>5. \A n \in Nat : Below(s, n) /\ Below(t, n) => Below(a, n)
    BY <1>1, <1>2, <1>3 DEF Below
  <1> QED
    BY <1>1, <1>4, <1>5 DEF a

-----------------------------------------------------------------------------
(* The rows an application of one style gets, which waits for its calls.    *)

BlockWise == {"fetch", "fetchSync", "fetchAllSync"}

(* What such an application keeps to. *)
KeepsStyle ==
    /\ Waits = TRUE
    /\ \A s \in Styles : s \cap RowWise = {} \/ s \cap BlockWise = {}

Active(c) == stage[c] \in {"work", "after", "copy"}

(* With block fetch calls are of one style. *)
Styled ==
    /\ Single \/ style \cap RowWise = {} \/ style \cap BlockWise = {}
    /\ \A c \in Calls :
          /\ Active(c) \/ At(c, "queued") => fn[c] \in style \cap Functions
          /\ At(c, "copy") => fn[c] \in BlockWise
          /\ At(c, "after") /\ result[c] = "ok" => fn[c] \in RowWise

(* One call is under way at a time, and the others have no rows. *)
Solo ==
    /\ \A c, d \in Calls : Active(c) /\ Active(d) => c = d
    /\ \A c \in Calls : stage[c] \in {"new", "queued"} => rows[c] = <<>>
    /\ \A i \in DOMAIN fifo : At(fifo[i], "queued")
    /\ \A i, j \in DOMAIN fifo : fifo[i] = fifo[j] => i = j

(* The rows of that call come after those the application has. *)
Fitting ==
    /\ Rising(out)
    /\ \A c \in Calls : Active(c) => Rising(rows[c]) /\ Precedes(out, rows[c])

(* All rows that were taken come before row n. *)
Passed(n) ==
    /\ Below(out, n)
    /\ \A c \in Calls : Active(c) => Below(rows[c], n)

(* The block is in order, and nothing is ahead of the driver. *)
BlockOrder ==
    /\ pos <= Ends[set]
    /\ Passed(pos + 1)
    /\ \A i \in 1 .. fetched : buffer[i] <= pos
    /\ \A i, j \in 1 .. fetched : i < j => buffer[i] < buffer[j]

(* What is still to be taken from the block comes after what was taken. *)
ToCome ==
    /\ ~Single /\ style \cap BlockWise = {} =>
          \A i \in 1 .. fetched : current < i => Passed(buffer[i])
    /\ \A c \in Calls : At(c, "copy") =>
          \A i \in 1 .. fetched : idx[c] < i => Passed(buffer[i])
    /\ \A c \in Calls : At(c, "after") /\ result[c] = "ok" =>
          /\ idx[c] \in 1 .. fetched
          /\ Passed(buffer[idx[c]])
          /\ Single \/ idx[c] <= current

InOrder == Typed /\ Styled /\ Solo /\ Fitting /\ BlockOrder /\ ToCome

LEMMA Numbers ==
    ASSUME Typed
    PROVE  /\ size \in Nat \ {0} /\ pos \in Nat /\ current \in Nat
           /\ set \in 1 .. Len(Ends) /\ Ends[set] \in Nat
           /\ fetched \in 0 .. size
           /\ \A i \in 1 .. fetched : i \in 1 .. size /\ buffer[i] \in Nat
           /\ \A i \in 1 .. size : buffer[i] \in Nat
           /\ out \in Seq(Nat) /\ \A c \in Calls : rows[c] \in Seq(Nat)
           /\ \A c \in Calls : idx[c] \in 0 .. size
  <1>1. size \in Nat \ {0} /\ set \in 1 .. Len(Ends)
    BY ConstantsAssumption DEF Typed, SetTyped
  <1>2. RowNumbers \subseteq Nat /\ Ends[set] \in Nat
    BY <1>1, ConstantsAssumption DEF RowNumbers
  <1>3. ASSUME NEW s \in Seq(RowNumbers) PROVE s \in Seq(Nat)
    BY <1>2, SeqMonotonic
  <1>4. pos \in Nat /\ current \in Nat /\ fetched \in 0 .. size
    BY <1>1, <1>2 DEF Typed, BlockTyped
  <1>5. \A i \in 1 .. size : buffer[i] \in Nat
    BY <1>2 DEF Typed, BlockTyped
  <1>6. \A i \in 1 .. fetched : i \in 1 .. size
    BY <1>1, <1>4
  <1>7. out \in Seq(Nat) /\ \A c \in Calls : rows[c] \in Seq(Nat)
    BY <1>3 DEF Typed, AppTyped, CallsTyped
  <1>8. \A c \in Calls : idx[c] \in 0 .. size
    BY DEF Typed, CallsTyped
  <1> QED
    BY <1>1, <1>2, <1>4, <1>5, <1>6, <1>7, <1>8

LEMMA InitInOrder == ASSUME KeepsStyle, Init PROVE InOrder
  <1>1. Typed
    BY TypedInit
  <1>2. Styled
    <2>1. Single \/ style \in Styles
      BY DEF Init, Single
    <2> QED
      BY <2>1 DEF Init, Styled, KeepsStyle, Active, At
  <1>3. Solo
    BY DEF Init, Solo, Active, At
  <1>4. Fitting
    BY NoRows DEF Init, Fitting, Active
  <1>5. BlockOrder
    <2>1. fetched = 0 /\ pos = 0 /\ pos <= Ends[set]
      BY <1>1, Numbers DEF Init
    <2>2. Passed(pos + 1)
      BY NoRows DEF Init, Passed, Active
    <2> QED
      BY <2>1, <2>2 DEF BlockOrder
  <1>6. ToCome
    BY DEF Init, ToCome, At
  <1> QED
    BY <1>1, <1>2, <1>3, <1>4, <1>5, <1>6 DEF InOrder

(* A worker, or SQLFetch in a synchronous call, is done. *)
LEMMA FetchedInOrder ==
    ASSUME InOrder, NEW c \in Calls, At(c, "work"),
           UNCHANGED <<size, style, fifo, out>>,
           NEW r, NEW i, NEW s \in {"after", "copy"},
           s = "copy" => fn[c] \in BlockWise,
           s = "after" /\ r = "ok" => fn[c] \in RowWise,
           Fetched(c, r, i, s)
    PROVE  /\ Styled' /\ Solo' /\ Fitting'
           /\ \A d \in Calls : stage'[d] \in {"work", "after", "copy"} => d = c
           /\ \A d \in Calls : Active(d)' => Active(d)
           /\ stage'[c] = s /\ result'[c] = r /\ idx'[c] = i
           /\ rows' = rows /\ fn' = fn
  <1>1. /\ stage' = [stage EXCEPT ![c] = s] /\ result' = [result EXCEPT ![c] = r]
        /\ idx' = [idx EXCEPT ![c] = i]
        /\ rows' = rows /\ fn' = fn
    BY DEF Fetched
  <1>2. /\ stage'[c] = s /\ result'[c] = r /\ idx'[c] = i
        /\ \A d \in Calls : d # c => stage'[d] = stage[d] /\ result'[d] = result[d]
    BY <1>1 DEF InOrder, Typed, CallsTyped
  <1>3. Active(c) /\ \A d \in Calls : Active(d) => d = c
    BY DEF InOrder, Solo, Active, At
  <1>4. \A d \in Calls : stage'[d] \in {"work", "after", "copy"} => d = c
    BY <1>2, <1>3 DEF Active
  <1>5. \A d \in Calls : Active(d)' => Active(d)
    BY <1>3, <1>4 DEF Active
  <1>6. Styled'
    BY <1>1, <1>2, <1>3 DEF InOrder, Styled, Active, At, Single
  <1>7. Solo'
    <2>1. \A j \in DOMAIN fifo : fifo[j] \in Calls /\ fifo[j] # c
      BY DEF InOrder, Typed, CallsTyped, Solo, At
    <2> QED
      BY <1>1, <1>2, <1>4, <2>1 DEF InOrder, Solo, Active, At
  <1>8. Fitting'
    BY <1>1, <1>5 DEF InOrder, Fitting
  <1> QED
    BY <1>1, <1>2, <1>4, <1>5, <1>6, <1>7, <1>8

(* What SQLFetch returns comes after all that was taken. *)
LEMMA RowsInOrder ==
    ASSUME InOrder, NEW good \in SUBSET (1 .. size), FetchRows(good),
           UNCHANGED <<out, rows>>, \A d \in Calls : Active(d)' => Active(d)
    PROVE  /\ BlockOrder'
           /\ fetched' \in 1 .. size
           /\ \A i \in 1 .. fetched' : Passed(buffer[i])'
           /\ valid' \subseteq 1 .. fetched'
  <1>0. out \in Seq(Nat) /\ \A c \in Calls : rows[c] \in Seq(Nat)
    BY Numbers DEF InOrder
  <1>1. size \in Nat \ {0} /\ pos \in Nat
    BY Numbers DEF InOrder
  <1>2. /\ fetched' \in 1 .. size /\ set' = set
        /\ pos' = pos + fetched' /\ pos' <= Ends[set]
    BY TypedRows, TypedIsTypeOK DEF InOrder
  <1>3. \A i \in 1 .. fetched' : buffer'[i] = pos + i
    BY <1>1, <1>2 DEF FetchRows
  <1>4. ASSUME NEW n \in Nat, pos + 1 <= n
        PROVE  /\ Below(out', n)
               /\ \A c \in Calls : Active(c)' => Below(rows'[c], n)
    <2>1. Below(out, pos + 1) /\ \A c \in Calls : Active(c) => Below(rows[c], pos + 1)
      BY DEF InOrder, BlockOrder, Passed
    <2> QED
      BY <1>0, <1>1, <1>4, <2>1, BelowMore
  <1>5. \A i \in 1 .. fetched' : Passed(buffer[i])'
    <2> SUFFICES ASSUME NEW i \in 1 .. fetched' PROVE Passed(buffer[i])'
      OBVIOUS
    <2>1. buffer'[i] \in Nat /\ pos + 1 <= buffer'[i]
      BY <1>1, <1>2, <1>3
    <2> QED
      BY <1>4, <2>1 DEF Passed
  <1>6. Passed(pos + 1)'
    <2>1. PICK k \in 1 .. size : fetched' = k
      BY <1>2
    <2>2. PICK n \in Nat : n = pos + k + 1 /\ pos + 1 <= n
      BY <1>1, <2>1
    <2>3. pos' + 1 = n
      BY <1>2, <2>1, <2>2
    <2> QED
      BY <1>4, <2>2, <2>3 DEF Passed
  <1>7. BlockOrder'
    <2>1. pos' <= Ends[set']
      BY <1>2
    <2>2. \A i \in 1 .. fetched' : buffer'[i] <= pos'
      BY <1>1, <1>2, <1>3
    <2>3. \A i, j \in 1 .. fetched' : i < j => buffer'[i] < buffer'[j]
      BY <1>1, <1>2, <1>3
    <2> QED
      BY <1>6, <2>1, <2>2, <2>3 DEF BlockOrder
  <1>8. valid' \subseteq 1 .. fetched'
    BY DEF FetchRows
  <1> QED
    BY <1>2, <1>5, <1>7, <1>8

LEMMA NoRowsInOrder ==
    ASSUME InOrder, FetchNoData \/ FetchError,
           UNCHANGED <<out, rows>>, \A d \in Calls : Active(d)' => Active(d)
    PROVE  BlockOrder' /\ fetched' = 0
  <1>1. /\ set' = set /\ pos' = pos /\ buffer' = buffer /\ fetched' = 0
    <2>1. CASE FetchNoData
      BY <2>1, TypedNoData, TypedIsTypeOK DEF InOrder
    <2>2. CASE FetchError
      BY <2>2, TypedError, TypedIsTypeOK DEF InOrder
    <2> QED
      BY <2>1, <2>2
  <1>2. Passed(pos + 1)'
    BY <1>1 DEF InOrder, BlockOrder, Passed
  <1> QED
    BY <1>1, <1>2 DEF InOrder, BlockOrder

(* Nothing is fetched: the block stays in order. *)
LEMMA SameBlockInOrder ==
    ASSUME InOrder, UNCHANGED <<set, pos, buffer, fetched, out, rows>>,
           \A d \in Calls : Active(d)' => Active(d)
    PROVE  BlockOrder'
  BY DEF InOrder, BlockOrder, Passed

(* A call is over, and the queue may begin another. *)
LEMMA FinishInOrder ==
    ASSUME InOrder, NEW c \in Calls, Active(c), Finish(c),
           UNCHANGED <<size, style, rows>>
    PROVE  /\ Styled' /\ Solo'
           /\ \A d \in Calls : Active(d)' => stage'[d] = "work" /\ rows'[d] = <<>>
  <1>1. \A d \in Calls : Active(d) => d = c
    BY DEF InOrder, Solo
  <1>2. fn' = fn /\ result' = result
    BY DEF Finish
  <1>3. fifo \in Seq(Calls) /\ stage \in [Calls -> Stages]
    BY DEF InOrder, Typed, CallsTyped
  <1>4. CASE fn[c] \in Queued /\ fifo # <<>>
    <2> DEFINE h == Head(fifo)
    <2>1. /\ h \in Calls /\ At(h, "queued") /\ h = fifo[1]
          /\ rows[h] = <<>> /\ h # c
      <3>1. h = fifo[1] /\ 1 \in DOMAIN fifo /\ h \in Calls
        BY <1>3, <1>4
      <3> QED
        BY <3>1 DEF InOrder, Solo, At, Active
    <2>2. stage' = [stage EXCEPT ![c] = "done", ![h] = "work"] /\ fifo' = Tail(fifo)
      BY <1>4 DEF Finish
    <2> HIDE DEF h
    <2>3. /\ stage'[c] = "done" /\ stage'[h] = "work"
          /\ \A d \in Calls : d # c /\ d # h => stage'[d] = stage[d]
      BY <1>3, <2>1, <2>2
    <2>4. \A d \in Calls : stage'[d] \in {"work", "after", "copy"} => d = h
      BY <1>1, <2>1, <2>3 DEF Active
    <2>5. Styled'
      BY <1>2, <2>1, <2>3, <2>4 DEF InOrder, Styled, Active, At, Single
    <2>6. \A i \in DOMAIN fifo' : i + 1 \in DOMAIN fifo /\ fifo'[i] = fifo[i + 1]
      BY <1>3, <1>4, <2>2
    <2>7. \A i \in DOMAIN fifo' : At(fifo[i], "queued")'
      <3> SUFFICES ASSUME NEW i \in DOMAIN fifo' PROVE stage'[fifo'[i]] = "queued"
        BY DEF At
      <3>1. i + 1 \in DOMAIN fifo /\ fifo'[i] = fifo[i + 1]
        BY <2>6
      <3>2. i \in Nat \ {0} /\ 1 \in DOMAIN fifo /\ fifo[i + 1] \in Calls
        BY <1>3, <1>4, <2>2, <3>1
      <3>3. fifo[i + 1] # h /\ At(fifo[i + 1], "queued")
        BY <2>1, <3>1, <3>2 DEF InOrder, Solo
      <3>4. fifo[i + 1] # c
        BY <3>3 DEF Active, At
      <3> QED
        BY <2>3, <3>1, <3>2, <3>3, <3>4 DEF At
    <2>8. \A i, j \in DOMAIN fifo' : fifo'[i] = fifo'[j] => i = j
      <3>1. \A i \in DOMAIN fifo' : i \in Int
        BY <1>3, <1>4, <2>2
      <3>2. \A i, j \in DOMAIN fifo : fifo[i] = fifo[j] => i = j
        BY DEF InOrder, Solo
      <3> QED
        BY <2>6, <3>1, <3>2
    <2>9. Solo'
      BY <2>1, <2>3, <2>4, <2>7, <2>8 DEF InOrder, Solo, Active
    <2> QED
      BY <2>1, <2>3, <2>4, <2>5, <2>9 DEF Active
  <1>5. CASE ~(fn[c] \in Queued /\ fifo # <<>>)
    <2>1. stage' = [stage EXCEPT ![c] = "done"] /\ fifo' = fifo
      BY <1>5 DEF Finish
    <2>2. /\ stage'[c] = "done"
          /\ \A d \in Calls : d # c => stage'[d] = stage[d]
      BY <1>3, <2>1
    <2>3. \A d \in Calls : ~Active(d)'
      BY <1>1, <2>2 DEF Active
    <2>4. Styled'
      BY <1>2, <2>2, <2>3 DEF InOrder, Styled, Active, At, Single
    <2>5. \A i \in DOMAIN fifo : fifo[i] \in Calls /\ fifo[i] # c
      BY <1>3 DEF InOrder, Solo, At, Active
    <2>6. Solo'
      BY <2>1, <2>2, <2>3, <2>5 DEF InOrder, Solo, Active, At
    <2> QED
      BY <2>3, <2>4, <2>6
  <1> QED
    BY <1>4, <1>5

(* The application gets the rows data, which come after those it has. *)
LEMMA AnswerInOrder ==
    ASSUME InOrder, NEW c \in Calls, Active(c), NEW data \in Seq(Nat),
           Rising(data), Precedes(out, data), Below(data, pos + 1),
           ~Single /\ style \cap BlockWise = {} =>
              \A i \in 1 .. fetched : current < i => Below(data, buffer[i]),
           Finish(c), out' = out \o data, rows' = rows, OthersUnchanged
    PROVE  Styled' /\ Solo' /\ Fitting' /\ BlockOrder' /\ ToCome'
  <1>1. /\ UNCHANGED <<size, style, set, pos, buffer, valid, fetched, current>>
        /\ rows' = rows
    BY DEF OthersUnchanged, driver, block
  <1>2. /\ Styled' /\ Solo'
        /\ \A d \in Calls : Active(d)' => stage'[d] = "work" /\ rows'[d] = <<>>
    BY <1>1, FinishInOrder
  <1>3. out \in Seq(Nat) /\ Rising(out)
    BY Numbers DEF InOrder, Fitting
  <1>4. /\ Rising(out')
        /\ \A n \in Nat : Below(out, n) /\ Below(data, n) => Below(out', n)
    BY <1>3, ConcatInOrder
  <1>5. Fitting'
    BY <1>2, <1>4, NoRows DEF Fitting
  <1>6. \A n \in Nat : Below(out, n) /\ Below(data, n) => Passed(n)'
    BY <1>2, <1>4, NoRows DEF Passed
  <1>7. /\ pos \in Nat /\ pos + 1 \in Nat
        /\ \A i \in 1 .. fetched : buffer[i] \in Nat
    BY Numbers DEF InOrder
  <1>8. BlockOrder'
    <2>1. Below(out, pos + 1)
      BY DEF InOrder, BlockOrder, Passed
    <2>2. Below(out', pos + 1) /\ \A d \in Calls : Active(d)' => Below(rows'[d], pos + 1)
      BY <1>2, <1>4, <1>7, <2>1, NoRows
    <2> QED
      BY <1>1, <2>2 DEF InOrder, BlockOrder, Passed
  <1>9. ToCome'
    <2>1. ASSUME ~Single, style \cap BlockWise = {},
                 NEW i \in 1 .. fetched, current < i
          PROVE  Below(out', buffer[i]) /\ \A d \in Calls : Active(d)' => Below(rows'[d], buffer[i])
      <3>1. Below(out, buffer[i])
        BY <2>1 DEF InOrder, ToCome, Passed
      <3> QED
        BY <1>2, <1>4, <1>7, <2>1, <3>1, NoRows
    <2>2. \A d \in Calls : ~At(d, "copy")' /\ ~At(d, "after")'
      BY <1>2 DEF Active, At
    <2> QED
      BY <1>1, <2>1, <2>2 DEF ToCome, Passed, Single
  <1> QED
    BY <1>2, <1>5, <1>8, <1>9

(* A call keeps the rows data and goes on. *)
LEMMA KeepInOrder ==
    ASSUME InOrder, NEW c \in Calls, Active(c), NEW data \in Seq(Nat),
           NEW s \in {"work", "copy"}, s = "copy" => At(c, "copy"),
           Rising(data), Precedes(out, data), Below(data, pos + 1),
           NotAnswered(c, s), rows' = [rows EXCEPT ![c] = data], OthersUnchanged
    PROVE  /\ Styled' /\ Solo' /\ Fitting' /\ BlockOrder'
           /\ \A d \in Calls : Active(d)' => d = c
           /\ stage'[c] = s /\ rows'[c] = data
  <1>1. /\ UNCHANGED <<size, style, set, pos, buffer, valid, fetched, current>>
        /\ UNCHANGED <<fn, result, fifo, out>>
        /\ stage' = [stage EXCEPT ![c] = s]
    BY DEF OthersUnchanged, driver, block, NotAnswered
  <1>2. /\ stage'[c] = s /\ rows'[c] = data
        /\ \A d \in Calls : d # c => stage'[d] = stage[d] /\ rows'[d] = rows[d]
    BY <1>1 DEF InOrder, Typed, CallsTyped
  <1>3. \A d \in Calls : Active(d) => d = c
    BY DEF InOrder, Solo
  <1>4. \A d \in Calls : Active(d)' => d = c
    BY <1>2, <1>3 DEF Active
  <1>5. Styled'
    BY <1>1, <1>2, <1>4 DEF InOrder, Styled, Active, At, Single
  <1>6. Solo'
    <2>1. \A j \in DOMAIN fifo : fifo[j] \in Calls /\ fifo[j] # c
      BY DEF InOrder, Typed, CallsTyped, Solo, At, Active
    <2> QED
      BY <1>1, <1>2, <1>4, <2>1 DEF InOrder, Solo, Active, At
  <1>7. Fitting'
    BY <1>1, <1>2, <1>4 DEF InOrder, Fitting
  <1>8. BlockOrder'
    BY <1>1, <1>2, <1>4 DEF InOrder, BlockOrder, Passed
  <1> QED
    BY <1>2, <1>4, <1>5, <1>6, <1>7, <1>8

(* The parts of InOrder that Typed is not one of. *)
Ordered == Styled /\ Solo /\ Fitting /\ BlockOrder /\ ToCome

(* A call is made: it has no rows, and nothing else is under way unless it  *)
(* waits in the queue.                                                      *)
LEMMA CallingOrdered ==
    ASSUME KeepsStyle, InOrder, NEW c \in Calls, NEW f \in Functions,
           NEW n \in Counts \cup {0}, Calling(c, f, n)
    PROVE  Ordered'
  <1>1. /\ UNCHANGED <<size, style, set, pos, buffer, valid, fetched, current,
                       result, idx, rows, out>>
        /\ fn' = [fn EXCEPT ![c] = f] /\ f \in style
        /\ At(c, "new")
    BY DEF Calling, driver, block
  <1>2. fifo \in Seq(Calls) /\ stage \in [Calls -> Stages]
        /\ fn'[c] = f /\ \A d \in Calls : d # c => fn'[d] = fn[d]
    BY <1>1 DEF InOrder, Typed, CallsTyped
  <1>3. rows[c] = <<>> /\ \A i \in DOMAIN fifo : fifo[i] \in Calls /\ fifo[i] # c
    BY <1>1, <1>2 DEF InOrder, Solo, At
  <1>4. CASE f \in Queued /\ Doing(Queued) # {}
    <2>1. stage' = [stage EXCEPT ![c] = "queued"] /\ fifo' = Append(fifo, c)
      BY <1>4 DEF Calling
    <2>2. /\ stage'[c] = "queued"
          /\ \A d \in Calls : d # c => stage'[d] = stage[d]
      BY <1>2, <2>1
    <2>3. \A d \in Calls : Active(d)' <=> Active(d)
      BY <1>1, <2>2 DEF Active, At
    <2>4. /\ DOMAIN fifo = 1 .. Len(fifo) /\ Len(fifo) \in Nat
          /\ DOMAIN fifo' = 1 .. Len(fifo) + 1
          /\ \A i \in DOMAIN fifo : fifo'[i] = fifo[i]
          /\ fifo'[Len(fifo) + 1] = c
          /\ \A i \in DOMAIN fifo' : i \in DOMAIN fifo \/ i = Len(fifo) + 1
      BY <1>2, <2>1, AppendProperties
    <2>5. Solo'
      <3>1. \A d, e \in Calls : Active(d)' /\ Active(e)' => d = e
        BY <2>3 DEF InOrder, Solo
      <3>2. \A d \in Calls : stage'[d] \in {"new", "queued"} => rows'[d] = <<>>
        BY <1>1, <1>3, <2>2 DEF InOrder, Solo
      <3>3. \A i \in DOMAIN fifo' : stage'[fifo'[i]] = "queued"
        BY <1>3, <2>2, <2>4 DEF InOrder, Solo, At
      <3>4. \A i, j \in DOMAIN fifo' : fifo'[i] = fifo'[j] => i = j
        BY <1>3, <2>4 DEF InOrder, Solo
      <3> QED
        BY <3>1, <3>2, <3>3, <3>4 DEF Solo, At
    <2>6. Styled'
      BY <1>1, <1>2, <2>2, <2>3 DEF InOrder, Styled, Active, At, Single
    <2>7. Fitting' /\ BlockOrder'
      BY <1>1, <2>3 DEF InOrder, Fitting, BlockOrder, Passed
    <2>8. ToCome'
      BY <1>1, <2>2, <2>3 DEF InOrder, ToCome, Passed, At, Single
    <2> QED
      BY <2>5, <2>6, <2>7, <2>8 DEF Ordered
  <1>5. CASE ~(f \in Queued /\ Doing(Queued) # {})
    <2>1. stage' = [stage EXCEPT ![c] = "work"] /\ fifo' = fifo
      BY <1>5 DEF Calling
    <2>2. /\ stage'[c] = "work"
          /\ \A d \in Calls : d # c => stage'[d] = stage[d]
      BY <1>2, <2>1
    <2>3. \A d \in Calls : ~Active(d)
      <3>1. Waits
        BY DEF KeepsStyle
      <3>2. CASE f \in Queued
        <4>1. Doing(Queued) = {} /\ Doing(Functions \ Queued) = {}
          BY <1>5, <3>1, <3>2 DEF Calling
        <4>2. \A d \in Calls : Active(d) => fn[d] \in Functions
          BY DEF InOrder, Styled
        <4> QED
          BY <4>1, <4>2 DEF Doing, Active
      <3>3. CASE f \notin Queued
        <4>1. Doing(Functions) = {}
          BY <3>1, <3>3 DEF Calling
        <4>2. \A d \in Calls : Active(d) => fn[d] \in Functions
          BY DEF InOrder, Styled
        <4> QED
          BY <4>1, <4>2 DEF Doing, Active
      <3> QED
        BY <3>2, <3>3
    <2>4. \A d \in Calls : Active(d)' => d = c
      BY <2>2, <2>3 DEF Active
    <2>5. Solo'
      BY <1>1, <1>3, <2>1, <2>2, <2>4 DEF InOrder, Solo, At
    <2>6. Styled'
      BY <1>1, <1>2, <2>2, <2>4 DEF InOrder, Styled, Active, At, Single
    <2>7. Fitting'
      BY <1>1, <1>3, <2>4, NoRows DEF InOrder, Fitting
    <2>8. BlockOrder'
      BY <1>1, <1>3, <2>4, NoRows DEF InOrder, BlockOrder, Passed
    <2>9. ToCome'
      <3>1. \A d \in Calls : ~At(d, "copy")' /\ ~At(d, "after")'
        BY <2>2, <2>4 DEF Active, At
      <3> QED
        BY <1>1, <1>3, <2>4, <3>1, NoRows DEF InOrder, ToCome, Passed, Single
    <2> QED
      BY <2>5, <2>6, <2>7, <2>8, <2>9 DEF Ordered
  <1> QED
    BY <1>4, <1>5

LEMMA MoreResultsOrdered ==
    ASSUME KeepsStyle, InOrder, MoreResultsSync
    PROVE  Ordered'
  <1>1. /\ UNCHANGED <<size, style, buffer, valid, fetched, current, fn, stage,
                       result, idx, rows, out, fifo>>
        /\ set' = set + 1 /\ pos' = Ends[set] /\ set < Len(Ends)
    BY DEF MoreResultsSync, block, calls
  <1>2. \A d \in Calls : ~Active(d)
    BY DEF MoreResultsSync, KeepsStyle, InOrder, Styled, Doing, Active
  <1>3. /\ pos \in Nat /\ pos' \in Nat /\ pos <= pos' /\ pos' <= Ends[set']
        /\ \A i \in 1 .. fetched : buffer[i] \in Nat
        /\ out \in Seq(Nat)
    <2>1. pos \in Nat /\ set \in 1 .. Len(Ends) /\ Ends[set] \in Nat /\ out \in Seq(Nat)
      BY Numbers DEF InOrder
    <2>2. Ends[set] <= Ends[set + 1]
      BY <1>1, <2>1, ConstantsAssumption
    <2>3. pos <= Ends[set]
      BY DEF InOrder, BlockOrder
    <2>4. \A i \in 1 .. fetched : buffer[i] \in Nat
      BY Numbers DEF InOrder
    <2> QED
      BY <1>1, <2>1, <2>2, <2>3, <2>4
  <1>4. Styled'
    BY <1>1 DEF InOrder, Styled, Active, At, Single
  <1>5. Solo'
    BY <1>1 DEF InOrder, Solo, Active, At
  <1>6. Fitting'
    BY <1>1, <1>2 DEF InOrder, Fitting, Active
  <1>7. BlockOrder'
    <2>1. Below(out, pos + 1)
      BY DEF InOrder, BlockOrder, Passed
    <2>2. Below(out, pos' + 1)
      BY <1>3, <2>1, BelowMore
    <2>3. \A i \in 1 .. fetched : buffer[i] <= pos'
      BY <1>3 DEF InOrder, BlockOrder
    <2> QED
      BY <1>1, <1>2, <1>3, <2>2, <2>3 DEF InOrder, BlockOrder, Passed, Active
  <1>8. ToCome'
    BY <1>1 DEF InOrder, ToCome, Passed, Active, At, Single
  <1> QED
    BY <1>4, <1>5, <1>6, <1>7, <1>8 DEF Ordered

(* A fetch that ends without a row leaves nothing more to come. *)
LEMMA NothingFetched ==
    ASSUME InOrder, NEW c \in Calls, At(c, "work"),
           UNCHANGED <<size, style, fifo, out>>,
           NEW r \in {"nodata", "error"}, Fetched(c, r, 0, "after"),
           \/ FetchNoData \/ FetchError
           \/ UNCHANGED <<set, pos, buffer, fetched, current>>
    PROVE  Ordered'
  <1>1. /\ Styled' /\ Solo' /\ Fitting'
        /\ \A d \in Calls : stage'[d] \in {"work", "after", "copy"} => d = c
        /\ \A d \in Calls : Active(d)' => Active(d)
        /\ stage'[c] = "after" /\ result'[c] = r
        /\ rows' = rows
    BY FetchedInOrder
  <1>2. \A d \in Calls : ~At(d, "copy")' /\ ~(At(d, "after")' /\ result'[d] = "ok")
    BY <1>1 DEF At
  <1>3. CASE FetchNoData \/ FetchError
    <2>1. BlockOrder' /\ fetched' = 0
      BY <1>1, <1>3, NoRowsInOrder
    <2>2. ToCome'
      BY <1>2, <2>1 DEF ToCome, At
    <2> QED
      BY <1>1, <2>1, <2>2 DEF Ordered
  <1>4. CASE UNCHANGED <<set, pos, buffer, fetched, current>>
    <2>1. BlockOrder'
      BY <1>1, <1>4, SameBlockInOrder
    <2>2. ToCome'
      BY <1>1, <1>2, <1>4 DEF InOrder, ToCome, Passed, At, Single
    <2> QED
      BY <1>1, <2>1, <2>2 DEF Ordered
  <1> QED
    BY <1>3, <1>4

(* A block-wise function has a new block to copy. *)
LEMMA BlockFetched ==
    ASSUME InOrder, NEW c \in Calls, At(c, "work"), fn[c] \in BlockWise,
           UNCHANGED <<size, style, fifo, out>>,
           NEW good \in SUBSET (1 .. size), FetchRows(good),
           Fetched(c, "ok", 0, "copy")
    PROVE  Ordered'
  <1>1. /\ Styled' /\ Solo' /\ Fitting'
        /\ \A d \in Calls : stage'[d] \in {"work", "after", "copy"} => d = c
        /\ \A d \in Calls : Active(d)' => Active(d)
        /\ stage'[c] = "copy"
        /\ rows' = rows
    BY FetchedInOrder
  <1>2. BlockOrder' /\ \A i \in 1 .. fetched' : Passed(buffer[i])'
    BY <1>1, RowsInOrder
  <1>3. fn[c] \in style
    BY DEF InOrder, Styled, Active, At
  <1>4. \A d \in Calls : ~At(d, "after")'
    BY <1>1 DEF At
  <1>5. ToCome'
    BY <1>2, <1>3, <1>4 DEF ToCome
  <1> QED
    BY <1>1, <1>2, <1>5 DEF Ordered

LEMMA FetchBlockOrdered ==
    ASSUME InOrder, NEW c \in Calls, FetchBlock(c)
    PROVE  Ordered'
  <1>1. /\ At(c, "work") /\ fn[c] \in BlockWise
        /\ UNCHANGED <<size, style, fifo, out>>
    BY DEF FetchBlock, BlockWise
  <1>2. CASE Fetched(c, "nodata", 0, "after") /\ NotFetching
    <2>1. UNCHANGED <<set, pos, buffer, fetched, current>>
      BY <1>2 DEF NotFetching, driver, block
    <2> QED
      BY <1>1, <1>2, <2>1, NothingFetched
  <1>3. CASE /\ \E good \in SUBSET (1 .. size) : FetchRows(good)
             /\ Fetched(c, "ok", 0, "copy")
    BY <1>1, <1>3, BlockFetched
  <1>4. CASE FetchNoData /\ Fetched(c, "nodata", 0, "after")
    BY <1>1, <1>4, NothingFetched
  <1>5. CASE FetchError /\ Fetched(c, "error", 0, "after")
    BY <1>1, <1>5, NothingFetched
  <1> QED
    BY <1>2, <1>3, <1>4, <1>5 DEF FetchBlock

LEMMA FetchWholeOrdered ==
    ASSUME InOrder, NEW c \in Calls, FetchWhole(c)
    PROVE  Ordered'
  <1>1. /\ At(c, "work") /\ fn[c] \in BlockWise
        /\ UNCHANGED <<size, style, fifo, out>>
    BY DEF FetchWhole, BlockWise
  <1>2. CASE /\ \E good \in SUBSET (1 .. size) : FetchRows(good)
             /\ Fetched(c, "ok", 0, "copy")
    BY <1>1, <1>2, BlockFetched
  <1>3. CASE FetchNoData /\ Fetched(c, "nodata", 0, "after")
    BY <1>1, <1>3, NothingFetched
  <1>4. CASE FetchError /\ Fetched(c, "error", 0, "after")
    BY <1>1, <1>4, NothingFetched
  <1> QED
    BY <1>2, <1>3, <1>4 DEF FetchWhole

LEMMA TakeRowOrdered ==
    ASSUME InOrder, NEW c \in Calls, TakeRow(c)
    PROVE  Ordered'
  <1>1. /\ At(c, "work") /\ fn[c] \in RowWise /\ ~Single
        /\ UNCHANGED <<size, style, fifo, out, set, pos, buffer, valid, fetched>>
    BY DEF TakeRow, driver, block
  <1>2. PICK i \in First(Left(valid, current, fetched)) :
           current' = i /\ Fetched(c, "ok", i, "after")
    BY DEF TakeRow
  <1>3. i \in 1 .. fetched /\ current < i
    <2>1. i \in valid /\ current < i /\ i <= fetched
      BY <1>2 DEF First, Left
    <2>2. valid \subseteq 1 .. size /\ size \in Nat /\ fetched \in 0 .. size
      BY Numbers DEF InOrder, Typed, BlockTyped
    <2> QED
      BY <2>1, <2>2
  <1>4. /\ Styled' /\ Solo' /\ Fitting'
        /\ \A d \in Calls : stage'[d] \in {"work", "after", "copy"} => d = c
        /\ \A d \in Calls : Active(d)' => Active(d)
        /\ stage'[c] = "after" /\ idx'[c] = i
        /\ rows' = rows
    BY <1>1, <1>2, FetchedInOrder
  <1>5. BlockOrder'
    BY <1>1, <1>4, SameBlockInOrder
  <1>6. style \cap BlockWise = {}
    BY <1>1 DEF InOrder, Styled, Active, At
  <1>7. \A j \in 1 .. fetched : current < j => Passed(buffer[j])'
    BY <1>1, <1>4, <1>6 DEF InOrder, ToCome, Passed
  <1>8. ToCome'
    <2>1. \A j \in 1 .. fetched : i < j => current < j
      BY <1>3, Numbers DEF InOrder
    <2>2. \A j \in 1 .. fetched' : current' < j => Passed(buffer[j])'
      BY <1>1, <1>2, <1>7, <2>1
    <2>3. \A d \in Calls : ~At(d, "copy")' /\ (At(d, "after")' => d = c)
      BY <1>4 DEF At
    <2>4. /\ idx'[c] \in 1 .. fetched'
          /\ Passed(buffer[i])'
          /\ idx'[c] <= current'
      BY <1>1, <1>2, <1>3, <1>4, <1>7
    <2> QED
      BY <1>1, <1>2, <1>3, <1>4, <1>7, <2>2, <2>3, <2>4 DEF ToCome, Passed
  <1> QED
    BY <1>4, <1>5, <1>8 DEF Ordered

(* A row function finds a row in the block it has just fetched. *)
LEMMA RowFetched ==
    ASSUME InOrder, NEW c \in Calls, At(c, "work"), fn[c] \in RowWise,
           UNCHANGED <<size, style, fifo, out>>,
           NEW good \in SUBSET (1 .. size), FetchRows(good),
           NEW i \in 1 .. fetched', Single \/ current' = i,
           Fetched(c, "ok", i, "after")
    PROVE  Ordered'
  <1>1. /\ Styled' /\ Solo' /\ Fitting'
        /\ \A d \in Calls : stage'[d] \in {"work", "after", "copy"} => d = c
        /\ \A d \in Calls : Active(d)' => Active(d)
        /\ stage'[c] = "after" /\ idx'[c] = i
        /\ rows' = rows
    BY FetchedInOrder
  <1>2. /\ BlockOrder' /\ \A j \in 1 .. fetched' : Passed(buffer[j])'
        /\ fetched' \in 1 .. size
    BY <1>1, RowsInOrder
  <1>3. \A d \in Calls : ~At(d, "copy")' /\ (At(d, "after")' => d = c)
    BY <1>1 DEF At
  <1>4. i <= i
    BY <1>2, Numbers DEF InOrder
  <1>5. idx'[c] \in 1 .. fetched' /\ Passed(buffer[idx[c]])'
    BY <1>1, <1>2
  <1>6. Single' \/ idx'[c] <= current'
    BY <1>1, <1>4 DEF Single
  <1>7. ToCome'
    BY <1>2, <1>3, <1>5, <1>6 DEF ToCome
  <1> QED
    BY <1>1, <1>2, <1>7 DEF Ordered

LEMMA RefillOrdered ==
    ASSUME InOrder, NEW c \in Calls, Refill(c)
    PROVE  Ordered'
  <1>1. /\ At(c, "work") /\ fn[c] \in RowWise /\ ~Single
        /\ UNCHANGED <<size, style, fifo, out>>
    BY DEF Refill
  <1>2. ASSUME NEW good \in SUBSET (1 .. size), FetchRows(good),
               current' = fetched', UNCHANGED calls
        PROVE  Ordered'
    <2>1. UNCHANGED <<fn, stage, result, idx, rows>>
      BY <1>2 DEF calls
    <2>2. \A d \in Calls : Active(d)' <=> Active(d)
      BY <2>1 DEF Active
    <2>3. BlockOrder' /\ fetched' \in 1 .. size
      BY <1>1, <1>2, <2>1, <2>2, RowsInOrder
    <2>4. Styled' /\ Solo' /\ Fitting'
      BY <1>1, <2>1 DEF InOrder, Styled, Solo, Fitting, Active, At, Single
    <2>5. \A d \in Calls : ~At(d, "copy")' /\ ~At(d, "after")'
      BY <1>1, <2>1 DEF InOrder, Solo, Active, At
    <2>6. \A i \in 1 .. fetched' : ~(current' < i)
      BY <1>2, <2>3
    <2>7. ToCome'
      BY <2>5, <2>6 DEF ToCome
    <2> QED
      BY <2>3, <2>4, <2>7 DEF Ordered
  <1>3. ASSUME NEW good \in SUBSET (1 .. size), FetchRows(good),
               NEW i \in First(valid'), current' = i, Fetched(c, "ok", i, "after")
        PROVE  Ordered'
    <2>1. valid' \subseteq 1 .. fetched'
      BY <1>3 DEF FetchRows
    <2>2. i \in 1 .. fetched'
      BY <1>3, <2>1 DEF First
    <2> QED
      BY <1>1, <1>3, <2>2, RowFetched
  <1>4. CASE FetchNoData /\ Fetched(c, "nodata", 0, "after")
    BY <1>1, <1>4, NothingFetched
  <1>5. CASE FetchError /\ Fetched(c, "error", 0, "after")
    BY <1>1, <1>5, NothingFetched
  <1> QED
    BY <1>2, <1>3, <1>4, <1>5 DEF Refill

LEMMA FindsExhaustedOrdered ==
    ASSUME InOrder, NEW c \in Calls, FindsExhausted(c)
    PROVE  Ordered'
  <1>1. /\ At(c, "work") /\ Fetched(c, "nodata", 0, "after")
        /\ UNCHANGED <<size, style, fifo, out>>
        /\ UNCHANGED <<set, pos, buffer, fetched, current>>
    BY DEF FindsExhausted, NotFetching, driver, block
  <1> QED
    BY <1>1, NothingFetched

LEMMA FetchOneRowOrdered ==
    ASSUME InOrder, NEW c \in Calls, FetchOneRow(c)
    PROVE  Ordered'
  <1>1. /\ At(c, "work") /\ fn[c] \in RowWise /\ Single
        /\ UNCHANGED <<size, style, fifo, out>>
    BY DEF FetchOneRow
  <1>2. CASE FetchRows({1}) /\ Fetched(c, "ok", 1, "after")
    <2>1. {1} \in SUBSET (1 .. size)
      BY <1>1 DEF Single
    <2>2. 1 \in 1 .. fetched'
      BY <1>2 DEF FetchRows
    <2> QED
      BY <1>1, <1>2, <2>1, <2>2, RowFetched
  <1>3. CASE FetchNoData /\ Fetched(c, "nodata", 0, "after")
    BY <1>1, <1>3, NothingFetched
  <1>4. CASE FetchError /\ Fetched(c, "error", 0, "after")
    BY <1>1, <1>4, NothingFetched
  <1> QED
    BY <1>2, <1>3, <1>4 DEF FetchOneRow

(* What a call has in hand. *)
LEMMA RowsOf ==
    ASSUME InOrder, NEW c \in Calls, Active(c)
    PROVE  /\ out \in Seq(Nat) /\ rows[c] \in Seq(Nat)
           /\ Rising(out) /\ Rising(rows[c]) /\ Precedes(out, rows[c])
           /\ Below(out, pos + 1) /\ Below(rows[c], pos + 1)
           /\ pos \in Nat /\ pos + 1 \in Nat
           /\ fn[c] \in style
  BY Numbers DEF InOrder, Fitting, BlockOrder, Passed, Styled

(* One more row from the block: it comes after what was taken and before    *)
(* the rows of the block that follow it.                                    *)
LEMMA OneMoreRow ==
    ASSUME InOrder, NEW c \in Calls, Active(c), NEW i \in 1 .. fetched,
           Passed(buffer[i]), NEW data, data = Append(rows[c], buffer[i])
    PROVE  /\ data \in Seq(Nat) /\ Rising(data) /\ Precedes(out, data)
           /\ Below(data, pos + 1)
           /\ \A j \in 1 .. fetched : i < j => Below(data, buffer[j])
  <1>1. /\ buffer[i] \in Nat /\ \A j \in 1 .. fetched : buffer[j] \in Nat
        /\ pos \in Nat /\ pos + 1 \in Nat
    BY Numbers DEF InOrder
  <1>2. /\ buffer[i] <= pos
        /\ \A j \in 1 .. fetched : i < j => buffer[i] < buffer[j]
    BY DEF InOrder, BlockOrder
  <1>3. Below(out, buffer[i]) /\ Below(rows[c], buffer[i])
    BY DEF Passed
  <1>4. /\ data \in Seq(Nat) /\ Rising(data) /\ Precedes(out, data)
        /\ \A n \in Nat : buffer[i] < n => Below(data, n)
    BY <1>1, <1>3, RowsOf, AppendInOrder
  <1>5. buffer[i] < pos + 1
    BY <1>1, <1>2
  <1> QED
    BY <1>1, <1>2, <1>4, <1>5

LEMMA CopyRowOrdered ==
    ASSUME InOrder, NEW c \in Calls, CopyRow(c)
    PROVE  Ordered'
  <1>1. /\ At(c, "copy") /\ Active(c) /\ idx[c] < fetched
        /\ idx' = [idx EXCEPT ![c] = @ + 1]
        /\ rows' = [rows EXCEPT ![c] = IF idx'[c] \in valid
                                       THEN Append(@, buffer[idx'[c]]) ELSE @]
        /\ NotAnswered(c, "copy") /\ OthersUnchanged
    BY DEF CopyRow, OnJS, At, Active
  <1>2. PICK i \in 1 .. fetched : i = idx[c] + 1
    BY <1>1, Numbers DEF InOrder
  <1>3. idx'[c] = i
    BY <1>1, <1>2 DEF InOrder, Typed, CallsTyped
  <1>4. Passed(buffer[i])
    <2>1. idx[c] < i
      BY <1>2, Numbers DEF InOrder
    <2> QED
      BY <1>1, <2>1 DEF InOrder, ToCome
  <1> DEFINE data == IF i \in valid THEN Append(rows[c], buffer[i]) ELSE rows[c]
  <1>5. rows' = [rows EXCEPT ![c] = data]
    <2>1. rows' = [rows EXCEPT ![c] = IF idx'[c] \in valid
                                     THEN Append(rows[c], buffer[idx'[c]])
                                     ELSE rows[c]]
      BY <1>1
    <2> HIDE <1>1
    <2> QED
      BY <1>3, <2>1, Zenon
  <1>6. /\ data \in Seq(Nat) /\ Rising(data) /\ Precedes(out, data)
        /\ Below(data, pos + 1)
        /\ \A j \in 1 .. fetched : i < j => Below(data, buffer[j])
    <2>1. CASE i \in valid
      <3>1. data = Append(rows[c], buffer[i])
        BY <2>1
      <3> HIDE DEF data
      <3> QED
        BY <1>1, <1>4, <3>1, OneMoreRow
    <2>2. CASE i \notin valid
      <3>1. data = rows[c]
        BY <2>2
      <3>2. \A j \in 1 .. fetched : i < j => Below(rows[c], buffer[j])
        <4>1. \A j \in 1 .. fetched : i < j => idx[c] < j
          BY <1>2, Numbers DEF InOrder
        <4> QED
          BY <1>1, <4>1 DEF InOrder, ToCome, Passed
      <3> QED
        BY <1>1, <3>1, <3>2, RowsOf
    <2> QED
      BY <2>1, <2>2
  <1> HIDE DEF data
  <1>7. /\ Styled' /\ Solo' /\ Fitting' /\ BlockOrder'
        /\ \A d \in Calls : Active(d)' => d = c
        /\ stage'[c] = "copy" /\ rows'[c] = data
    BY <1>1, <1>5, <1>6, KeepInOrder
  <1>8. /\ UNCHANGED <<size, style, buffer, fetched, current, out>>
        /\ fn[c] \in style /\ fn[c] \in BlockWise
    BY <1>1, RowsOf DEF OthersUnchanged, block, NotAnswered, InOrder, Styled
  <1>9. \A j \in 1 .. fetched : i < j => Below(out, buffer[j])
    <2>1. \A j \in 1 .. fetched : i < j => idx[c] < j
      BY <1>2, Numbers DEF InOrder
    <2> QED
      BY <1>1, <2>1 DEF InOrder, ToCome, Passed
  <1>10. \A j \in 1 .. fetched : i < j => Passed(buffer[j])'
    BY <1>6, <1>7, <1>8, <1>9 DEF Passed
  <1>11. \A d \in Calls : (At(d, "copy")' => d = c) /\ ~At(d, "after")'
    BY <1>7 DEF At, Active
  <1>12. ToCome'
    <2>1. style' \cap BlockWise # {}
      BY <1>8
    <2>2. \A d \in Calls : At(d, "copy")' =>
             \A j \in 1 .. fetched' : idx'[d] < j => Passed(buffer[j])'
      BY <1>3, <1>8, <1>10, <1>11
    <2> QED
      BY <1>11, <2>1, <2>2 DEF ToCome
  <1> QED
    BY <1>7, <1>12 DEF Ordered

LEMMA WholeCopiedOrdered ==
    ASSUME InOrder, NEW c \in Calls, WholeCopied(c)
    PROVE  Ordered'
  <1>1. /\ At(c, "copy") /\ Active(c) /\ fn[c] \in BlockWise
        /\ rows' = rows /\ NotAnswered(c, "work") /\ OthersUnchanged
    BY DEF WholeCopied, OnJS, At, Active, BlockWise
  <1>2. rows' = [rows EXCEPT ![c] = rows[c]]
    BY <1>1 DEF InOrder, Typed, CallsTyped
  <1>3. /\ Styled' /\ Solo' /\ Fitting' /\ BlockOrder'
        /\ \A d \in Calls : Active(d)' => d = c
        /\ stage'[c] = "work"
    BY <1>1, <1>2, RowsOf, KeepInOrder
  <1>4. style' \cap BlockWise # {}
    BY <1>1, RowsOf DEF OthersUnchanged
  <1>5. \A d \in Calls : ~At(d, "copy")' /\ ~At(d, "after")'
    BY <1>3 DEF At, Active
  <1> QED
    BY <1>3, <1>4, <1>5 DEF Ordered, ToCome

LEMMA BlockCopiedOrdered ==
    ASSUME InOrder, NEW c \in Calls, BlockCopied(c)
    PROVE  Ordered'
  <1>1. /\ At(c, "copy") /\ Active(c) /\ fn[c] \in BlockWise
        /\ Answer(c, rows[c], FALSE) /\ OthersUnchanged
    BY DEF BlockCopied, OnJS, At, Active, InOrder, Styled
  <1>2. style \cap BlockWise # {}
    BY <1>1, RowsOf
  <1> QED
    BY <1>1, <1>2, RowsOf, AnswerInOrder DEF Answer, Ordered

LEMMA AfterRowOrdered ==
    ASSUME InOrder, NEW c \in Calls, AfterRow(c)
    PROVE  Ordered'
  <1> DEFINE data == Append(rows[c], buffer[idx[c]])
  <1>1. /\ At(c, "after") /\ result[c] = "ok" /\ Active(c) /\ OthersUnchanged
        /\ \/ Answer(c, data, FALSE)
           \/ rows' = [rows EXCEPT ![c] = data] /\ NotAnswered(c, "work")
    BY DEF AfterRow, OnJS, At, Active
  <1>2. /\ idx[c] \in 1 .. fetched /\ Passed(buffer[idx[c]])
        /\ Single \/ idx[c] <= current
    BY <1>1 DEF InOrder, ToCome
  <1>3. data = Append(rows[c], buffer[idx[c]])
    OBVIOUS
  <1> HIDE DEF data
  <1>4. /\ data \in Seq(Nat) /\ Rising(data) /\ Precedes(out, data)
        /\ Below(data, pos + 1)
        /\ \A j \in 1 .. fetched : idx[c] < j => Below(data, buffer[j])
    BY <1>1, <1>2, <1>3, OneMoreRow
  <1>5. ~Single => \A j \in 1 .. fetched : current < j => Below(data, buffer[j])
    <2> SUFFICES ASSUME ~Single, NEW j \in 1 .. fetched, current < j
                 PROVE  Below(data, buffer[j])
      OBVIOUS
    <2>1. idx[c] < j
      BY <1>2, Numbers DEF InOrder
    <2> QED
      BY <1>4, <2>1
  <1>6. CASE Answer(c, data, FALSE)
    BY <1>1, <1>4, <1>5, <1>6, AnswerInOrder DEF Answer, Ordered
  <1>7. CASE rows' = [rows EXCEPT ![c] = data] /\ NotAnswered(c, "work")
    <2>1. /\ Styled' /\ Solo' /\ Fitting' /\ BlockOrder'
          /\ \A d \in Calls : Active(d)' => d = c
          /\ stage'[c] = "work" /\ rows'[c] = data
      BY <1>1, <1>4, <1>7, KeepInOrder
    <2>2. UNCHANGED <<size, style, buffer, fetched, current, out>>
      BY <1>1, <1>7 DEF OthersUnchanged, block, NotAnswered
    <2>3. \A d \in Calls : ~At(d, "copy")' /\ ~At(d, "after")'
      BY <2>1 DEF At, Active
    <2>4. ASSUME ~Single, style \cap BlockWise = {}, NEW j \in 1 .. fetched, current < j
          PROVE  Passed(buffer[j])'
      <3>1. Below(out, buffer[j])
        BY <2>4 DEF InOrder, ToCome, Passed
      <3> QED
        BY <1>5, <2>1, <2>2, <2>4, <3>1 DEF Passed
    <2>5. ToCome'
      BY <2>2, <2>3, <2>4 DEF ToCome, Single
    <2> QED
      BY <2>1, <2>5 DEF Ordered
  <1> QED
    BY <1>1, <1>6, <1>7

LEMMA AfterNoDataOrdered ==
    ASSUME InOrder, NEW c \in Calls, AfterNoData(c)
    PROVE  Ordered'
  <1>1. /\ Active(c) /\ Answer(c, rows[c], TRUE) /\ OthersUnchanged
    BY DEF AfterNoData, OnJS, At, Active
  <1>2. ~Single /\ style \cap BlockWise = {} =>
           \A i \in 1 .. fetched : current < i => Below(rows[c], buffer[i])
    BY <1>1 DEF InOrder, ToCome, Passed
  <1> QED
    BY <1>1, <1>2, RowsOf, AnswerInOrder DEF Answer, Ordered

LEMMA AfterErrorOrdered ==
    ASSUME InOrder, NEW c \in Calls, AfterError(c)
    PROVE  Ordered'
  <1>1. /\ Active(c) /\ Finish(c) /\ OthersUnchanged /\ UNCHANGED <<rows, out>>
    BY DEF AfterError, OnJS, At, Active
  <1>2. out' = out \o <<>> /\ <<>> \in Seq(Nat)
    BY <1>1, RowsOf, ConcatEmptySeq
  <1> QED
    BY <1>1, <1>2, NoRows, AnswerInOrder DEF Ordered

LEMMA NextInOrder == KeepsStyle /\ InOrder /\ [Next]_vars => InOrder'
  <1> SUFFICES ASSUME KeepsStyle, InOrder, [Next]_vars PROVE InOrder'
    OBVIOUS
  <1>1. Typed'
    BY TypedNext DEF InOrder
  <1>2. ASSUME NEW c \in Calls, Works(c) PROVE Ordered'
    BY <1>2, FetchBlockOrdered, FetchWholeOrdered, TakeRowOrdered,
       RefillOrdered, FindsExhaustedOrdered, FetchOneRowOrdered,
       CopyRowOrdered, WholeCopiedOrdered, BlockCopiedOrdered,
       AfterRowOrdered, AfterNoDataOrdered, AfterErrorOrdered DEF Works
  <1>3. ASSUME UNCHANGED vars PROVE Ordered'
    BY <1>3 DEF vars, driver, block, calls, InOrder, Ordered, Styled, Solo,
       Fitting, BlockOrder, ToCome, Passed, Active, At, Single
  <1>4. Ordered'
    BY <1>2, <1>3, CallingOrdered, MoreResultsOrdered DEF Next
  <1> QED
    BY <1>1, <1>4 DEF InOrder, Ordered

(* For an application that waits for its calls and reads blocks in one      *)
(* style, whatever the sizes of the block and of the result sets, the rows  *)
(* in error and the failing fetches: it gets no row twice and none out of   *)
(* order (BlockFetchNextRow and the loops over a block in odbc_result.cpp). *)
THEOREM RowsComeOnceInOrder == ASSUME KeepsStyle PROVE Spec => []OnceInOrder
  <1>1. Init => InOrder
    BY InitInOrder
  <1>2. InOrder /\ [Next]_vars => InOrder'
    BY NextInOrder
  <1>3. InOrder => OnceInOrder
    BY DEF InOrder, Fitting, Rising, OnceInOrder
  <1> QED
    BY <1>1, <1>2, <1>3, PTL DEF Spec

-----------------------------------------------------------------------------
(* No row lost. *)

(* Call c has row x in hand. *)
Holds(c, x) ==
    \/ Active(c) /\ \E i \in DOMAIN rows[c] : rows[c][i] = x
    \/ At(c, "after") /\ result[c] = "ok" /\ buffer[idx[c]] = x
    \/ At(c, "copy") /\ \E i \in Left(valid, idx[c], fetched) : buffer[i] = x

(* Row x is in the block, and a row function will find it there. *)
Waiting(x) ==
    /\ ~Single /\ style \cap RowWise # {}
    /\ \E i \in Left(valid, current, fetched) : buffer[i] = x

(* What NothingLost says of one row. *)
Kept(x) ==
    \/ x \in Got \/ x \in dropped
    \/ \E c \in Calls : Holds(c, x)
    \/ Waiting(x)

NoneLost == \A x \in handed : Kept(x)

LEMMA NoneLostIsIt == Typed /\ Styled => (NoneLost <=> NothingLost)
  <1> SUFFICES ASSUME Typed, Styled PROVE NoneLost <=> NothingLost
    OBVIOUS
  <1>1. /\ \A c \in Calls : c \in Doing(Functions) <=> Active(c)
        /\ \A c \in Calls : At(c, "after") /\ result[c] = "ok"
              => fn[c] \in RowWise
    BY DEF Styled, Doing, Active, At
  <1>2. \A x : x \in InHand <=> \E c \in Calls : Holds(c, x)
    <2>1. \A x : x \in UNION {{rows[c][i] : i \in DOMAIN rows[c]} :
                                 c \in Doing(Functions)}
            <=> \E c \in Calls : Active(c) /\ \E i \in DOMAIN rows[c] : rows[c][i] = x
      BY <1>1 DEF Doing
    <2>2. \A x : x \in {buffer[idx[c]] :
                           c \in {d \in Doing(RowWise) : At(d, "after")
                                     /\ result[d] = "ok"}}
            <=> \E c \in Calls : At(c, "after") /\ result[c] = "ok" /\ buffer[idx[c]] = x
      BY <1>1 DEF Doing, At
    <2>3. \A x : x \in UNION {{buffer[i] : i \in Left(valid, idx[c], fetched)} :
                                 c \in {d \in Calls : At(d, "copy")}}
            <=> \E c \in Calls : At(c, "copy")
                    /\ \E i \in Left(valid, idx[c], fetched) : buffer[i] = x
      OBVIOUS
    <2> DEFINE taken == UNION {{rows[c][i] : i \in DOMAIN rows[c]} :
                                  c \in Doing(Functions)}
               found == {buffer[idx[c]] :
                            c \in {d \in Doing(RowWise) : At(d, "after")
                                      /\ result[d] = "ok"}}
               copied == UNION {{buffer[i] : i \in Left(valid, idx[c], fetched)} :
                                  c \in {d \in Calls : At(d, "copy")}}
    <2>5. \A x : x \in InHand <=> x \in taken \/ x \in found \/ x \in copied
      BY Zenon DEF InHand
    <2> HIDE DEF taken, found, copied
    <2>6. \A x : (\E c \in Calls : Holds(c, x)) <=>
              \/ \E c \in Calls : Active(c) /\ \E i \in DOMAIN rows[c] : rows[c][i] = x
              \/ \E c \in Calls : At(c, "after") /\ result[c] = "ok" /\ buffer[idx[c]] = x
              \/ \E c \in Calls : At(c, "copy")
                    /\ \E i \in Left(valid, idx[c], fetched) : buffer[i] = x
      BY DEF Holds
    <2> QED
      BY <2>1, <2>2, <2>3, <2>5, <2>6, Zenon DEF taken, found, copied
  <1>3. \A x : x \in Undelivered <=> Waiting(x)
    BY DEF Undelivered, Waiting
  <1> QED
    BY <1>2, <1>3 DEF NoneLost, Kept, NothingLost

(* Rows stay where they are, or go on to a call or to the application; new  *)
(* ones are in hand or wait in the block.                                   *)
LEMMA NoneLostStep ==
    ASSUME NoneLost, Got \subseteq Got', dropped \subseteq dropped',
           \A x : \A c \in Calls : Holds(c, x) => Kept(x)',
           \A x : Waiting(x) => Kept(x)',
           \A x \in handed' : x \notin handed => Kept(x)'
    PROVE  NoneLost'
  BY DEF NoneLost, Kept

(* The call that is under way is the only one with rows in hand. *)
LEMMA OnlyHolder ==
    ASSUME InOrder, NEW c \in Calls, Active(c)
    PROVE  \A x : \A d \in Calls : Holds(d, x) => d = c
  BY DEF InOrder, Solo, Holds, Active, At

LEMMA GotMore ==
    ASSUME Typed, NEW data \in Seq(Nat), out' = out \o data
    PROVE  /\ Got \subseteq Got'
           /\ \A i \in DOMAIN data : data[i] \in Got'
  <1>1. out \in Seq(Nat)
    BY Numbers
  <1>2. /\ Len(out') = Len(out) + Len(data)
        /\ \A i \in 1 .. Len(out) : out'[i] = out[i]
        /\ \A i \in 1 .. Len(data) : out'[Len(out) + i] = data[i]
        /\ out' \in Seq(Nat)
    BY <1>1
  <1>3. Got \subseteq Got'
    <2>1. /\ DOMAIN out = 1 .. Len(out) /\ DOMAIN out' = 1 .. Len(out')
          /\ Len(out) \in Nat /\ Len(data) \in Nat
      BY <1>1, <1>2
    <2>2. ASSUME NEW i \in DOMAIN out PROVE i \in DOMAIN out' /\ out'[i] = out[i]
      BY <1>2, <2>1
    <2> QED
      BY <2>2 DEF Got
  <1>4. ASSUME NEW i \in DOMAIN data PROVE data[i] \in Got'
    <2>1. /\ i \in 1 .. Len(data) /\ Len(out) \in Nat /\ Len(data) \in Nat
      BY <1>1
    <2>2. Len(out) + i \in 1 .. Len(out')
      BY <1>2, <2>1
    <2> QED
      BY <1>2, <2>1, <2>2 DEF Got
  <1> QED
    BY <1>3, <1>4

LEMMA CallingKeeps ==
    ASSUME InOrder, NoneLost, NEW c \in Calls, NEW f \in Functions,
           NEW n \in Counts \cup {0}, Calling(c, f, n)
    PROVE  NoneLost'
  <1>1. /\ UNCHANGED <<size, style, buffer, valid, fetched, current, handed>>
        /\ UNCHANGED <<rows, result, idx, out, dropped>>
        /\ At(c, "new")
        /\ \E s : stage' = [stage EXCEPT ![c] = s]
    BY DEF Calling, driver, block
  <1>2. \A d \in Calls : d # c => stage'[d] = stage[d]
    BY <1>1 DEF InOrder, Typed, CallsTyped
  <1>3. \A x : \A d \in Calls : Holds(d, x) => Holds(d, x)'
    BY <1>1, <1>2 DEF Holds, Active, At, Left
  <1>4. \A x : Waiting(x) => Waiting(x)'
    BY <1>1 DEF Waiting, Single
  <1>5. Got' = Got
    BY <1>1 DEF Got
  <1> QED
    BY <1>1, <1>3, <1>4, <1>5, NoneLostStep DEF Kept

LEMMA MoreResultsKeeps ==
    ASSUME InOrder, NoneLost, MoreResultsSync
    PROVE  NoneLost'
  BY DEF MoreResultsSync, block, calls, NoneLost, Kept, Holds, Waiting, Got,
         Active, At, Single

(* What a worker leaves of the rows of the calls: it only adds to the hand  *)
(* of c.                                                                    *)
LEMMA FetchedKeeps ==
    ASSUME InOrder, NEW c \in Calls, At(c, "work"),
           UNCHANGED <<size, style, fifo, out, dropped>>,
           NEW r, NEW i, NEW s \in {"after", "copy"},
           Fetched(c, r, i, s)
    PROVE  /\ Got' = Got /\ dropped' = dropped
           /\ stage'[c] = s /\ result'[c] = r /\ idx'[c] = i
           /\ \A x : \A d \in Calls : Holds(d, x) => Holds(d, x)'
  <1>1. /\ stage'[c] = s /\ result'[c] = r /\ idx'[c] = i
        /\ rows' = rows
    BY DEF Fetched, InOrder, Typed, CallsTyped
  <1>2. \A x : \A d \in Calls : Holds(d, x) => d = c
    BY OnlyHolder DEF Active, At
  <1>3. \A x : Holds(c, x) => Holds(c, x)'
    BY <1>1 DEF Holds, Active, At
  <1> QED
    BY <1>1, <1>2, <1>3 DEF Got

(* Nothing is fetched while nothing waits in the block, or the block stays. *)
LEMMA NothingFetchedKeeps ==
    ASSUME InOrder, NoneLost, NEW c \in Calls, At(c, "work"),
           UNCHANGED <<size, style, fifo, out, dropped>>,
           NEW r \in {"nodata", "error"}, Fetched(c, r, 0, "after"),
           \/ (FetchNoData \/ FetchError) /\ \A x : ~Waiting(x)
           \/ UNCHANGED <<handed, block, current>>
    PROVE  NoneLost'
  <1>1. /\ Got' = Got /\ dropped' = dropped
        /\ \A x : \A d \in Calls : Holds(d, x) => Holds(d, x)'
    BY FetchedKeeps
  <1>2. handed' = handed
    BY TypedNoData, TypedError, TypedIsTypeOK DEF InOrder
  <1>3. \A x : Waiting(x) => Waiting(x)'
    BY DEF Waiting, Single, block
  <1> QED
    BY <1>1, <1>2, <1>3, NoneLostStep DEF Kept

(* The rows a successful SQLFetch hands over. *)
LEMMA NewRows ==
    ASSUME InOrder, NEW good \in SUBSET (1 .. size), FetchRows(good)
    PROVE  /\ valid' = good /\ fetched' \in 1 .. size
           /\ \A i \in good : i \in 1 .. fetched' /\ buffer'[i] = pos + i
           /\ \A x \in handed' : x \notin handed => \E i \in good : buffer'[i] = x
  <1>1. size \in Nat \ {0} /\ pos \in Nat /\ fetched' \in 1 .. size
    BY Numbers, TypedRows, TypedIsTypeOK DEF InOrder
  <1>2. \A i \in 1 .. fetched' : buffer'[i] = pos + i
    BY <1>1 DEF FetchRows
  <1>3. /\ valid' = good /\ good \subseteq 1 .. fetched'
        /\ handed' = handed \cup {pos + i : i \in good}
    BY DEF FetchRows
  <1> QED
    BY <1>1, <1>2, <1>3

LEMMA BlockFetchedKeeps ==
    ASSUME InOrder, NoneLost, NEW c \in Calls, At(c, "work"),
           \A x : ~Waiting(x),
           UNCHANGED <<size, style, fifo, out, dropped>>,
           NEW good \in SUBSET (1 .. size), FetchRows(good),
           Fetched(c, "ok", 0, "copy")
    PROVE  NoneLost'
  <1>1. /\ Got' = Got /\ dropped' = dropped
        /\ stage'[c] = "copy" /\ idx'[c] = 0
        /\ \A x : \A d \in Calls : Holds(d, x) => Holds(d, x)'
    BY FetchedKeeps
  <1>2. \A x \in handed' : x \notin handed => Holds(c, x)'
    <2> SUFFICES ASSUME NEW x \in handed', x \notin handed PROVE Holds(c, x)'
      OBVIOUS
    <2>1. PICK i \in good : buffer'[i] = x
      BY NewRows
    <2>2. i \in valid' /\ 0 < i /\ i <= fetched'
      BY NewRows, <2>1
    <2> QED
      BY <1>1, <2>1, <2>2 DEF Holds, At, Left
  <1> QED
    BY <1>1, <1>2, NoneLostStep DEF Kept

LEMMA RowFetchedKeeps ==
    ASSUME InOrder, NoneLost, NEW c \in Calls, At(c, "work"),
           \A x : ~Waiting(x),
           UNCHANGED <<size, style, fifo, out, dropped>>,
           NEW good \in SUBSET (1 .. size), FetchRows(good),
           NEW i \in First(good), Fetched(c, "ok", i, "after"),
           \/ good = {i}
           \/ ~Single /\ style \cap RowWise # {} /\ current' = i
    PROVE  NoneLost'
  <1>1. /\ Got' = Got /\ dropped' = dropped
        /\ stage'[c] = "after" /\ result'[c] = "ok" /\ idx'[c] = i
        /\ \A x : \A d \in Calls : Holds(d, x) => Holds(d, x)'
    BY FetchedKeeps
  <1>2. \A x \in handed' : x \notin handed => Holds(c, x)' \/ Waiting(x)'
    <2> SUFFICES ASSUME NEW x \in handed', x \notin handed
                 PROVE  Holds(c, x)' \/ Waiting(x)'
      OBVIOUS
    <2>1. PICK j \in good : buffer'[j] = x
      BY NewRows
    <2>2. j \in valid' /\ j <= fetched' /\ j \in Nat /\ i \in Nat /\ i <= j
      BY NewRows, <2>1 DEF First
    <2>3. CASE j = i
      BY <1>1, <2>1, <2>3 DEF Holds, At
    <2>4. CASE j # i
      <3>1. i < j
        BY <2>2, <2>4
      <3> QED
        BY <2>1, <2>2, <2>4, <3>1 DEF Waiting, Left, Single
    <2> QED
      BY <2>3, <2>4
  <1> QED
    BY <1>1, <1>2, NoneLostStep DEF Kept

(* A block-wise function is at work, or there are no blocks. *)
LEMMA NoneWaiting ==
    ASSUME InOrder, NEW c \in Calls, Active(c), Single \/ fn[c] \in BlockWise
    PROVE  \A x : ~Waiting(x)
  BY DEF InOrder, Styled, Waiting

LEMMA FetchBlockKeeps ==
    ASSUME InOrder, NoneLost, NEW c \in Calls, FetchBlock(c)
    PROVE  NoneLost'
  <1>1. /\ At(c, "work") /\ fn[c] \in BlockWise
        /\ UNCHANGED <<size, style, fifo, out, dropped>>
    BY DEF FetchBlock, BlockWise
  <1>2. \A x : ~Waiting(x)
    BY <1>1, NoneWaiting DEF Active, At
  <1>3. CASE Fetched(c, "nodata", 0, "after") /\ NotFetching
    BY <1>1, <1>3, NothingFetchedKeeps DEF NotFetching, driver
  <1>4. CASE /\ \E good \in SUBSET (1 .. size) : FetchRows(good)
             /\ Fetched(c, "ok", 0, "copy")
    BY <1>1, <1>2, <1>4, BlockFetchedKeeps
  <1>5. CASE FetchNoData /\ Fetched(c, "nodata", 0, "after")
    BY <1>1, <1>2, <1>5, NothingFetchedKeeps
  <1>6. CASE FetchError /\ Fetched(c, "error", 0, "after")
    BY <1>1, <1>2, <1>6, NothingFetchedKeeps
  <1> QED
    BY <1>3, <1>4, <1>5, <1>6 DEF FetchBlock

LEMMA FetchWholeKeeps ==
    ASSUME InOrder, NoneLost, NEW c \in Calls, FetchWhole(c)
    PROVE  NoneLost'
  <1>1. /\ At(c, "work") /\ fn[c] \in BlockWise
        /\ UNCHANGED <<size, style, fifo, out, dropped>>
    BY DEF FetchWhole, BlockWise
  <1>2. \A x : ~Waiting(x)
    BY <1>1, NoneWaiting DEF Active, At
  <1>3. CASE /\ \E good \in SUBSET (1 .. size) : FetchRows(good)
             /\ Fetched(c, "ok", 0, "copy")
    BY <1>1, <1>2, <1>3, BlockFetchedKeeps
  <1>4. CASE FetchNoData /\ Fetched(c, "nodata", 0, "after")
    BY <1>1, <1>2, <1>4, NothingFetchedKeeps
  <1>5. CASE FetchError /\ Fetched(c, "error", 0, "after")
    BY <1>1, <1>2, <1>5, NothingFetchedKeeps
  <1> QED
    BY <1>3, <1>4, <1>5 DEF FetchWhole

(* The row taken goes from the block to the hand, the rows after it stay.   *)
LEMMA TakeRowKeeps ==
    ASSUME InOrder, NoneLost, NEW c \in Calls, TakeRow(c)
    PROVE  NoneLost'
  <1>1. /\ At(c, "work") /\ ~Single
        /\ UNCHANGED <<size, style, fifo, out, dropped, handed, buffer, valid, fetched>>
    BY DEF TakeRow, driver, block
  <1>2. PICK i \in First(Left(valid, current, fetched)) :
           current' = i /\ Fetched(c, "ok", i, "after")
    BY DEF TakeRow
  <1>3. /\ Got' = Got /\ dropped' = dropped
        /\ stage'[c] = "after" /\ result'[c] = "ok" /\ idx'[c] = i
        /\ \A x : \A d \in Calls : Holds(d, x) => Holds(d, x)'
    BY <1>1, <1>2, FetchedKeeps
  <1>4. \A x : Waiting(x) => Holds(c, x)' \/ Waiting(x)'
    <2> SUFFICES ASSUME NEW x, Waiting(x) PROVE Holds(c, x)' \/ Waiting(x)'
      OBVIOUS
    <2>1. PICK j \in Left(valid, current, fetched) : buffer[j] = x
      BY DEF Waiting
    <2>2. /\ j \in valid /\ j <= fetched /\ i <= j
          /\ j \in Int /\ i \in Int
      BY <1>2, <2>1 DEF First, Left, InOrder, Typed, BlockTyped
    <2>3. CASE j = i
      BY <1>1, <1>3, <2>1, <2>3 DEF Holds, At
    <2>4. CASE j # i
      <3>1. i < j
        BY <2>2, <2>4
      <3> QED
        BY <1>1, <1>2, <2>1, <2>2, <3>1 DEF Waiting, Left, Single
    <2> QED
      BY <2>3, <2>4
  <1> QED
    BY <1>1, <1>3, <1>4, NoneLostStep DEF Kept

LEMMA RefillKeeps ==
    ASSUME InOrder, NoneLost, NEW c \in Calls, Refill(c)
    PROVE  NoneLost'
  <1>1. /\ At(c, "work") /\ ~Single /\ style \cap RowWise # {}
        /\ UNCHANGED <<size, style, fifo, out, dropped>>
    BY DEF Refill, InOrder, Styled, Active, At
  <1>2. \A x : ~Waiting(x)
    BY DEF Refill, Waiting
  <1>3. ASSUME NEW good \in SUBSET (1 .. size), FetchRows(good), valid' = {},
               UNCHANGED calls
        PROVE  NoneLost'
    <2>1. handed' \subseteq handed
      BY <1>3, NewRows
    <2>2. \A x : \A d \in Calls : Holds(d, x) => Holds(d, x)'
      <3>1. UNCHANGED <<stage, rows, result, idx>>
        BY <1>3 DEF calls
      <3>2. \A x : \A d \in Calls : Holds(d, x) => d = c
        BY <1>1, OnlyHolder DEF Active, At
      <3>3. \A x : Holds(c, x) => Holds(c, x)'
        BY <1>1, <3>1 DEF Holds, Active, At
      <3> QED
        BY <3>2, <3>3
    <2> QED
      BY <1>1, <1>2, <2>1, <2>2, NoneLostStep DEF Kept, Got
  <1>4. ASSUME NEW good \in SUBSET (1 .. size), FetchRows(good),
               NEW i \in First(valid'), current' = i, Fetched(c, "ok", i, "after")
        PROVE  NoneLost'
    <2>1. i \in First(good)
      BY <1>4, NewRows
    <2> QED
      BY <1>1, <1>2, <1>4, <2>1, RowFetchedKeeps
  <1>5. CASE FetchNoData /\ Fetched(c, "nodata", 0, "after")
    BY <1>1, <1>2, <1>5, NothingFetchedKeeps
  <1>6. CASE FetchError /\ Fetched(c, "error", 0, "after")
    BY <1>1, <1>2, <1>6, NothingFetchedKeeps
  <1> QED
    BY <1>3, <1>4, <1>5, <1>6 DEF Refill

LEMMA FindsExhaustedKeeps ==
    ASSUME InOrder, NoneLost, NEW c \in Calls, FindsExhausted(c)
    PROVE  NoneLost'
  <1>1. /\ At(c, "work") /\ Fetched(c, "nodata", 0, "after")
        /\ UNCHANGED <<size, style, fifo, out, dropped>>
        /\ UNCHANGED <<handed, block, current>>
    BY DEF FindsExhausted, NotFetching, driver
  <1> QED
    BY <1>1, NothingFetchedKeeps

LEMMA FetchOneRowKeeps ==
    ASSUME InOrder, NoneLost, NEW c \in Calls, FetchOneRow(c)
    PROVE  NoneLost'
  <1>1. /\ At(c, "work") /\ Single
        /\ UNCHANGED <<size, style, fifo, out, dropped>>
    BY DEF FetchOneRow
  <1>2. \A x : ~Waiting(x)
    BY <1>1 DEF Waiting
  <1>3. CASE FetchRows({1}) /\ Fetched(c, "ok", 1, "after")
    <2>1. {1} \in SUBSET (1 .. size) /\ 1 \in First({1})
      BY <1>1 DEF Single, First
    <2> QED
      BY <1>1, <1>2, <1>3, <2>1, RowFetchedKeeps
  <1>4. CASE FetchNoData /\ Fetched(c, "nodata", 0, "after")
    BY <1>1, <1>2, <1>4, NothingFetchedKeeps
  <1>5. CASE FetchError /\ Fetched(c, "error", 0, "after")
    BY <1>1, <1>2, <1>5, NothingFetchedKeeps
  <1> QED
    BY <1>3, <1>4, <1>5 DEF FetchOneRow

(* On the JavaScript thread the block stays as it is; what c holds stays in *)
(* its hand, or is answered.                                                *)
LEMMA HandedOnKeeps ==
    ASSUME InOrder, NoneLost, NEW c \in Calls, Active(c), OthersUnchanged,
           Got \subseteq Got', dropped \subseteq dropped',
           \A x : Holds(c, x) => Kept(x)'
    PROVE  NoneLost'
  <1>1. handed' = handed /\ \A x : Waiting(x) => Waiting(x)'
    BY DEF OthersUnchanged, driver, block, Waiting, Single
  <1>2. \A x : \A d \in Calls : Holds(d, x) => Kept(x)'
    BY OnlyHolder
  <1> QED
    BY <1>1, <1>2, NoneLostStep DEF Kept

LEMMA KeepRow ==
    ASSUME Typed, NEW c \in Calls, NEW row \in Nat,
           rows' = [rows EXCEPT ![c] = Append(@, row)], Active(c)'
    PROVE  /\ \A x : (\E i \in DOMAIN rows[c] : rows[c][i] = x) => Holds(c, x)'
           /\ Holds(c, row)'
  <1>1. rows[c] \in Seq(Nat) /\ rows'[c] = Append(rows[c], row)
    BY Numbers DEF Typed, CallsTyped
  <1>2. /\ \A i \in DOMAIN rows[c] : i \in DOMAIN rows'[c] /\ rows'[c][i] = rows[c][i]
        /\ \E i \in DOMAIN rows'[c] : rows'[c][i] = row
    <2>1. Len(rows[c]) + 1 \in DOMAIN rows'[c] /\ rows'[c][Len(rows[c]) + 1] = row
      BY <1>1
    <2> QED
      BY <1>1, <2>1
  <1> QED
    BY <1>2 DEF Holds

LEMMA CopyRowKeeps ==
    ASSUME InOrder, NoneLost, NEW c \in Calls, CopyRow(c)
    PROVE  NoneLost'
  <1>1. /\ At(c, "copy") /\ Active(c) /\ idx[c] < fetched /\ OthersUnchanged
        /\ idx' = [idx EXCEPT ![c] = @ + 1]
        /\ rows' = [rows EXCEPT ![c] = IF idx'[c] \in valid
                                       THEN Append(@, buffer[idx'[c]]) ELSE @]
        /\ stage' = [stage EXCEPT ![c] = "copy"]
        /\ Got' = Got /\ dropped' = dropped
        /\ UNCHANGED <<buffer, valid, fetched>>
    BY DEF CopyRow, OnJS, At, Active, NotAnswered, Got, OthersUnchanged, block
  <1>2. /\ idx'[c] = idx[c] + 1 /\ stage'[c] = "copy"
        /\ idx[c] \in Nat /\ fetched \in Nat /\ valid \subseteq 1 .. size
        /\ size \in Nat /\ rows[c] \in Seq(Nat)
    BY <1>1, Numbers DEF InOrder, Typed, CallsTyped, BlockTyped
  <1>3. ASSUME NEW x, NEW i \in DOMAIN rows[c], rows[c][i] = x PROVE Holds(c, x)'
    <2>1. CASE idx'[c] \in valid
      <3>1. buffer[idx'[c]] \in Nat
        BY <1>2, <2>1, Numbers DEF InOrder
      <3>2. rows' = [rows EXCEPT ![c] = Append(@, buffer[idx'[c]])]
        BY <1>1, <2>1
      <3>3. Active(c)' /\ Typed
        BY <1>2 DEF InOrder, Active
      <3> QED
        BY <1>3, <3>1, <3>2, <3>3, KeepRow
    <2>2. CASE idx'[c] \notin valid
      <3>1. rows'[c] = rows[c]
        BY <1>1, <2>2 DEF InOrder, Typed, CallsTyped
      <3> QED
        BY <1>2, <1>3, <3>1 DEF Holds, Active
    <2> QED
      BY <2>1, <2>2
  <1>4. ASSUME NEW x, NEW i \in Left(valid, idx[c], fetched), buffer[i] = x
        PROVE  Holds(c, x)'
    <2>1. i \in valid /\ i \in Nat /\ idx[c] < i /\ i <= fetched /\ i \in 1 .. size
      BY <1>2, <1>4 DEF Left
    <2>2. CASE i = idx'[c]
      <3>1. buffer[i] \in Nat
        BY <2>1, Numbers DEF InOrder
      <3>2. rows' = [rows EXCEPT ![c] = Append(@, buffer[i])]
        BY <1>1, <2>1, <2>2
      <3> QED
        BY <1>2, <1>4, <3>1, <3>2, KeepRow DEF InOrder, Active
    <2>3. CASE i # idx'[c]
      <3>1. idx'[c] < i
        BY <1>2, <2>1, <2>3
      <3> QED
        BY <1>1, <1>2, <1>4, <2>1, <3>1 DEF Holds, At, Left
    <2> QED
      BY <2>2, <2>3
  <1>5. \A x : Holds(c, x) => Holds(c, x)'
    BY <1>1, <1>3, <1>4 DEF Holds, At
  <1> QED
    BY <1>1, <1>5, HandedOnKeeps DEF Kept

(* A block that has been copied leaves nothing behind. *)
LEMMA Copied ==
    ASSUME InOrder, NEW c \in Calls, At(c, "copy"), idx[c] >= fetched
    PROVE  \A x : Holds(c, x) => \E i \in DOMAIN rows[c] : rows[c][i] = x
  <1>1. Left(valid, idx[c], fetched) = {}
    <2>1. idx[c] \in Nat /\ fetched \in Nat /\ valid \subseteq Nat
      BY Numbers DEF InOrder, Typed, BlockTyped
    <2>2. ASSUME NEW i \in Left(valid, idx[c], fetched) PROVE FALSE
      BY <2>1, <2>2 DEF Left
    <2> QED
      BY <2>2
  <1> QED
    BY <1>1 DEF Holds, At

LEMMA WholeCopiedKeeps ==
    ASSUME InOrder, NoneLost, NEW c \in Calls, WholeCopied(c)
    PROVE  NoneLost'
  <1>1. /\ At(c, "copy") /\ Active(c) /\ idx[c] >= fetched /\ OthersUnchanged
        /\ stage' = [stage EXCEPT ![c] = "work"]
        /\ Got' = Got /\ dropped' = dropped /\ rows' = rows
    BY DEF WholeCopied, OnJS, At, Active, NotAnswered, Got
  <1>2. stage'[c] = "work"
    BY <1>1 DEF InOrder, Typed, CallsTyped
  <1>3. \A x : Holds(c, x) => Holds(c, x)'
    BY <1>1, <1>2, Copied DEF Holds, Active
  <1> QED
    BY <1>1, <1>3, HandedOnKeeps DEF Kept

(* The application gets all that c has in hand. *)
LEMMA AnswerKeeps ==
    ASSUME InOrder, NoneLost, NEW c \in Calls, Active(c), OthersUnchanged,
           NEW data \in Seq(Nat), NEW end, Answer(c, data, end),
           \A x : Holds(c, x) => \E i \in DOMAIN data : data[i] = x
    PROVE  NoneLost'
  <1>1. Got \subseteq Got' /\ \A i \in DOMAIN data : data[i] \in Got'
    BY GotMore DEF Answer, InOrder
  <1>2. \A x : Holds(c, x) => x \in Got'
    BY <1>1
  <1>3. dropped' = dropped
    BY DEF Answer
  <1> QED
    BY <1>1, <1>2, <1>3, HandedOnKeeps DEF Kept

LEMMA BlockCopiedKeeps ==
    ASSUME InOrder, NoneLost, NEW c \in Calls, BlockCopied(c)
    PROVE  NoneLost'
  <1>1. /\ At(c, "copy") /\ Active(c) /\ idx[c] >= fetched /\ OthersUnchanged
        /\ Answer(c, rows[c], FALSE)
    BY DEF BlockCopied, OnJS, At, Active
  <1> QED
    BY <1>1, Copied, RowsOf, AnswerKeeps

LEMMA AfterRowKeeps ==
    ASSUME InOrder, NoneLost, NEW c \in Calls, AfterRow(c)
    PROVE  NoneLost'
  <1> DEFINE row == buffer[idx[c]]
             data == Append(rows[c], row)
  <1>1. /\ At(c, "after") /\ result[c] = "ok" /\ Active(c) /\ OthersUnchanged
        /\ \/ Answer(c, data, FALSE)
           \/ rows' = [rows EXCEPT ![c] = Append(@, row)] /\ NotAnswered(c, "work")
    BY DEF AfterRow, OnJS, At, Active
  <1>2. idx[c] \in 1 .. fetched /\ row \in Nat /\ rows[c] \in Seq(Nat)
    BY <1>1, Numbers DEF InOrder, ToCome
  <1>3. \A x : Holds(c, x) => x = row \/ \E i \in DOMAIN rows[c] : rows[c][i] = x
    BY <1>1 DEF Holds, At
  <1> HIDE DEF row
  <1>4. CASE Answer(c, data, FALSE)
    <2>1. data \in Seq(Nat)
      BY <1>2
    <2>2. /\ Len(rows[c]) + 1 \in DOMAIN data /\ data[Len(rows[c]) + 1] = row
          /\ \A i \in DOMAIN rows[c] : i \in DOMAIN data /\ data[i] = rows[c][i]
      BY <1>2
    <2>3. \A x : Holds(c, x) => \E i \in DOMAIN data : data[i] = x
      BY <1>3, <2>2
    <2> QED
      BY <1>1, <1>4, <2>1, <2>3, AnswerKeeps
  <1>5. CASE rows' = [rows EXCEPT ![c] = Append(@, row)] /\ NotAnswered(c, "work")
    <2>1. /\ stage'[c] = "work" /\ Got' = Got /\ dropped' = dropped
      BY <1>5 DEF NotAnswered, InOrder, Typed, CallsTyped, Got
    <2>2. Active(c)' /\ Typed
      BY <2>1 DEF InOrder, Active
    <2>3. /\ \A x : (\E i \in DOMAIN rows[c] : rows[c][i] = x) => Holds(c, x)'
          /\ \A x : x = row => Holds(c, x)'
      <3>1. PICK r \in Nat : r = row
        BY <1>2
      <3>2. rows' = [rows EXCEPT ![c] = Append(@, r)]
        BY <1>5, <3>1
      <3> QED
        BY <2>2, <3>1, <3>2, KeepRow
    <2>4. \A x : Holds(c, x) => Holds(c, x)'
      BY <1>3, <2>3
    <2> QED
      BY <1>1, <2>1, <2>4, HandedOnKeeps DEF Kept
  <1> QED
    BY <1>1, <1>4, <1>5

LEMMA AfterNoDataKeeps ==
    ASSUME InOrder, NoneLost, NEW c \in Calls, AfterNoData(c)
    PROVE  NoneLost'
  <1>1. /\ At(c, "after") /\ result[c] = "nodata" /\ Active(c)
        /\ Answer(c, rows[c], TRUE) /\ OthersUnchanged
    BY DEF AfterNoData, OnJS, At, Active
  <1>2. \A x : Holds(c, x) => \E i \in DOMAIN rows[c] : rows[c][i] = x
    BY <1>1 DEF Holds, At
  <1> QED
    BY <1>1, <1>2, RowsOf, AnswerKeeps

LEMMA AfterErrorKeeps ==
    ASSUME InOrder, NoneLost, NEW c \in Calls, AfterError(c)
    PROVE  NoneLost'
  <1>1. /\ At(c, "after") /\ result[c] = "error" /\ Active(c) /\ OthersUnchanged
        /\ dropped' = dropped \cup {rows[c][i] : i \in DOMAIN rows[c]}
        /\ Got' = Got
    BY DEF AfterError, OnJS, At, Active, Got
  <1>2. \A x : Holds(c, x) => x \in dropped'
    BY <1>1 DEF Holds, At
  <1> QED
    BY <1>1, <1>2, HandedOnKeeps DEF Kept

LEMMA NextKeeps == InOrder /\ NoneLost /\ [Next]_vars => NoneLost'
  <1> SUFFICES ASSUME InOrder, NoneLost, [Next]_vars PROVE NoneLost'
    OBVIOUS
  <1>1. ASSUME NEW c \in Calls, Works(c) PROVE NoneLost'
    BY <1>1, FetchBlockKeeps, FetchWholeKeeps, TakeRowKeeps, RefillKeeps,
       FindsExhaustedKeeps, FetchOneRowKeeps, CopyRowKeeps, WholeCopiedKeeps,
       BlockCopiedKeeps, AfterRowKeeps, AfterNoDataKeeps, AfterErrorKeeps
       DEF Works
  <1>2. ASSUME UNCHANGED vars PROVE NoneLost'
    BY <1>2 DEF vars, driver, block, calls, NoneLost, Kept, Holds, Waiting,
       Got, Active, At, Single
  <1> QED
    BY <1>1, <1>2, CallingKeeps, MoreResultsKeeps DEF Next

(* For the same application no row that SQLFetch has delivered is lost      *)
(* between its calls: what BlockFetchNextRow and the loops over a block     *)
(* leave in the block comes with a later call.                              *)
THEOREM NoRowIsLost == ASSUME KeepsStyle PROVE Spec => []NothingLost
  <1>1. Init => InOrder /\ NoneLost
    BY InitInOrder DEF Init, NoneLost
  <1>2. InOrder /\ NoneLost /\ [Next]_vars => (InOrder /\ NoneLost)'
    BY NextInOrder, NextKeeps
  <1>3. InOrder /\ NoneLost => NothingLost
    BY NoneLostIsIt DEF InOrder
  <1> QED
    BY <1>1, <1>2, <1>3, PTL DEF Spec

-----------------------------------------------------------------------------
(* The end of a result set. *)

(* m_blockExhausted survives moreResultsSync; fetchAllSync, which does not  *)
(* look at it, is the function that reads several result sets.              *)
KeepsSet ==
    \A s \in Styles :
        "moreResultsSync" \in s => s \cap Functions \subseteq {"fetchAllSync"}

(* The driver has no more rows in this set, and nothing waits in the block. *)
AtEnd == pos = Ends[set] /\ \A x : ~Waiting(x)

NoneHeld == \A x : \A c \in Calls : ~Holds(c, x)

Ending ==
    /\ \/ Single \/ "moreResultsSync" \notin style
       \/ style \cap Functions \subseteq {"fetchAllSync"}
    /\ exhausted => ~Single /\ "moreResultsSync" \notin style /\ AtEnd
    /\ \A c \in Calls : At(c, "after") /\ result[c] = "nodata" => AtEnd
    /\ ended => AtEnd /\ NoneHeld

LEMMA EndingIsEnd ==
    ASSUME InOrder, NoneLost, Ending
    PROVE  EndIsEnd
  BY DEF Ending, AtEnd, NoneHeld, NoneLost, Kept, EndIsEnd

LEMMA EndingInit == ASSUME KeepsSet, Init PROVE Ending
  BY DEF Init, KeepsSet, Ending, Single, At

LEMMA CallingEnding ==
    ASSUME InOrder, Ending, NEW c \in Calls, NEW f \in Functions,
           NEW n \in Counts \cup {0}, Calling(c, f, n)
    PROVE  Ending'
  <1>1. /\ UNCHANGED <<size, style, buffer, valid, fetched, current, set, pos>>
        /\ UNCHANGED <<rows, result, idx, exhausted, ended>>
        /\ At(c, "new")
        /\ \E s \in {"queued", "work"} : stage' = [stage EXCEPT ![c] = s]
    BY DEF Calling, driver, block
  <1>2. /\ stage'[c] \in {"queued", "work"} /\ rows[c] = <<>>
        /\ \A d \in Calls : d # c => stage'[d] = stage[d]
    BY <1>1 DEF InOrder, Solo, Typed, CallsTyped, At
  <1>3. AtEnd => AtEnd'
    BY <1>1 DEF AtEnd, Waiting, Single
  <1>4. NoneHeld => NoneHeld'
    BY <1>1, <1>2 DEF NoneHeld, Holds, Active, At
  <1>5. \A d \in Calls : At(d, "after")' => At(d, "after")
    BY <1>2 DEF At
  <1> QED
    BY <1>1, <1>3, <1>4, <1>5 DEF Ending, Single

(* No call is under way, and the next set is new to the application. *)
LEMMA MoreResultsEnding ==
    ASSUME KeepsStyle, InOrder, Ending, MoreResultsSync
    PROVE  Ending'
  <1>1. /\ UNCHANGED <<size, style, exhausted, stage, result>> /\ ended' = FALSE
        /\ "moreResultsSync" \in style /\ Doing(Functions) = {}
    BY DEF MoreResultsSync, calls, KeepsStyle
  <1>2. \A c \in Calls : ~At(c, "after")
    BY <1>1 DEF InOrder, Styled, Active, At, Doing
  <1> QED
    BY <1>1, <1>2 DEF Ending, Single, At

(* A step with a row, which there is only before the end. *)
LEMMA RowEnding ==
    ASSUME InOrder, Ending, NEW c \in Calls, ~AtEnd,
           UNCHANGED <<size, style, exhausted, ended>>,
           \/ UNCHANGED calls
           \/ \E i, s : Fetched(c, "ok", i, s)
    PROVE  Ending'
  <1>1. ~exhausted /\ ~ended
    BY DEF Ending
  <1>2. \A d \in Calls : ~(At(d, "after") /\ result[d] = "nodata")
    BY DEF Ending
  <1>3. \A d \in Calls : ~(At(d, "after")' /\ result'[d] = "nodata")
    <2>1. CASE UNCHANGED calls
      BY <1>2, <2>1 DEF calls, At
    <2>2. CASE \E i, s : Fetched(c, "ok", i, s)
      <3>1. /\ result'[c] = "ok"
            /\ \A d \in Calls : d # c => stage'[d] = stage[d] /\ result'[d] = result[d]
        BY <2>2 DEF Fetched, InOrder, Typed, CallsTyped
      <3> QED
        BY <1>2, <3>1 DEF At
    <2> QED
      BY <2>1, <2>2
  <1> QED
    BY <1>1, <1>3 DEF Ending, Single

(* A worker that comes back without a row. *)
LEMMA NoRowEnding ==
    ASSUME InOrder, Ending, NEW c \in Calls, At(c, "work"),
           UNCHANGED <<size, style, set, pos, ended>>,
           NEW r \in {"nodata", "error"}, Fetched(c, r, 0, "after"),
           r = "nodata" => pos = Ends[set],
           \/ fetched' = 0 /\ valid' = valid
           \/ r = "nodata" /\ AtEnd /\ UNCHANGED <<block, current>>,
           \/ exhausted' = exhausted
           \/ ~Single /\ "moreResultsSync" \notin style /\ r = "nodata"
    PROVE  Ending'
  <1>1. /\ stage'[c] = "after" /\ result'[c] = r /\ rows' = rows
        /\ \A d \in Calls : d # c => stage'[d] = stage[d] /\ result'[d] = result[d]
    BY DEF Fetched, InOrder, Typed, CallsTyped
  <1>2. \A x : ~Waiting(x)'
    <2>1. CASE fetched' = 0 /\ valid' = valid
      <3>1. valid \subseteq Nat \ {0}
        BY Numbers DEF InOrder, Typed, BlockTyped
      <3>2. \A i \in valid : ~(i <= 0)
        BY <3>1
      <3>3. \A i \in valid' : ~(i <= fetched')
        BY <2>1, <3>2
      <3> QED
        BY <3>3 DEF Waiting, Left
    <2>2. CASE AtEnd /\ UNCHANGED <<block, current>>
      BY <2>2 DEF AtEnd, Waiting, Single, block
    <2> QED
      BY <2>1, <2>2
  <1>3. (r = "nodata" => AtEnd') /\ (AtEnd => AtEnd')
    BY <1>2 DEF AtEnd
  <1>4. NoneHeld => NoneHeld'
    <2>1. \A d \in Calls : d # c => ~Active(d)
      BY DEF InOrder, Solo, Active, At
    <2>2. \A d \in Calls : d # c => ~Active(d)'
      BY <1>1, <2>1 DEF Active
    <2>3. \A x : \A d \in Calls : Holds(d, x)' => d = c
      BY <2>2 DEF Holds, Active, At
    <2>4. \A x : Holds(c, x)' => Holds(c, x)
      BY <1>1 DEF Holds, Active, At
    <2> QED
      BY <2>3, <2>4 DEF NoneHeld
  <1>5. \A d \in Calls : At(d, "after")' /\ result'[d] = "nodata" => AtEnd'
    BY <1>1, <1>3 DEF Ending, At
  <1> QED
    BY <1>3, <1>4, <1>5 DEF Ending, Single

LEMMA NoDataIsEnd ==
    ASSUME InOrder, FetchNoData \/ FetchError
    PROVE  /\ set' = set /\ pos' = pos /\ fetched' = 0 /\ valid' = valid
           /\ FetchNoData => pos = Ends[set]
  BY TypedNoData, TypedError, TypedIsTypeOK DEF InOrder, FetchNoData

LEMMA RowsAreNotEnd ==
    ASSUME InOrder, NEW good, FetchRows(good)
    PROVE  ~AtEnd
  BY Numbers DEF FetchRows, AtEnd, InOrder

(* A function that looks at m_blockExhausted reads one result set only.     *)
LEMMA OneSet ==
    ASSUME InOrder, Ending, NEW c \in Calls, At(c, "work"),
           ~Single, fn[c] # "fetchAllSync"
    PROVE  "moreResultsSync" \notin style
  BY DEF InOrder, Styled, Ending, Active, At

LEMMA WorkerEnding ==
    ASSUME InOrder, Ending, NEW c \in Calls,
           \/ FetchBlock(c) \/ FetchWhole(c) \/ TakeRow(c) \/ Refill(c)
           \/ FindsExhausted(c) \/ FetchOneRow(c)
    PROVE  Ending'
  <1>1. At(c, "work") /\ UNCHANGED <<size, style, ended>>
    BY DEF FetchBlock, FetchWhole, TakeRow, Refill, FindsExhausted, FetchOneRow
  <1>2. CASE FetchBlock(c)
    <2>1. fn[c] # "fetchAllSync"
      BY <1>2 DEF FetchBlock
    <2>2. CASE exhausted /\ Fetched(c, "nodata", 0, "after") /\ NotFetching
      <3>1. AtEnd
        BY <2>2 DEF Ending
      <3> QED
        BY <1>1, <2>2, <3>1, NoRowEnding DEF NotFetching, driver, AtEnd
    <2>3. CASE /\ \E good \in SUBSET (1 .. size) : FetchRows(good)
               /\ exhausted' = exhausted
               /\ Fetched(c, "ok", 0, "copy")
      BY <1>1, <2>3, RowsAreNotEnd, RowEnding
    <2>4. CASE /\ FetchNoData /\ exhausted' = ~Single
               /\ Fetched(c, "nodata", 0, "after")
      <3>1. \/ exhausted' = exhausted
            \/ ~Single /\ "moreResultsSync" \notin style
        <4>1. CASE Single
          BY <2>4, <4>1 DEF Ending, InOrder, Typed, BlockTyped
        <4>2. CASE ~Single
          BY <1>1, <2>1, <4>2, OneSet
        <4> QED
          BY <4>1, <4>2
      <3> QED
        BY <1>1, <2>4, <3>1, NoDataIsEnd, NoRowEnding
    <2>5. CASE /\ FetchError /\ exhausted' = exhausted
               /\ Fetched(c, "error", 0, "after")
      BY <1>1, <2>5, NoDataIsEnd, NoRowEnding
    <2> QED
      BY <1>2, <2>2, <2>3, <2>4, <2>5 DEF FetchBlock
  <1>3. CASE FetchWhole(c)
    <2>1. exhausted' = exhausted
      BY <1>3 DEF FetchWhole
    <2>2. CASE /\ \E good \in SUBSET (1 .. size) : FetchRows(good)
               /\ Fetched(c, "ok", 0, "copy")
      BY <1>1, <2>1, <2>2, RowsAreNotEnd, RowEnding
    <2>3. CASE FetchNoData /\ Fetched(c, "nodata", 0, "after")
      BY <1>1, <2>1, <2>3, NoDataIsEnd, NoRowEnding
    <2>4. CASE FetchError /\ Fetched(c, "error", 0, "after")
      BY <1>1, <2>1, <2>4, NoDataIsEnd, NoRowEnding
    <2> QED
      BY <1>3, <2>2, <2>3, <2>4 DEF FetchWhole
  <1>4. CASE TakeRow(c)
    <2>1. /\ ~Single /\ fn[c] \in RowWise /\ exhausted' = exhausted
          /\ \E i \in First(Left(valid, current, fetched)) :
                Fetched(c, "ok", i, "after")
      BY <1>4 DEF TakeRow
    <2>2. fn[c] \in style
      BY <1>1 DEF InOrder, Styled, Active, At
    <2>3. ~AtEnd
      BY <2>1, <2>2 DEF AtEnd, Waiting, First
    <2> QED
      BY <1>1, <2>1, <2>3, RowEnding
  <1>5. CASE Refill(c)
    <2>1. ~Single /\ fn[c] # "fetchAllSync"
      BY <1>5 DEF Refill, RowWise
    <2>2. CASE /\ \E good \in SUBSET (1 .. size) : FetchRows(good)
               /\ UNCHANGED calls \/ \E i, s : Fetched(c, "ok", i, s)
               /\ exhausted' = exhausted
      BY <1>1, <2>2, RowsAreNotEnd, RowEnding
    <2>3. CASE FetchNoData /\ Fetched(c, "nodata", 0, "after")
      BY <1>1, <2>1, <2>3, OneSet, NoDataIsEnd, NoRowEnding
    <2>4. CASE /\ FetchError /\ exhausted' = exhausted
               /\ Fetched(c, "error", 0, "after")
      BY <1>1, <2>4, NoDataIsEnd, NoRowEnding
    <2> QED
      BY <1>5, <2>2, <2>3, <2>4 DEF Refill
  <1>6. CASE FindsExhausted(c)
    <2>1. AtEnd
      BY <1>6 DEF FindsExhausted, Ending
    <2> QED
      BY <1>1, <1>6, <2>1, NoRowEnding DEF FindsExhausted, NotFetching, driver, AtEnd
  <1>7. CASE FetchOneRow(c)
    <2>1. exhausted' = exhausted
      BY <1>7 DEF FetchOneRow
    <2>2. CASE FetchRows({1}) /\ Fetched(c, "ok", 1, "after")
      BY <1>1, <2>1, <2>2, RowsAreNotEnd, RowEnding
    <2>3. CASE FetchNoData /\ Fetched(c, "nodata", 0, "after")
      BY <1>1, <2>1, <2>3, NoDataIsEnd, NoRowEnding
    <2>4. CASE FetchError /\ Fetched(c, "error", 0, "after")
      BY <1>1, <2>1, <2>4, NoDataIsEnd, NoRowEnding
    <2> QED
      BY <1>7, <2>2, <2>3, <2>4 DEF FetchOneRow
  <1> QED
    BY <1>2, <1>3, <1>4, <1>5, <1>6, <1>7

(* On the JavaScript thread nothing is fetched. *)
LEMMA HandedOnEnding ==
    ASSUME Ending, OthersUnchanged,
           \A c \in Calls : ~At(c, "after")',
           ended' => NoneHeld' /\ (ended \/ AtEnd)
    PROVE  Ending'
  <1>1. AtEnd => AtEnd'
    BY DEF OthersUnchanged, driver, block, AtEnd, Waiting, Single
  <1> QED
    BY <1>1 DEF Ending, OthersUnchanged, Single

LEMMA FinishEnding ==
    ASSUME InOrder, Ending, NEW c \in Calls, Active(c), OthersUnchanged,
           Finish(c), rows' = rows, ended' => ended \/ AtEnd
    PROVE  Ending'
  <1>1. \A d \in Calls : Active(d)' => stage'[d] = "work" /\ rows'[d] = <<>>
    BY FinishInOrder DEF OthersUnchanged
  <1>2. NoneHeld' /\ \A d \in Calls : ~At(d, "after")'
    BY <1>1 DEF NoneHeld, Holds, Active, At
  <1> QED
    BY <1>2, HandedOnEnding

LEMMA KeepEnding ==
    ASSUME InOrder, Ending, NEW c \in Calls, Active(c), OthersUnchanged,
           NEW s \in {"work", "copy"}, NotAnswered(c, s),
           NoneHeld => \A x : ~Holds(c, x)'
    PROVE  Ending'
  <1>1. stage' = [stage EXCEPT ![c] = s] /\ ended' = ended
    BY DEF NotAnswered
  <1>2. /\ stage'[c] = s
        /\ \A d \in Calls : d # c => stage'[d] = stage[d]
    BY <1>1 DEF InOrder, Typed, CallsTyped
  <1>3. \A d \in Calls : d # c => ~Active(d)'
    BY <1>2 DEF InOrder, Solo, Active
  <1>4. NoneHeld => NoneHeld'
    BY <1>3 DEF NoneHeld, Holds, Active, At
  <1>5. \A d \in Calls : ~At(d, "after")'
    BY <1>2, <1>3 DEF Active, At
  <1> QED
    BY <1>1, <1>4, <1>5, HandedOnEnding DEF Ending

LEMMA CopyRowEnding ==
    ASSUME InOrder, Ending, NEW c \in Calls, CopyRow(c)
    PROVE  Ending'
  <1>1. /\ At(c, "copy") /\ Active(c) /\ idx[c] < fetched /\ OthersUnchanged
        /\ idx' = [idx EXCEPT ![c] = @ + 1] /\ NotAnswered(c, "copy")
        /\ rows' = [rows EXCEPT ![c] = IF idx'[c] \in valid
                                       THEN Append(@, buffer[idx'[c]]) ELSE @]
        /\ UNCHANGED <<buffer, valid, fetched>>
        /\ stage' = [stage EXCEPT ![c] = "copy"]
    BY DEF CopyRow, OnJS, At, Active, OthersUnchanged, block, NotAnswered
  <1>2. /\ idx'[c] = idx[c] + 1 /\ idx[c] \in Nat /\ fetched \in Nat
        /\ valid \subseteq Nat /\ stage'[c] = "copy"
    BY <1>1, Numbers DEF InOrder, Typed, CallsTyped, BlockTyped
  <1>3. ASSUME NoneHeld PROVE \A x : ~Holds(c, x)'
    <2>1. Left(valid, idx[c], fetched) = {}
      BY <1>1, <1>3 DEF NoneHeld, Holds
    <2>2. idx'[c] \notin valid
      BY <1>1, <1>2, <2>1 DEF Left
    <2>3. rows'[c] = rows[c]
      BY <1>1, <2>2 DEF InOrder, Typed, CallsTyped
    <2>4. ASSUME NEW i \in Left(valid, idx'[c], fetched) PROVE FALSE
      <3>1. i \in valid /\ idx'[c] < i /\ i <= fetched /\ i \in Nat
        BY <1>2, <2>4 DEF Left
      <3>2. idx[c] < i
        BY <1>2, <3>1
      <3> QED
        BY <2>1, <3>1, <3>2 DEF Left
    <2> QED
      BY <1>1, <1>2, <1>3, <2>3, <2>4 DEF NoneHeld, Holds, Active, At
  <1> QED
    BY <1>1, <1>3, KeepEnding

LEMMA HandlerEnding ==
    ASSUME InOrder, Ending, NEW c \in Calls,
           \/ WholeCopied(c) \/ BlockCopied(c) \/ AfterRow(c)
           \/ AfterNoData(c) \/ AfterError(c)
    PROVE  Ending'
  <1>1. Active(c) /\ OthersUnchanged
    BY DEF WholeCopied, BlockCopied, AfterRow, AfterNoData, AfterError, OnJS,
           At, Active
  <1>2. CASE WholeCopied(c)
    <2>1. NotAnswered(c, "work") /\ rows' = rows /\ stage' = [stage EXCEPT ![c] = "work"]
      BY <1>2 DEF WholeCopied, NotAnswered
    <2>2. NoneHeld => \A x : ~Holds(c, x)'
      BY <1>1, <2>1 DEF NoneHeld, Holds, Active, At, InOrder, Typed, CallsTyped
    <2> QED
      BY <1>1, <2>1, <2>2, KeepEnding
  <1>3. CASE BlockCopied(c)
    BY <1>1, <1>3, FinishEnding DEF BlockCopied, Answer
  <1>4. CASE AfterRow(c)
    <2>1. /\ At(c, "after") /\ result[c] = "ok"
          /\ \/ Finish(c) /\ rows' = rows /\ ended' = (ended \/ FALSE)
             \/ NotAnswered(c, "work")
      BY <1>4 DEF AfterRow, OnJS, Answer
    <2>2. ~NoneHeld
      BY <2>1 DEF NoneHeld, Holds
    <2> QED
      BY <1>1, <2>1, <2>2, FinishEnding, KeepEnding
  <1>5. CASE AfterNoData(c)
    <2>1. AtEnd
      BY <1>5 DEF AfterNoData, OnJS, Ending
    <2> QED
      BY <1>1, <1>5, <2>1, FinishEnding DEF AfterNoData, Answer
  <1>6. CASE AfterError(c)
    BY <1>1, <1>6, FinishEnding DEF AfterError
  <1> QED
    BY <1>2, <1>3, <1>4, <1>5, <1>6

LEMMA NextEnding == KeepsStyle /\ InOrder /\ Ending /\ [Next]_vars => Ending'
  <1> SUFFICES ASSUME KeepsStyle, InOrder, Ending, [Next]_vars PROVE Ending'
    OBVIOUS
  <1>1. ASSUME NEW c \in Calls, Works(c) PROVE Ending'
    BY <1>1, WorkerEnding, CopyRowEnding, HandlerEnding DEF Works
  <1>2. ASSUME UNCHANGED vars PROVE Ending'
    BY <1>2 DEF vars, driver, block, calls, Ending, AtEnd, NoneHeld, Holds,
       Waiting, Active, At, Single
  <1> QED
    BY <1>1, <1>2, CallingEnding, MoreResultsEnding DEF Next

(* For the same application, if it reads further result sets with           *)
(* fetchAllSync only: when a call says that there are no more rows, the     *)
(* application has got every row that was not reported as an error.         *)
THEOREM TheEndIsTheEnd ==
    ASSUME KeepsStyle, KeepsSet PROVE Spec => []EndIsEnd
  <1>1. Init => InOrder /\ NoneLost /\ Ending
    BY InitInOrder, EndingInit DEF Init, NoneLost
  <1>2. InOrder /\ NoneLost /\ Ending /\ [Next]_vars
            => (InOrder /\ NoneLost /\ Ending)'
    BY NextInOrder, NextKeeps, NextEnding
  <1>3. InOrder /\ NoneLost /\ Ending => EndIsEnd
    BY EndingIsEnd
  <1> QED
    BY <1>1, <1>2, <1>3, PTL DEF Spec
=============================================================================
