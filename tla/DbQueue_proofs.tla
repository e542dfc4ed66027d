--------------------------- MODULE DbQueue_proofs ---------------------------
(***************************************************************************)
(* Proofs about DbQueue.  For every use of a connection, calls wait only   *)
(* while one is at work or after one stalled, results are closed, and      *)
(* calls overlap only by the result sets that queries go on from.  For an  *)
(* application that waits for open and makes no catalog calls, whose       *)
(* parameters and arguments are right and whose queries have one result    *)
(* set, DbQueue implements SerialQueue, and more follows.                  *)
(***************************************************************************)
EXTENDS DbQueue, SequenceTheorems, FiniteSetTheorems, TLAPS

-----------------------------------------------------------------------------
(* fifo as a list without repetitions. *)

Once(list) ==
    /\ list \in Seq(Calls)
    /\ \A i, j \in DOMAIN list : list[i] = list[j] => i = j

Members(list) == {list[i] : i \in DOMAIN list}

LEMMA MembersTyped == ASSUME NEW list, Once(list) PROVE Members(list) \subseteq Calls
  BY DEF Once, Members

(* shift takes the first element, and only it. *)
LEMMA ShiftOnce ==
    ASSUME NEW list, Once(list), list # <<>>
    PROVE  /\ Head(list) \in Calls
           /\ Once(Tail(list))
           /\ Members(list) = Members(Tail(list)) \cup {Head(list)}
           /\ Head(list) \notin Members(Tail(list))
  <1>1. list \in Seq(Calls) /\ Len(list) \in Nat \ {0} /\ DOMAIN list = 1 .. Len(list)
    BY DEF Once
  <1>2. /\ Tail(list) \in Seq(Calls) /\ Len(Tail(list)) = Len(list) - 1
        /\ \A i \in 1 .. Len(Tail(list)) : Tail(list)[i] = list[i + 1]
    BY <1>1, HeadTailProperties
  <1>3. Head(list) = list[1] /\ Head(list) \in Calls
    BY <1>1
  <1>4. DOMAIN Tail(list) = 1 .. Len(list) - 1
    BY <1>2
  <1>5. Once(Tail(list))
    BY <1>1, <1>2, <1>4 DEF Once
  <1>6. Members(Tail(list)) \subseteq Members(list) \ {Head(list)}
    BY <1>1, <1>2, <1>3, <1>4 DEF Once, Members
  <1>7. ASSUME NEW c \in Members(list), c # Head(list)
        PROVE  c \in Members(Tail(list))
    <2>1. PICK i \in 1 .. Len(list) : list[i] = c
      BY <1>1 DEF Members
    <2>2. i - 1 \in 1 .. Len(list) - 1
      BY <2>1, <1>1, <1>3, <1>7
    <2>3. Tail(list)[i - 1] = c
      BY <1>1, <1>2, <2>1, <2>2
    <2> QED
      BY <1>4, <2>2, <2>3 DEF Members
  <1>8. Head(list) \in Members(list)
    BY <1>1, <1>3 DEF Members
  <1> QED
    BY <1>3, <1>5, <1>6, <1>7, <1>8

(* push adds one element at the end. *)
LEMMA PushOnce ==
    ASSUME NEW list, Once(list), NEW c \in Calls, c \notin Members(list)
    PROVE  /\ Once(Append(list, c))
           /\ Members(Append(list, c)) = Members(list) \cup {c}
           /\ Append(list, c) # <<>>
  <1>1. list \in Seq(Calls) /\ DOMAIN list = 1 .. Len(list) /\ Len(list) \in Nat
    BY DEF Once
  <1>2. /\ Append(list, c) \in Seq(Calls)
        /\ DOMAIN Append(list, c) = 1 .. Len(list) + 1
        /\ \A i \in 1 .. Len(list) : Append(list, c)[i] = list[i]
        /\ Append(list, c)[Len(list) + 1] = c
    BY <1>1, AppendProperties
  <1>3. Members(Append(list, c)) = Members(list) \cup {c}
    BY <1>1, <1>2 DEF Members
  <1>4. \A i \in 1 .. Len(list) : list[i] # c
    BY <1>1 DEF Members
  <1>5. Once(Append(list, c))
    BY <1>1, <1>2, <1>4 DEF Once
  <1>6. Append(list, c) # <<>>
    BY <1>1
  <1> QED
    BY <1>3, <1>5, <1>6

-----------------------------------------------------------------------------
(* Every use of a connection. *)

Sane ==
    /\ kind \in [Calls -> AllKinds \cup {"none"}]
    /\ Once(fifo)
    /\ executing \in BOOLEAN
    /\ turn \in BOOLEAN
    /\ stalled \in BOOLEAN
    /\ job \in [Calls -> Jobs]
    /\ got \in [Calls -> Nat]
    /\ answered \in [Calls -> Nat]
    /\ held \subseteq Calls
    /\ connected \in BOOLEAN
    /\ hasConn \in BOOLEAN
    /\ opening \in {"no", "creating", "connecting"}

(* A call that waits has not begun, nor has one that was not made; a result *)
(* is open while its call fetches, and else only for keys.                  *)
Begun ==
    /\ \A c \in Members(fifo) : kind[c] # "none" /\ job[c] = "none" /\ c \notin held
    /\ \A c \in Calls : kind[c] = "none" => job[c] = "none" /\ c \notin held
    /\ \A c \in held : \/ job[c] = "fetch"
                       \/ job[c] = "none" /\ kind[c] = "keys"

LEMMA InitBegun == Init => Sane /\ Begun
  <1> SUFFICES ASSUME Init PROVE Sane /\ Begun
    OBVIOUS
  <1>1. fifo = <<>> /\ fifo \in Seq(Calls) /\ DOMAIN fifo = {}
    BY DEF Init
  <1>2. Once(fifo) /\ Members(fifo) = {}
    BY <1>1 DEF Once, Members
  <1>3. Sane
    BY <1>2 DEF Init, Sane, Jobs
  <1>4. Begun
    BY <1>2 DEF Init, Begun
  <1> QED
    BY <1>3, <1>4

(* Calls that a function of the queue or a handler may answer. *)
LEMMA ParamErrorsCount ==
    ASSUME NEW c, NEW n \in ParamErrors(c) PROVE n \in {0, 1}
  BY DEF ParamErrors

LEMMA PushBegun ==
    ASSUME Sane, Begun, NEW c \in Calls, NEW k \in Kinds, Push(c, k)
    PROVE  Sane' /\ Begun'
  <1>1. c \notin Members(fifo) /\ kind[c] = "none"
    BY DEF Begun, Push
  <1>2. Once(fifo') /\ Members(fifo') = Members(fifo) \cup {c}
    BY <1>1, PushOnce DEF Push, Sane
  <1>3. PICK n \in {0, 1} : Answer(c, n)
    BY DEF Push
  <1>4. answered' \in [Calls -> Nat]
    BY <1>3 DEF Answer, Sane
  <1>5. k \in AllKinds /\ k # "none"
    BY ConstantsAssumption DEF AllKinds
  <1>6. kind' = [kind EXCEPT ![c] = k] /\ kind' \in [Calls -> AllKinds \cup {"none"}]
    BY <1>5 DEF Push, Sane
  <1>7. Sane'
    BY <1>2, <1>4, <1>6 DEF Push, Sane
  <1>8. Begun'
    BY <1>1, <1>2, <1>5, <1>6 DEF Push, Sane, Begun
  <1> QED
    BY <1>7, <1>8

LEMMA OutsideBegun ==
    ASSUME Sane, Begun, Open \/ ConnectionCreated \/ OpenDone \/ CloseSync
    PROVE  Sane' /\ Begun'
  <1>1. UNCHANGED <<kind, fifo, executing, turn, stalled, job, got, held,
                    answered>>
    BY DEF Open, ConnectionCreated, OpenDone, CloseSync
  <1>2. /\ connected' \in BOOLEAN /\ hasConn' \in BOOLEAN
        /\ opening' \in {"no", "creating", "connecting"}
    BY DEF Open, ConnectionCreated, OpenDone, CloseSync, Sane
  <1> QED
    BY <1>1, <1>2 DEF Sane, Begun

LEMMA RunsNextBegun ==
    ASSUME Sane, Begun, RunsNext
    PROVE  Sane' /\ Begun'
  <1>1. CASE QueueEmpty
    BY <1>1 DEF QueueEmpty, Sane, Begun
  <1>2. ASSUME NEW c \in Calls, AnsweredAtOnce(c) \/ Throws(c) \/ Starts(c)
        PROVE  Sane' /\ Begun'
    <2>1. fifo # <<>> /\ c = Head(fifo) /\ fifo' = Tail(fifo)
      BY <1>2 DEF AnsweredAtOnce, Throws, Starts
    <2>2. /\ Once(fifo') /\ Members(fifo) = Members(fifo') \cup {c}
          /\ c \notin Members(fifo')
      BY <2>1, ShiftOnce DEF Sane
    <2>3. UNCHANGED <<kind, got, held, hasConn, opening>>
      BY <1>2 DEF AnsweredAtOnce, Throws, Starts
    <2>4. answered' \in [Calls -> Nat]
      <3>1. \A n \in ParamErrors(c) : n \in Nat /\ n + 1 \in Nat
        BY ParamErrorsCount
      <3>2. answered' = answered \/ \E n \in Nat : Answer(c, n)
        BY <1>2, <3>1 DEF AnsweredAtOnce, Throws, Starts
      <3> QED
        BY <3>2 DEF Answer, Sane
    <2>5. connected' \in BOOLEAN
      BY <1>2 DEF AnsweredAtOnce, Throws, Starts, Sane
    <2>6. /\ executing' \in BOOLEAN /\ turn' \in BOOLEAN
          /\ stalled' \in BOOLEAN
          /\ job' \in [Calls -> Jobs]
          /\ \A d \in Calls : \/ d = c
                              \/ job'[d] = job[d]
                              \/ job[d] = "late" /\ job'[d] = "none"
      <3>1. CASE AnsweredAtOnce(c)
        BY <3>1 DEF AnsweredAtOnce, Sane
      <3>2. CASE Throws(c)
        BY <3>2 DEF Throws, Sane, Jobs
      <3>3. CASE Starts(c)
        BY <3>3 DEF Starts, Sane, Work, Jobs
      <3> QED
        BY <1>2, <3>1, <3>2, <3>3
    <2>7. Sane'
      BY <2>2, <2>3, <2>4, <2>5, <2>6 DEF Sane
    <2>8. c \in Members(fifo)
      BY <2>2
    <2>9. Begun'
      <3>1. kind[c] # "none" /\ c \notin held
        BY <2>8 DEF Begun
      <3>2. \A d \in Members(fifo') :
               d \in Members(fifo) /\ d # c /\ d \in Calls
        BY <2>2, MembersTyped
      <3>3. \A d \in Members(fifo') :
               kind'[d] # "none" /\ job'[d] = "none" /\ d \notin held'
        BY <3>2, <2>3, <2>6 DEF Begun
      <3>4. \A d \in Calls :
               kind'[d] = "none" => job'[d] = "none" /\ d \notin held'
        BY <3>1, <2>3, <2>6 DEF Begun
      <3>5. \A d \in held' : \/ job'[d] = "fetch"
                             \/ job'[d] = "none" /\ kind'[d] = "keys"
        BY <3>1, <2>3, <2>6 DEF Sane, Begun
      <3> QED
        BY <3>3, <3>4, <3>5 DEF Begun
    <2> QED
      BY <2>7, <2>9
  <1> QED
    BY <1>1, <1>2 DEF RunsNext

LEMMA CompletionBegun ==
    ASSUME Sane, Begun, NEW c \in Calls, Completion(c)
    PROVE  Sane' /\ Begun'
  <1>1. job[c] # "none" /\ UNCHANGED <<kind, fifo, opening>>
    BY DEF Completion, StreamsRead, ExecFails, ExecAnswers, ExecGivesResult,
       ExecGivesNothing, FetchFails, FetchNextSet, FetchDone, LateAnswer,
       CloseDone, Completes
  <1>2. c \notin Members(fifo) /\ kind[c] # "none"
    BY <1>1 DEF Begun
  <1>3. executing' \in BOOLEAN /\ turn' \in BOOLEAN /\ stalled' \in BOOLEAN
    BY DEF Completion, StreamsRead, ExecFails, ExecAnswers, ExecGivesResult,
       ExecGivesNothing, FetchFails, FetchNextSet, FetchDone, LateAnswer,
       CloseDone, NextCall, Stay, Stalls, Sane
  <1>4. connected' \in BOOLEAN /\ hasConn' \in BOOLEAN
    BY DEF Completion, StreamsRead, ExecFails, ExecAnswers, ExecGivesResult,
       ExecGivesNothing, FetchFails, FetchNextSet, FetchDone, LateAnswer,
       CloseDone, ConnectionError, Losses, Sane
  <1>5. answered' \in [Calls -> Nat]
    <2>1. \A n \in ParamErrors(c) : n \in Nat
      BY ParamErrorsCount
    <2>2. answered' = answered \/ \E n \in Nat : Answer(c, n)
      BY <2>1 DEF Completion, StreamsRead, ExecFails, ExecAnswers,
         ExecGivesResult, ExecGivesNothing, FetchFails, FetchNextSet,
         FetchDone, LateAnswer, CloseDone
    <2> QED
      BY <2>2 DEF Answer, Sane
  <1>6. got' \in [Calls -> Nat]
    BY DEF Completion, StreamsRead, ExecFails, ExecAnswers, ExecGivesResult,
       ExecGivesNothing, FetchFails, FetchNextSet, FetchDone, LateAnswer,
       CloseDone, Sane
  <1>7. \/ held' = held /\ c \notin held /\ \E j \in Jobs : Work(c, j)
        \/ held' = held /\ job' = job
        \/ held' = held \ {c} /\ \E j \in Jobs : Work(c, j)
        \/ /\ held' = held \cup {c}
           /\ Work(c, "fetch") \/ (kind[c] = "keys" /\ Work(c, "none"))
    BY DEF Completion, StreamsRead, ExecFails, ExecAnswers, ExecGivesResult,
       ExecGivesNothing, FetchFails, FetchNextSet, FetchDone, LateAnswer,
       CloseDone, Completes, Begun, Jobs
  <1>8. /\ job' \in [Calls -> Jobs] /\ held' \subseteq Calls
        /\ \A d \in Calls : d # c => job'[d] = job[d]
    BY <1>7 DEF Work, Jobs, Sane
  <1>9. Sane'
    BY <1>1, <1>3, <1>4, <1>5, <1>6, <1>8 DEF Sane
  <1>10. ASSUME NEW d \in held'
         PROVE  (job'[d] = "fetch") \/ (job'[d] = "none" /\ kind[d] = "keys")
    <2>1. CASE d # c
      BY <2>1, <1>7, <1>8 DEF Work, Sane, Begun
    <2>2. CASE d = c
      BY <2>2, <1>7, <1>8 DEF Work, Sane, Begun
    <2> QED
      BY <2>1, <2>2
  <1>11. \A d \in held' : d \in held \cup {c}
    BY <1>7
  <1>12. Members(fifo') = Members(fifo) /\ Members(fifo) \subseteq Calls
    BY <1>1, MembersTyped DEF Sane
  <1>13. \A d \in Members(fifo') :
            kind'[d] # "none" /\ job'[d] = "none" /\ d \notin held'
    BY <1>1, <1>2, <1>8, <1>11, <1>12 DEF Begun
  <1>14. \A d \in Calls : kind'[d] = "none" => job'[d] = "none" /\ d \notin held'
    BY <1>1, <1>2, <1>8, <1>11 DEF Begun
  <1>15. Begun'
    BY <1>1, <1>10, <1>13, <1>14 DEF Begun
  <1> QED
    BY <1>9, <1>15

LEMMA NextBegun == Sane /\ Begun /\ [Next]_vars => Sane' /\ Begun'
  <1>1. CASE UNCHANGED vars
    BY <1>1 DEF vars, Sane, Begun
  <1> QED
    BY <1>1, PushBegun, OutsideBegun, RunsNextBegun, CompletionBegun DEF Next

(* Whatever goes wrong, a query, tables, columns or getTypeInfo that has    *)
(* nothing under way holds no result handle: every path through the         *)
(* handlers of the fetch closes it.                                         *)
THEOREM ResultsGetClosed == Spec => []ResultsClosed
  <1>1. Init => Sane /\ Begun
    BY InitBegun
  <1>2. (Sane /\ Begun) /\ [Next]_vars => (Sane /\ Begun)'
    BY NextBegun
  <1>3. Sane /\ Begun => ResultsClosed
    BY DEF Begun, ResultsClosed
  <1> QED
    BY <1>1, <1>2, <1>3, PTL DEF Spec
-----------------------------------------------------------------------------
(* Calls do not wait for nothing.  What makes the claim inductive is said   *)
(* of executing alone, whether calls wait or not.                           *)
WorkGoesOn ==
    /\ turn => ~executing
    /\ executing => Working # {} \/ stalled
    /\ fifo # <<>> /\ ~turn => executing

LEMMA RunsNextGoesOn ==
    ASSUME Sane, Begun, WorkGoesOn, RunsNext
    PROVE  WorkGoesOn'
  <1>1. CASE QueueEmpty
    BY <1>1 DEF QueueEmpty, WorkGoesOn, Working, Busy
  <1>2. ASSUME NEW c \in Calls, AnsweredAtOnce(c)
        PROVE  WorkGoesOn'
    BY <1>2 DEF AnsweredAtOnce, WorkGoesOn, Sane
  <1>3. ASSUME NEW c \in Calls, Throws(c)
        PROVE  WorkGoesOn'
    BY <1>3 DEF Throws, WorkGoesOn, Working, Busy
  <1>4. ASSUME NEW c \in Calls, Starts(c)
        PROVE  WorkGoesOn'
    <2>1. c \in Working'
      BY <1>4 DEF Starts, Work, Working, Busy, Sane
    <2> QED
      BY <1>4, <2>1 DEF Starts, WorkGoesOn
  <1> QED
    BY <1>1, <1>2, <1>3, <1>4 DEF RunsNext

LEMMA CompletionGoesOn ==
    ASSUME Sane, Begun, WorkGoesOn, NEW c \in Calls, Completion(c)
    PROVE  WorkGoesOn'
  <1>1. fifo' = fifo
    BY DEF Completion, StreamsRead, ExecFails, ExecAnswers, ExecGivesResult,
       ExecGivesNothing, FetchFails, FetchNextSet, FetchDone, LateAnswer,
       CloseDone
  <1>2. \/ NextCall
        \/ Stalls
        \/ Stay /\ Work(c, "exec")
        \/ Stay /\ Work(c, "fetch")
        \/ Stay /\ job[c] = "late" /\ Work(c, "none")
    BY DEF Completion, StreamsRead, ExecFails, ExecAnswers, ExecGivesResult,
       ExecGivesNothing, FetchFails, FetchNextSet, FetchDone, LateAnswer,
       CloseDone, Stay
  <1>3. CASE NextCall \/ Stalls
    BY <1>1, <1>3 DEF NextCall, Stalls, WorkGoesOn
  <1>4. CASE Stay /\ (Work(c, "exec") \/ Work(c, "fetch"))
    <2>1. c \in Working'
      BY <1>4 DEF Work, Working, Busy, Sane
    <2> QED
      BY <1>1, <1>4, <2>1 DEF Stay, WorkGoesOn
  <1>5. CASE Stay /\ job[c] = "late" /\ Work(c, "none")
    <2>1. Working' = Working
      BY <1>5 DEF Work, Working, Busy, Sane
    <2> QED
      BY <1>1, <1>5, <2>1 DEF Stay, WorkGoesOn
  <1> QED
    BY <1>2, <1>3, <1>4, <1>5

(* While calls wait, next() is about to take one, or a call is at work, or  *)
(* an earlier call ended without next().  Next to that last way, which      *)
(* stalled records, no order of pushes and completions stops the queue.     *)
THEOREM NeverIdleWithBacklog == Spec => []NoIdleBacklog
  <1>1. Init => WorkGoesOn
    BY DEF Init, WorkGoesOn
  <1>2. Sane /\ Begun /\ WorkGoesOn /\ [Next]_vars => WorkGoesOn'
    <2> SUFFICES ASSUME Sane, Begun, WorkGoesOn, [Next]_vars
                 PROVE  WorkGoesOn'
      OBVIOUS
    <2>1. CASE UNCHANGED vars
      BY <2>1 DEF vars, WorkGoesOn, Working, Busy
    <2>2. ASSUME NEW c \in Calls, NEW k \in Kinds, Push(c, k)
          PROVE  WorkGoesOn'
      <3>1. UNCHANGED <<executing, stalled, job>> /\ turn' = ~executing
        BY <2>2 DEF Push
      <3>2. Working' = Working
        BY <3>1 DEF Working, Busy
      <3>3. CASE executing = TRUE
        BY <3>1, <3>2, <3>3 DEF WorkGoesOn
      <3>4. CASE executing = FALSE
        BY <3>1, <3>2, <3>4 DEF WorkGoesOn
      <3>5. executing \in BOOLEAN
        BY DEF Sane
      <3> QED
        BY <3>3, <3>4, <3>5
    <2>3. CASE Open \/ ConnectionCreated \/ OpenDone \/ CloseSync
      <3>1. UNCHANGED <<fifo, executing, turn, stalled, job>>
        BY <2>3 DEF Open, ConnectionCreated, OpenDone, CloseSync
      <3> QED
        BY <3>1 DEF WorkGoesOn, Working, Busy
    <2> QED
      BY <2>1, <2>2, <2>3, RunsNextGoesOn, CompletionGoesOn DEF Next
  <1>3. WorkGoesOn => NoIdleBacklog
    BY DEF WorkGoesOn, NoIdleBacklog
  <1> QED
    BY <1>1, <1>2, <1>3, InitBegun, NextBegun, PTL DEF Spec

-----------------------------------------------------------------------------
(* How often a call is answered, and the sets a query goes on from.         *)

(* A call can be answered twice, never more: what finds an error in the     *)
(* parameters answers and goes on, so does push for tables and columns, and *)
(* only one of the answers that end a call can follow.                      *)
Answers ==
    /\ \A c \in Calls : kind[c] \in Kinds \cup {"none"}
    /\ \A c \in Calls : got[c] \in 0 .. MaxSets - 1
    /\ \A c \in Calls : answered[c] \in 0 .. 2
    /\ \A c \in Calls : kind[c] = "none" => answered[c] = 0
    /\ \A c \in Calls : job[c] # "none" => answered[c] \in {0, 1}
    /\ \A c \in Calls : job[c] = "streams" => kind[c] = "query" /\ answered[c] = 0
    /\ \A c \in Members(fifo) : answered[c] \in {0, 1}
    /\ \A c \in Members(fifo) : kind[c] # "tables" => answered[c] = 0

Counted == Sane /\ Begun /\ Answers

LEMMA InitCounted == Init => Counted
  <1> SUFFICES ASSUME Init PROVE Counted
    OBVIOUS
  <1>1. Sane /\ Begun
    BY InitBegun
  <1>2. Members(fifo) = {}
    BY DEF Init, Members
  <1>3. MaxSets - 1 \in Nat /\ 0 \in 0 .. MaxSets - 1
    BY ConstantsAssumption
  <1>4. Answers
    BY <1>2, <1>3 DEF Init, Answers
  <1> QED
    BY <1>1, <1>4 DEF Counted

LEMMA PushCounted ==
    ASSUME Counted, NEW c \in Calls, NEW k \in Kinds, Push(c, k)
    PROVE  Answers'
  <1>1. c \notin Members(fifo) /\ kind[c] = "none" /\ answered[c] = 0 /\ job[c] = "none"
    BY DEF Counted, Begun, Answers, Push
  <1>2. Members(fifo') = Members(fifo) \cup {c} /\ Members(fifo) \subseteq Calls
    BY <1>1, PushOnce, MembersTyped DEF Push, Counted, Sane
  <1>3. PICK n \in {0, 1} : Answer(c, n) /\ (k # "tables" => n = 0)
    BY DEF Push
  <1>4. kind' = [kind EXCEPT ![c] = k] /\ k # "none" /\ UNCHANGED <<job, got>>
    BY ConstantsAssumption DEF Push, AllKinds
  <1>5. answered'[c] = n /\ \A d \in Calls : d # c => answered'[d] = answered[d]
    BY <1>1, <1>3 DEF Answer, Counted, Sane
  <1>6. kind'[c] = k /\ \A d \in Calls : d # c => kind'[d] = kind[d]
    BY <1>4 DEF Counted, Sane
  <1> QED
    BY <1>1, <1>2, <1>3, <1>4, <1>5, <1>6 DEF Counted, Answers

LEMMA RunsNextCounted ==
    ASSUME Counted, RunsNext PROVE Answers'
  <1>1. CASE QueueEmpty
    BY <1>1 DEF QueueEmpty, Counted, Answers
  <1>2. ASSUME NEW c \in Calls, AnsweredAtOnce(c) \/ Throws(c) \/ Starts(c)
        PROVE  Answers'
    <2>1. fifo # <<>> /\ c = Head(fifo) /\ fifo' = Tail(fifo)
      BY <1>2 DEF AnsweredAtOnce, Throws, Starts
    <2>2. /\ Members(fifo) = Members(fifo') \cup {c} /\ c \notin Members(fifo')
          /\ Members(fifo) \subseteq Calls
      BY <2>1, ShiftOnce, MembersTyped DEF Counted, Sane
    <2>3. /\ kind[c] # "none" /\ job[c] = "none" /\ answered[c] \in {0, 1}
          /\ kind[c] # "tables" => answered[c] = 0
      BY <2>2 DEF Counted, Begun, Answers
    <2>4. \A n \in ParamErrors(c) : n = 0 \/ (n = 1 /\ kind[c] # "tables")
      BY DEF ParamErrors
    <2>5. UNCHANGED <<kind, got>>
      BY <1>2 DEF AnsweredAtOnce, Throws, Starts
    <2>6. CASE AnsweredAtOnce(c)
      <3>1. PICK n \in {1, 2} : Answer(c, n)
        BY <2>6, <2>4 DEF AnsweredAtOnce
      <3>2. kind[c] # "tables"
        BY <2>6 DEF AnsweredAtOnce, NotConnected, Checked, Caught
      <3>3. answered'[c] = n /\ \A d \in Calls : d # c => answered'[d] = answered[d]
        BY <3>1, <3>2, <2>3 DEF Answer, Counted, Sane
      <3>4. job' = job
        BY <2>6 DEF AnsweredAtOnce
      <3> QED
        BY <2>2, <2>3, <2>5, <3>3, <3>4 DEF Counted, Answers
    <2>7. CASE Throws(c)
      <3>1. PICK n \in ParamErrors(c) : Answer(c, n)
        BY <2>7 DEF Throws
      <3>2. answered'[c] \in {0, 1} /\ \A d \in Calls : d # c => answered'[d] = answered[d]
        BY <3>1, <2>3, <2>4 DEF Answer, Counted, Sane
      <3>3. \A d \in Calls : job'[d] = "none" \/ job'[d] = job[d]
        BY <2>7 DEF Throws
      <3> QED
        BY <2>2, <2>3, <2>5, <3>2, <3>3 DEF Counted, Answers
    <2>8. CASE Starts(c)
      <3>1. \/ \E j \in {"close", "exec"} : Work(c, j) /\ \E n \in ParamErrors(c) : Answer(c, n)
            \/ kind[c] = "query" /\ Work(c, "streams") /\ answered' = answered
        BY <2>8 DEF Starts
      <3>2. answered'[c] \in {0, 1} /\ \A d \in Calls : d # c => answered'[d] = answered[d]
        BY <3>1, <2>3, <2>4 DEF Answer, Counted, Sane
      <3>3. \A d \in Calls : d # c => job'[d] = job[d]
        BY <3>1 DEF Work, Counted, Sane
      <3>4. job'[c] = "streams" => kind[c] = "query" /\ answered'[c] = 0
        BY <3>1, <2>3 DEF Work, Counted, Sane
      <3> QED
        BY <2>2, <2>3, <2>5, <3>2, <3>3, <3>4 DEF Counted, Answers
    <2> QED
      BY <1>2, <2>6, <2>7, <2>8
  <1> QED
    BY <1>1, <1>2 DEF RunsNext

LEMMA CompletionCounted ==
    ASSUME Counted, NEW c \in Calls, Completion(c) PROVE Answers'
  <1>1. job[c] # "none" /\ UNCHANGED <<kind, fifo>>
    BY DEF Completion, StreamsRead, ExecFails, ExecAnswers, ExecGivesResult,
       ExecGivesNothing, FetchFails, FetchNextSet, FetchDone, LateAnswer,
       CloseDone, Completes
  <1>2. c \notin Members(fifo) /\ kind[c] # "none" /\ Members(fifo) \subseteq Calls
    BY <1>1, MembersTyped DEF Counted, Sane, Begun
  <1>3. answered[c] \in {0, 1}
    BY <1>1 DEF Counted, Answers
  <1>4. \A n \in ParamErrors(c) : n \in {0, 1}
    BY ParamErrorsCount
  <1>5. \/ Answer(c, 1) /\ Work(c, "none")
        \/ answered[c] = 0 /\ (\E n \in {0, 1} : Answer(c, n)) /\ (Work(c, "exec") \/ Work(c, "none"))
        \/ answered' = answered /\ \E j \in {"none", "fetch", "late"} : Work(c, j)
        \/ answered' = answered /\ job' = job
    <2>1. CASE StreamsRead(c)
      <3>1. answered[c] = 0
        BY <2>1 DEF StreamsRead, Completes, Counted, Answers
      <3> QED
        BY <2>1, <3>1, <1>4 DEF StreamsRead
    <2> QED
      BY <2>1 DEF Completion, ExecFails, ExecAnswers, ExecGivesResult,
         ExecGivesNothing, FetchFails, FetchNextSet, FetchDone, LateAnswer,
         CloseDone
  <1>6. /\ \A d \in Calls : d # c => answered'[d] = answered[d] /\ job'[d] = job[d]
        /\ answered'[c] \in 0 .. 2
        /\ job'[c] # "none" => answered'[c] \in {0, 1}
        /\ job'[c] = "streams" => kind[c] = "query" /\ answered'[c] = 0
    BY <1>3, <1>5 DEF Work, Answer, Counted, Sane, Answers
  <1>7. \A d \in Calls : got'[d] \in 0 .. MaxSets - 1
    <2>1. CASE FetchNextSet(c)
      <3>1. got' = [got EXCEPT ![c] = @ + 1] /\ got[c] + 1 < MaxSets
        BY <2>1 DEF FetchNextSet
      <3> QED
        BY <3>1, ConstantsAssumption DEF Counted, Sane, Answers
    <2>2. CASE ~FetchNextSet(c)
      <3>1. got' = got
        BY <2>2 DEF Completion, StreamsRead, ExecFails, ExecAnswers,
           ExecGivesResult, ExecGivesNothing, FetchFails, FetchDone,
           LateAnswer, CloseDone
      <3> QED
        BY <3>1 DEF Counted, Answers
    <2> QED
      BY <2>1, <2>2
  <1> QED
    BY <1>1, <1>2, <1>6, <1>7 DEF Counted, Answers

LEMMA NextCounted == Counted /\ [Next]_vars => Counted'
  <1> SUFFICES ASSUME Counted, [Next]_vars PROVE Counted'
    OBVIOUS
  <1>1. Sane' /\ Begun'
    BY NextBegun DEF Counted
  <1>2. Answers'
    <2>1. CASE UNCHANGED vars
      BY <2>1 DEF vars, Counted, Answers
    <2>2. CASE Open \/ ConnectionCreated \/ OpenDone \/ CloseSync
      BY <2>2 DEF Open, ConnectionCreated, OpenDone, CloseSync, Counted, Answers
    <2> QED
      BY <2>1, <2>2, PushCounted, RunsNextCounted, CompletionCounted DEF Next
  <1> QED
    BY <1>1, <1>2 DEF Counted

(* The types, with the bounds on the answers to a call and on the result    *)
(* sets of a query, for every use of a connection.                          *)
THEOREM QueueTypes == Spec => []TypeOK
  <1>1. Counted => TypeOK
    <2> SUFFICES ASSUME Counted PROVE TypeOK
      OBVIOUS
    <2>1. /\ kind \in [Calls -> Kinds \cup {"none"}]
          /\ got \in [Calls -> 0 .. MaxSets - 1]
          /\ answered \in [Calls -> 0 .. 2]
      BY DEF Counted, Sane, Answers
    <2> QED
      BY <2>1 DEF TypeOK, Counted, Sane, Once
  <1> QED
    BY <1>1, InitCounted, NextCounted, PTL DEF Spec

(* Where calls overlap: one unit for each working call, one for an idle     *)
(* queue, and the result sets that queries went on from pay for all but one *)
(* of them.  With executing for turn the bound is inductive.                *)
OverlapPaid ==
    /\ turn => ~executing
    /\ IsFiniteSet(Working)
    /\ IsFiniteSet(SetsPassed)
    /\ Cardinality(Working) + (IF executing THEN 0 ELSE 1)
           <= 1 + Cardinality(SetsPassed)

(* A step that lets a call start or stop, or the queue become busy.         *)
LEMMA OverlapMoves ==
    ASSUME Sane, OverlapPaid, executing' \in BOOLEAN, turn' => ~executing',
           SetsPassed' = SetsPassed, NEW c \in Calls,
           \/ Working' = Working /\ (executing' \/ ~executing)
           \/ c \in Working /\ Working' = Working \ {c}
           \/ Working' = Working \cup {c} /\ ~executing /\ executing'
    PROVE  OverlapPaid'
  <1>1. Cardinality(Working) \in Nat /\ Cardinality(SetsPassed) \in Nat
    BY FS_CardinalityType DEF OverlapPaid
  <1>2. CASE Working' = Working /\ (executing' \/ ~executing)
    BY <1>1, <1>2 DEF OverlapPaid, Sane
  <1>3. CASE c \in Working /\ Working' = Working \ {c}
    <2>1. IsFiniteSet(Working') /\ Cardinality(Working') = Cardinality(Working) - 1
      BY <1>3, FS_RemoveElement DEF OverlapPaid
    <2> QED
      BY <1>1, <2>1 DEF OverlapPaid
  <1>4. CASE Working' = Working \cup {c} /\ ~executing /\ executing'
    <2>1. /\ IsFiniteSet(Working')
          /\ \/ Cardinality(Working') = Cardinality(Working)
             \/ Cardinality(Working') = Cardinality(Working) + 1
      BY <1>4, FS_AddElement DEF OverlapPaid
    <2> QED
      BY <1>1, <1>4, <2>1 DEF OverlapPaid, Sane
  <1> QED
    BY <1>2, <1>3, <1>4

(* A query that goes on to its next result set pays for the call it lets    *)
(* start.                                                                   *)
LEMMA OverlapSetPassed ==
    ASSUME Counted, OverlapPaid, NEW c \in Calls, FetchNextSet(c)
    PROVE  OverlapPaid'
  <1> DEFINE r == <<c, got[c] + 1>>
  <1>1. /\ got' = [got EXCEPT ![c] = @ + 1] /\ got[c] + 1 < MaxSets
        /\ job' = job /\ executing' = FALSE /\ turn' = TRUE
    BY DEF FetchNextSet, NextCall
  <1>2. got[c] \in Nat /\ MaxSets \in Nat
    BY ConstantsAssumption DEF Counted, Sane
  <1>3. r \in Calls \X (1 .. MaxSets - 1) /\ r \notin SetsPassed
    BY <1>1, <1>2 DEF SetsPassed
  <1>4. SetsPassed' = SetsPassed \cup {r}
    <2>1. got'[c] = got[c] + 1 /\ \A d \in Calls : d # c => got'[d] = got[d]
      BY <1>1, <1>2 DEF Counted, Sane
    <2>2. ASSUME NEW d \in Calls, NEW n \in 1 .. MaxSets - 1
          PROVE  n <= got'[d] <=> (n <= got[d] \/ (d = c /\ n = got[c] + 1))
      <3>1. CASE d = c
        BY <3>1, <2>1, <1>2
      <3>2. CASE d # c
        BY <3>2, <2>1
      <3> QED
        BY <3>1, <3>2
    <2>3. ASSUME NEW s \in Calls \X (1 .. MaxSets - 1)
          PROVE  s \in SetsPassed' <=> s \in SetsPassed \cup {r}
      <3>1. s = <<s[1], s[2]>> /\ s[1] \in Calls /\ s[2] \in 1 .. MaxSets - 1
        OBVIOUS
      <3>2. s = r <=> (s[1] = c /\ s[2] = got[c] + 1)
        BY <3>1
      <3> QED
        BY <2>2, <3>1, <3>2 DEF SetsPassed
    <2> QED
      BY <2>3, <1>3 DEF SetsPassed
  <1>5. Working' = Working
    BY <1>1 DEF Working, Busy
  <1>6. IsFiniteSet(SetsPassed') /\ Cardinality(SetsPassed') = Cardinality(SetsPassed) + 1
    BY <1>3, <1>4, FS_AddElement DEF OverlapPaid
  <1>7. Cardinality(Working) \in Nat /\ Cardinality(SetsPassed) \in Nat
    BY FS_CardinalityType DEF OverlapPaid
  <1> QED
    BY <1>1, <1>5, <1>6, <1>7 DEF OverlapPaid

LEMMA InitOverlap == Init => OverlapPaid
  <1> SUFFICES ASSUME Init PROVE OverlapPaid
    OBVIOUS
  <1>1. Working = {}
    BY DEF Init, Working, Busy
  <1>2. SetsPassed = {}
    BY DEF Init, SetsPassed
  <1> QED
    BY <1>1, <1>2, FS_EmptySet DEF Init, OverlapPaid

LEMMA RunsNextOverlap ==
    ASSUME Counted, OverlapPaid, RunsNext PROVE OverlapPaid'
  <1>1. turn /\ ~executing /\ got' = got /\ SetsPassed' = SetsPassed
    BY DEF RunsNext, QueueEmpty, AnsweredAtOnce, Throws, Starts, OverlapPaid,
       SetsPassed
  <1>2. CASE QueueEmpty
    BY <1>2, <1>1 DEF QueueEmpty, OverlapPaid, Working, Busy
  <1>3. ASSUME NEW c \in Calls, AnsweredAtOnce(c) \/ Throws(c) \/ Starts(c)
        PROVE  OverlapPaid'
    <2>1. CASE AnsweredAtOnce(c)
      <3>1. UNCHANGED <<job, executing, turn>>
        BY <2>1 DEF AnsweredAtOnce
      <3>2. Working' = Working
        BY <3>1 DEF Working, Busy
      <3> QED
        BY <3>1, <3>2, <1>1 DEF OverlapPaid
    <2>2. CASE Throws(c)
      <3>1. executing' = TRUE /\ turn' = FALSE
        BY <2>2 DEF Throws
      <3>2. Working' = Working
        BY <2>2 DEF Throws, Working, Busy
      <3> QED
        BY <3>1, <3>2, <1>1, OverlapMoves DEF Counted
    <2>3. CASE Starts(c)
      <3>1. executing' = TRUE /\ turn' = FALSE
        BY <2>3 DEF Starts
      <3>2. \E j \in {"exec", "close", "streams"} : Work(c, j)
        BY <2>3 DEF Starts
      <3>3. Working' = Working \cup {c}
        BY <3>2 DEF Work, Working, Busy, Counted, Sane
      <3> QED
        BY <3>1, <3>3, <1>1, OverlapMoves DEF Counted
    <2> QED
      BY <1>3, <2>1, <2>2, <2>3
  <1> QED
    BY <1>2, <1>3 DEF RunsNext

LEMMA CompletionOverlap ==
    ASSUME Counted, OverlapPaid, NEW c \in Calls, Completion(c)
    PROVE  OverlapPaid'
  <1>1. CASE FetchNextSet(c)
    BY <1>1, OverlapSetPassed
  <1>2. CASE ~FetchNextSet(c)
    <2>1. got' = got /\ SetsPassed' = SetsPassed
      BY <1>2 DEF Completion, StreamsRead, ExecFails, ExecAnswers,
         ExecGivesResult, ExecGivesNothing, FetchFails, FetchDone, LateAnswer,
         CloseDone, SetsPassed
    <2>2. ~turn /\ (NextCall \/ UNCHANGED <<executing, turn>>)
      BY <1>2 DEF Completion, StreamsRead, ExecFails, ExecAnswers,
         ExecGivesResult, ExecGivesNothing, FetchFails, FetchDone, LateAnswer,
         CloseDone, Completes, Running, Stay, Stalls
    <2>3. /\ executing' \in BOOLEAN /\ (turn' => ~executing')
      <3>1. CASE NextCall
        BY <3>1 DEF NextCall
      <3>2. CASE UNCHANGED <<executing, turn>>
        BY <3>2, <2>2 DEF Counted, Sane
      <3> QED
        BY <2>2, <3>1, <3>2
    <2>4. \/ job[c] \notin {"none", "late"} /\ (Work(c, "none") \/ Work(c, "late"))
          \/ job[c] \notin {"none", "late"} /\ (Work(c, "exec") \/ Work(c, "fetch")) /\ Stay
          \/ job[c] = "late" /\ Work(c, "none") /\ Stay
      BY <1>2 DEF Completion, StreamsRead, ExecFails, ExecAnswers,
         ExecGivesResult, ExecGivesNothing, FetchFails, FetchDone, LateAnswer,
         CloseDone, Completes, Stay
    <2>5. \/ c \in Working /\ Working' = Working \ {c}
          \/ Working' = Working /\ executing' = executing
      BY <2>4 DEF Work, Stay, Working, Busy, Counted, Sane
    <2> QED
      BY <2>1, <2>3, <2>5, OverlapMoves DEF Counted, Sane
  <1> QED
    BY <1>1, <1>2

LEMMA NextOverlap == Counted /\ OverlapPaid /\ [Next]_vars => OverlapPaid'
  <1> SUFFICES ASSUME Counted, OverlapPaid, [Next]_vars PROVE OverlapPaid'
    OBVIOUS
  <1>1. ASSUME UNCHANGED <<executing, job, got>>, turn' => ~executing
        PROVE  OverlapPaid'
    BY <1>1 DEF OverlapPaid, Working, Busy, SetsPassed
  <1>2. CASE UNCHANGED vars
    BY <1>1, <1>2 DEF vars, OverlapPaid
  <1>3. CASE Open \/ ConnectionCreated \/ OpenDone \/ CloseSync
    BY <1>1, <1>3 DEF Open, ConnectionCreated, OpenDone, CloseSync, OverlapPaid
  <1>4. ASSUME NEW c \in Calls, NEW k \in Kinds, Push(c, k)
        PROVE  OverlapPaid'
    BY <1>1, <1>4 DEF Push
  <1> QED
    BY <1>2, <1>3, <1>4, RunsNextOverlap, CompletionOverlap DEF Next

(* Calls run side by side only where a query has gone on to a further       *)
(* result set, at most one more for each: for every use of a connection,    *)
(* whatever fails or throws.                                                *)
THEOREM OverlapNeedsNextSets == Spec => []OverlapIsFromNextSets
  <1>1. Init => Counted /\ OverlapPaid
    BY InitCounted, InitOverlap
  <1>2. (Counted /\ OverlapPaid) /\ [Next]_vars => (Counted /\ OverlapPaid)'
    BY NextCounted, NextOverlap
  <1>3. Counted /\ OverlapPaid => OverlapIsFromNextSets
    <2> SUFFICES ASSUME Counted, OverlapPaid PROVE OverlapIsFromNextSets
      OBVIOUS
    <2>1. Cardinality(Working) \in Nat /\ Cardinality(SetsPassed) \in Nat
      BY FS_CardinalityType DEF OverlapPaid
    <2> QED
      BY <2>1 DEF OverlapPaid, OverlapIsFromNextSets, Counted, Sane
  <1> QED
    BY <1>1, <1>2, <1>3, PTL DEF Spec
-----------------------------------------------------------------------------
(* A careful application: it makes no catalog calls, waits for open, and    *)
(* gives right parameters and arguments to queries of one result set.  What *)
(* it does not control still happens: native work fails, connections are    *)
(* lost; and it closes the connection, also with closeSync, when it likes.  *)
Careful ==
    /\ Kinds \subseteq Checked \cup {"close"}
    /\ Mishaps \subseteq {"refused", "lost", "closeSync"}
    /\ MaxSets = 1

OneAtATime ==
    /\ \A c \in Calls : kind[c] \in Kinds \cup {"none"}
    /\ \A c \in Calls : job[c] \in {"none", "exec", "fetch", "close"}
    /\ \A c \in Calls : job[c] # "none" => answered[c] = 0
    /\ \A c \in Members(fifo) : answered[c] = 0
    /\ \A c \in Calls : kind[c] = "none" => answered[c] = 0
    /\ \A c \in Calls : got[c] = 0
    /\ turn => ~executing
    /\ \A c, d \in Calls : job[c] # "none" /\ job[d] # "none" => c = d
    /\ \A c \in Calls : job[c] # "none" => executing
    /\ ~executing /\ ~turn => fifo = <<>>
    /\ connected => hasConn
    /\ opening = "connecting" => hasConn
    /\ opening # "no" => fifo = <<>> /\ ~turn
    /\ opening # "no" => \A c \in Calls : job[c] = "none"

(* The three parts of the invariant for a careful application. *)
IInv == Sane /\ Begun /\ OneAtATime

(* What the queue's current call is. *)
LEMMA CurrentCall ==
    ASSUME IInv
    PROVE  /\ (\A c \in Calls : job[c] = "none") => Current = Nobody
           /\ \A c \in Calls : job[c] # "none" => Current = c
  BY DEF IInv, OneAtATime, Current, Busy

LEMMA InitOneAtATime == Init => OneAtATime
  <1> SUFFICES ASSUME Init PROVE OneAtATime
    OBVIOUS
  <1>1. Members(fifo) = {}
    BY DEF Init, Members
  <1> QED
    BY <1>1 DEF Init, OneAtATime

(* What a careful application's calls do not meet. *)
LEMMA CarefulCalls ==
    ASSUME Careful, IInv, NEW c \in Calls
    PROVE  /\ ~May("badParam") /\ ~May("badCall") /\ ~May("noResults")
           /\ ~May("streams") /\ ~May("hasty")
           /\ kind[c] \notin {"tables", "keys"}
           /\ ParamErrors(c) = {0}
           /\ job[c] \notin {"streams", "late"}
           /\ kind[c] # "none" => ~NativeThrows(c)
  BY DEF Careful, IInv, OneAtATime, May, Checked, ParamErrors, NativeThrows,
     NotConnected

(* queue.push submits a call, or is that of another call again. *)
LEMMA PushSerial ==
    ASSUME Careful, IInv, NEW c \in Calls, NEW k \in Kinds, Push(c, k)
    PROVE  OneAtATime' /\ Abstract!Submit(c)
  <1>1. /\ c \notin Members(fifo) /\ kind[c] = "none" /\ job[c] = "none"
        /\ answered[c] = 0
    BY DEF IInv, Begun, OneAtATime, Push
  <1>2. Once(fifo') /\ Members(fifo') = Members(fifo) \cup {c} /\ fifo' # <<>>
    BY <1>1, PushOnce DEF Push, IInv, Sane
  <1>3. k \in Checked \cup {"close"} /\ k # "tables" /\ k # "none"
    BY DEF Careful, Checked
  <1>4. answered' = answered
    BY <1>3 DEF Push, Answer, IInv, Sane
  <1>5. /\ kind' = [kind EXCEPT ![c] = k] /\ turn' = ~executing /\ opening = "no"
        /\ UNCHANGED <<executing, job, got, held, connected, hasConn, opening>>
    BY CarefulCalls DEF Push
  <1>6. \A d \in Calls : kind'[d] \in Kinds \cup {"none"}
    BY <1>5 DEF IInv, Sane, OneAtATime
  <1>7. \A d \in Calls : kind'[d] = "none" => answered'[d] = 0
    BY <1>3, <1>4, <1>5 DEF IInv, Sane, OneAtATime
  <1>8. \A d \in Members(fifo') : answered'[d] = 0
    BY <1>1, <1>2, <1>4 DEF IInv, OneAtATime
  <1>9. (turn' => ~executing') /\ (~executing' /\ ~turn' => fifo' = <<>>)
    <2>1. CASE executing = TRUE
      BY <2>1, <1>5
    <2>2. CASE executing = FALSE
      BY <2>2, <1>5
    <2> QED
      BY <2>1, <2>2 DEF IInv, Sane
  <1>10. OneAtATime'
    BY <1>4, <1>5, <1>6, <1>7, <1>8, <1>9 DEF IInv, OneAtATime
  <1>11. c # Current
    <2>1. CASE \A d \in Calls : job[d] = "none"
      BY <2>1, CurrentCall, ConstantsAssumption
    <2>2. ASSUME NEW d \in Calls, job[d] # "none" PROVE c # Current
      BY <2>2, CurrentCall, <1>1
    <2> QED
      BY <2>1, <2>2
  <1>12. \A i \in DOMAIN fifo : fifo[i] # c
    BY <1>1 DEF Members
  <1>13. Current' = Current
    BY <1>5 DEF Current, Busy
  <1>14. Abstract!Submit(c)
    BY <1>1, <1>4, <1>11, <1>12, <1>13 DEF Abstract!Submit, Push
  <1> QED
    BY <1>10, <1>14

(* open, and closeSync, are no steps of the serial queue. *)
LEMMA OutsideSerial ==
    ASSUME Careful, IInv, Open \/ ConnectionCreated \/ OpenDone \/ CloseSync
    PROVE  OneAtATime' /\ UNCHANGED Abstract!vars
  <1>1. UNCHANGED <<kind, fifo, executing, turn, job, got, held, answered>>
    BY DEF Open, ConnectionCreated, OpenDone, CloseSync
  <1>2. UNCHANGED Abstract!vars
    BY <1>1 DEF Abstract!vars, Current, Busy
  <1>3. ~May("hasty")
    BY DEF Careful, May
  <1>4. /\ connected' => hasConn'
        /\ opening' = "connecting" => hasConn'
        /\ opening' # "no" => fifo = <<>> /\ ~turn
        /\ opening' # "no" => \A c \in Calls : job[c] = "none"
    <2>1. CASE Open
      BY <2>1, <1>3 DEF Open, Running, Busy, IInv, OneAtATime
    <2>2. CASE ConnectionCreated
      BY <2>2 DEF ConnectionCreated, IInv, OneAtATime
    <2>3. CASE OpenDone
      BY <2>3 DEF OpenDone, IInv, OneAtATime
    <2>4. CASE CloseSync
      BY <2>4, <1>3 DEF CloseSync, IInv, OneAtATime
    <2> QED
      BY <2>1, <2>2, <2>3, <2>4
  <1>5. OneAtATime'
    BY <1>1, <1>4 DEF IInv, OneAtATime
  <1> QED
    BY <1>2, <1>5

(* queue.next serves the first call, at once or by starting its work. *)
LEMMA RunsNextSerial ==
    ASSUME Careful, IInv, RunsNext
    PROVE  OneAtATime' /\ (Abstract!Next \/ UNCHANGED Abstract!vars)
  <1>1. CASE QueueEmpty
    <2>1. OneAtATime'
      BY <1>1 DEF QueueEmpty, IInv, OneAtATime
    <2>2. UNCHANGED Abstract!vars
      BY <1>1 DEF QueueEmpty, Abstract!vars, Current, Busy
    <2> QED
      BY <2>1, <2>2
  <1>2. ASSUME NEW c \in Calls, AnsweredAtOnce(c) \/ Throws(c) \/ Starts(c)
        PROVE  OneAtATime' /\ (Abstract!Next \/ UNCHANGED Abstract!vars)
    <2>1. turn /\ fifo # <<>> /\ c = Head(fifo) /\ fifo' = Tail(fifo)
      BY <1>2 DEF AnsweredAtOnce, Throws, Starts
    <2>2. /\ Members(fifo) = Members(fifo') \cup {c}
          /\ c \notin Members(fifo') /\ Members(fifo') \subseteq Calls
      BY <2>1, ShiftOnce, MembersTyped DEF IInv, Sane
    <2>3. /\ kind[c] # "none" /\ job[c] = "none" /\ answered[c] = 0
          /\ ~executing /\ opening = "no"
          /\ \A d \in Calls : job[d] = "none"
      BY <2>1, <2>2 DEF IInv, Begun, OneAtATime
    <2>4. ~Throws(c) /\ ~NativeThrows(c)
      BY <2>3, CarefulCalls DEF Throws
    <2>5. UNCHANGED <<kind, got, held, hasConn, opening>>
      BY <1>2 DEF AnsweredAtOnce, Throws, Starts
    <2>6. Current = Nobody
      BY <2>3, CurrentCall
    <2>7. CASE AnsweredAtOnce(c)
      <3>1. Answer(c, 1) /\ UNCHANGED <<executing, turn, job>>
        BY <2>4, <2>7, CarefulCalls DEF AnsweredAtOnce
      <3>2. answered' = [answered EXCEPT ![c] = 1]
        BY <3>1, <2>3 DEF Answer
      <3>3. connected' => connected
        BY <2>7 DEF AnsweredAtOnce
      <3>4. \A d \in Calls : d # c => answered'[d] = answered[d]
        BY <3>2 DEF IInv, Sane
      <3>5. OneAtATime'
        BY <3>1, <3>3, <3>4, <2>1, <2>2, <2>3, <2>5 DEF IInv, OneAtATime
      <3>6. Current' = Current
        BY <3>1 DEF Current, Busy
      <3>7. Abstract!ServeAtOnce
        BY <3>2, <3>6, <2>1, <2>6 DEF Abstract!ServeAtOnce
      <3> QED
        BY <3>5, <3>7 DEF Abstract!Next
    <2>8. CASE Starts(c)
      <3>1. PICK j \in {"exec", "close"} : Work(c, j)
        BY <2>8, CarefulCalls DEF Starts
      <3>2. answered' = answered
        BY <2>8, CarefulCalls DEF Starts, Answer, IInv, Sane
      <3>3. executing' = TRUE /\ turn' = FALSE /\ connected' = connected
        BY <2>8 DEF Starts
      <3>4. /\ job'[c] = j /\ j # "none"
            /\ \A d \in Calls : d # c => job'[d] = "none"
        BY <3>1, <2>3 DEF Work, IInv, Sane
      <3>5. OneAtATime'
        BY <3>2, <3>3, <3>4, <2>2, <2>3, <2>5 DEF IInv, OneAtATime
      <3>6. Current' = c
        BY <3>4 DEF Current, Busy
      <3>7. Abstract!Serve
        BY <3>2, <3>6, <2>1, <2>6 DEF Abstract!Serve
      <3> QED
        BY <3>5, <3>7 DEF Abstract!Next
    <2> QED
      BY <1>2, <2>4, <2>7, <2>8
  <1> QED
    BY <1>1, <1>2 DEF RunsNext

(* A completion answers the current call, or goes on with it. *)
LEMMA CompletionSerial ==
    ASSUME Careful, IInv, NEW c \in Calls, Completion(c)
    PROVE  OneAtATime' /\ (Abstract!Next \/ UNCHANGED Abstract!vars)
  <1>1. /\ ~StreamsRead(c) /\ ~ExecGivesNothing(c) /\ ~LateAnswer(c)
        /\ ~FetchNextSet(c)
    BY CarefulCalls DEF StreamsRead, ExecGivesNothing, LateAnswer, Completes,
       FetchNextSet, Careful, IInv, OneAtATime
  <1>2. job[c] # "none" /\ ~turn /\ UNCHANGED <<kind, fifo, opening>>
    BY <1>1 DEF Completion, ExecFails, ExecAnswers, ExecGivesResult,
       FetchFails, FetchDone, CloseDone, Completes, Running
  <1>3. /\ answered[c] = 0 /\ kind[c] # "none" /\ executing /\ opening = "no"
        /\ c \notin Members(fifo) /\ Current = c /\ c # Nobody
        /\ \A d \in Calls : d # c => job[d] = "none"
    BY <1>2, CurrentCall, ConstantsAssumption DEF IInv, Begun, OneAtATime
  <1>4. /\ got' = got
        /\ (connected' => hasConn')
    <2>1. \/ connected' = connected /\ hasConn' = hasConn
          \/ connected' = FALSE
          \/ \E lost \in Losses : ConnectionError(lost)
      BY <1>1 DEF Completion, ExecFails, ExecAnswers, ExecGivesResult,
         FetchFails, FetchDone, CloseDone
    <2>2. ASSUME NEW lost \in Losses, ConnectionError(lost), connected'
          PROVE  hasConn'
      BY <2>2 DEF ConnectionError, IInv, OneAtATime
    <2>3. got' = got
      BY <1>1 DEF Completion, ExecFails, ExecAnswers, ExecGivesResult,
         FetchFails, FetchDone, CloseDone
    <2> QED
      BY <2>1, <2>2, <2>3 DEF IInv, OneAtATime
  <1>5. Members(fifo') = Members(fifo) /\ Members(fifo) \subseteq Calls
    BY <1>2, MembersTyped DEF IInv, Sane
  <1>6. CASE ExecGivesResult(c)
    <2>1. Work(c, "fetch") /\ UNCHANGED <<executing, turn, answered>>
      BY <1>6, CarefulCalls DEF ExecGivesResult, Stay
    <2>2. job'[c] = "fetch" /\ \A d \in Calls : d # c => job'[d] = "none"
      BY <2>1, <1>3 DEF Work, IInv, Sane
    <2>3. OneAtATime'
      BY <2>1, <2>2, <1>2, <1>3, <1>4, <1>5 DEF IInv, OneAtATime
    <2>4. Current' = c
      BY <2>2 DEF Current, Busy
    <2> QED
      BY <2>1, <2>3, <2>4, <1>2, <1>3 DEF Abstract!vars
  <1>7. CASE ~ExecGivesResult(c)
    <2>1. Answer(c, 1) /\ Work(c, "none") /\ NextCall
      BY <1>1, <1>7, CarefulCalls DEF Completion, ExecFails, ExecAnswers,
         FetchFails, FetchDone, CloseDone
    <2>2. answered' = [answered EXCEPT ![c] = 1]
      BY <2>1, <1>3 DEF Answer
    <2>3. \A d \in Calls : job'[d] = "none"
      BY <2>1, <1>3 DEF Work, IInv, Sane
    <2>4. executing' = FALSE /\ turn' = TRUE
      BY <2>1 DEF NextCall
    <2>5. \A d \in Calls : d # c => answered'[d] = answered[d]
      BY <2>2 DEF IInv, Sane
    <2>6. OneAtATime'
      BY <2>3, <2>4, <2>5, <1>2, <1>3, <1>4, <1>5 DEF IInv, OneAtATime
    <2>7. Current' = Nobody
      BY <2>3 DEF Current, Busy
    <2>8. Abstract!Answer
      BY <2>2, <2>7, <1>2, <1>3 DEF Abstract!Answer
    <2> QED
      BY <2>6, <2>8 DEF Abstract!Next
  <1> QED
    BY <1>6, <1>7

LEMMA NextSerial ==
    ASSUME Careful, IInv, [Next]_vars
    PROVE  IInv' /\ [Abstract!Next]_Abstract!vars
  <1>1. Sane' /\ Begun'
    BY NextBegun DEF IInv
  <1>2. OneAtATime' /\ (Abstract!Next \/ UNCHANGED Abstract!vars)
    <2>1. CASE UNCHANGED vars
      <3>1. OneAtATime'
        BY <2>1 DEF vars, IInv, OneAtATime
      <3>2. UNCHANGED Abstract!vars
        BY <2>1 DEF vars, Abstract!vars, Current, Busy
      <3> QED
        BY <3>1, <3>2
    <2>2. ASSUME NEW c \in Calls, NEW k \in Kinds, Push(c, k)
          PROVE  OneAtATime' /\ (Abstract!Next \/ UNCHANGED Abstract!vars)
      BY <2>2, PushSerial DEF Abstract!Next
    <2> QED
      BY <2>1, <2>2, OutsideSerial, RunsNextSerial, CompletionSerial DEF Next
  <1> QED
    BY <1>1, <1>2 DEF IInv

(* The callback comes after the call's last native work: for a careful      *)
(* application.                                                             *)
THEOREM AnswersComeLast == ASSUME Careful PROVE Spec => []AnsweredLast
  <1>1. Init => IInv
    BY InitBegun, InitOneAtATime DEF IInv
  <1>2. IInv /\ [Next]_vars => IInv'
    BY NextSerial
  <1>3. IInv => AnsweredLast
    BY DEF IInv, Sane, OneAtATime, AnsweredLast
  <1> QED
    BY <1>1, <1>2, <1>3, PTL DEF Spec

(* While db.connected is set the queued calls find db.conn, whatever open,  *)
(* close, closeSync and lost connections do in between.                     *)
THEOREM ConnectionIsThere == ASSUME Careful PROVE Spec => []ConnectedHasConn
  <1>1. Init => IInv
    BY InitBegun, InitOneAtATime DEF IInv
  <1>2. IInv /\ [Next]_vars => IInv'
    BY NextSerial
  <1>3. IInv => ConnectedHasConn
    BY DEF IInv, OneAtATime, ConnectedHasConn
  <1> QED
    BY <1>1, <1>2, <1>3, PTL DEF Spec

(* The safety part of Serial: every step of the queue is one of the serial  *)
(* queue, which carries out the calls one at a time, in order, and answers  *)
(* each at most once, or changes nothing of it.                             *)
THEOREM QueueIsSerial ==
    ASSUME Careful PROVE Spec => Abstract!Init /\ [][Abstract!Next]_Abstract!vars
  <1>1. Init => IInv
    BY InitBegun, InitOneAtATime DEF IInv
  <1>2. IInv /\ [Next]_vars => IInv' /\ [Abstract!Next]_Abstract!vars
    BY NextSerial
  <1>3. Init => Abstract!Init
    BY DEF Init, Abstract!Init, Current, Busy
  <1> QED
    BY <1>1, <1>2, <1>3, PTL DEF Spec
=============================================================================
