------------------------ MODULE ConnectionPool_proofs ------------------------
(***************************************************************************)
(* Proofs about ConnectionPool, for every number of clients, connections,  *)
(* connection strings and limits.  First what the array helpers do to a    *)
(* list without repetitions, then what each handler preserves, then the    *)
(* inductive invariant and the theorems.                                   *)
(***************************************************************************)
EXTENDS ConnectionPool, FiniteSetTheorems, SequenceTheorems,
        WellFoundedInduction, TLAPS

-----------------------------------------------------------------------------
(* Lists without repetitions. *)

(* A list of connections of string s, each at most once. *)
Uniq(list, s) ==
    /\ list \in Seq({d \in Conns : StrOf[d] = s})
    /\ \A i, j \in DOMAIN list : list[i] = list[j] => i = j

(* shift takes the first element, and only it. *)
LEMMA ShiftList ==
    ASSUME NEW s, NEW list, Uniq(list, s), list # <<>>
    PROVE  /\ Head(list) \in Conns /\ StrOf[Head(list)] = s
           /\ Head(list) \in Elems(list)
           /\ Uniq(Tail(list), s)
           /\ Elems(Tail(list)) = Elems(list) \ {Head(list)}
  <1> DEFINE S == {d \in Conns : StrOf[d] = s}
  <1>1. list \in Seq(S) /\ Len(list) \in Nat \ {0} /\ DOMAIN list = 1 .. Len(list)
    BY DEF Uniq
  <1>2. /\ Tail(list) \in Seq(S) /\ Len(Tail(list)) = Len(list) - 1
        /\ \A i \in 1 .. Len(Tail(list)) : Tail(list)[i] = list[i + 1]
    BY <1>1, HeadTailProperties
  <1>3. Head(list) = list[1]
    BY <1>1
  <1>4. DOMAIN Tail(list) = 1 .. Len(list) - 1
    BY <1>2
  <1>5. Uniq(Tail(list), s)
    BY <1>1, <1>2, <1>4 DEF Uniq
  <1>6. Elems(Tail(list)) \subseteq Elems(list) \ {Head(list)}
    BY <1>1, <1>2, <1>3, <1>4 DEF Uniq, Elems
  <1>7. ASSUME NEW d \in Elems(list) \ {Head(list)}
        PROVE  d \in Elems(Tail(list))
    <2>1. PICK i \in 1 .. Len(list) : list[i] = d
      BY <1>1 DEF Elems
    <2>2. i # 1 /\ i - 1 \in 1 .. Len(list) - 1
      BY <2>1, <1>1, <1>3, <1>7
    <2>3. Tail(list)[i - 1] = d
      BY <1>1, <1>2, <2>1, <2>2
    <2> QED
      BY <1>4, <2>2, <2>3 DEF Elems
  <1>8. Head(list) \in S /\ Head(list) \in Elems(list)
    BY <1>1, <1>3 DEF Elems
  <1> QED
    BY <1>5, <1>6, <1>7, <1>8

(* push adds one element at the end. *)
LEMMA PushList ==
    ASSUME NEW s, NEW list, Uniq(list, s),
           NEW d \in Conns, StrOf[d] = s, d \notin Elems(list)
    PROVE  /\ Uniq(Append(list, d), s)
           /\ Elems(Append(list, d)) = Elems(list) \cup {d}
  <1> DEFINE S == {x \in Conns : StrOf[x] = s}
  <1>1. list \in Seq(S) /\ DOMAIN list = 1 .. Len(list) /\ Len(list) \in Nat
    BY DEF Uniq
  <1>2. /\ Append(list, d) \in Seq(S)
        /\ DOMAIN Append(list, d) = 1 .. Len(list) + 1
        /\ \A i \in 1 .. Len(list) : Append(list, d)[i] = list[i]
        /\ Append(list, d)[Len(list) + 1] = d
    BY <1>1, AppendProperties
  <1>3. Elems(Append(list, d)) = Elems(list) \cup {d}
    BY <1>1, <1>2 DEF Elems
  <1>4. \A i \in 1 .. Len(list) : list[i] # d
    BY <1>1 DEF Elems
  <1>5. Uniq(Append(list, d), s)
    BY <1>1, <1>2, <1>4 DEF Uniq
  <1> QED
    BY <1>3, <1>5

(* Removing the i-th element removes it, and nothing comes in. *)
LEMMA WithoutList ==
    ASSUME NEW s, NEW list, Uniq(list, s), NEW i \in DOMAIN list
    PROVE  /\ Uniq(Without(list, i), s)
           /\ Elems(Without(list, i)) \subseteq Elems(list) \ {list[i]}
  <1> DEFINE S == {x \in Conns : StrOf[x] = s}
             out == Without(list, i)
  <1>1. /\ list \in Seq(S) /\ DOMAIN list = 1 .. Len(list)
        /\ Len(list) \in Nat \ {0} /\ i \in 1 .. Len(list)
    BY DEF Uniq
  <1>2. out = [j \in 1 .. Len(list) - 1 |-> IF j < i THEN list[j] ELSE list[j + 1]]
    BY DEF Without
  <1>3. DOMAIN out = 1 .. Len(list) - 1 /\ \A j \in 1 .. Len(list) - 1 : out[j] \in S
    BY <1>1, <1>2
  <1>4. out \in Seq(S)
    BY <1>1, <1>2, <1>3
  <1>5. \A j \in DOMAIN out : \E k \in DOMAIN list : k # i /\ out[j] = list[k]
    BY <1>1, <1>2, <1>3
  <1>6. \A j, k \in DOMAIN out : out[j] = out[k] => j = k
    BY <1>1, <1>2, <1>3 DEF Uniq
  <1> QED
    BY <1>4, <1>5, <1>6 DEF Uniq, Elems

(* After splice(indexOf(d), 1) d is not in the list, whether or not it was. *)
LEMMA SpliceList ==
    ASSUME NEW s, NEW list, Uniq(list, s), NEW d
    PROVE  /\ Uniq(SpliceOut(list, d), s)
           /\ Elems(SpliceOut(list, d)) \subseteq Elems(list) \ {d}
  <1>1. CASE d \in Elems(list)
    <2> DEFINE i == CHOOSE k \in DOMAIN list : list[k] = d
    <2>1. i \in DOMAIN list /\ list[i] = d
      BY <1>1 DEF Elems
    <2>2. SpliceOut(list, d) = Without(list, i)
      BY <1>1 DEF SpliceOut
    <2> QED
      BY <2>1, <2>2, WithoutList
  <1>2. CASE d \notin Elems(list) /\ list = <<>>
    BY <1>2 DEF SpliceOut
  <1>3. CASE d \notin Elems(list) /\ list # <<>>
    <2>1. Len(list) \in DOMAIN list
      BY <1>3 DEF Uniq
    <2>2. SpliceOut(list, d) = Without(list, Len(list))
      BY <1>3 DEF SpliceOut
    <2> QED
      BY <1>3, <2>1, <2>2, WithoutList
  <1> QED
    BY <1>1, <1>2, <1>3

(* A list cut at the front. *)
LEMMA CutList ==
    ASSUME NEW s, NEW list, Uniq(list, s), NEW n \in 0 .. Len(list)
    PROVE  /\ Uniq(SubSeq(list, n + 1, Len(list)), s)
           /\ Elems(SubSeq(list, n + 1, Len(list))) \subseteq Elems(list)
  <1> DEFINE S == {x \in Conns : StrOf[x] = s}
             out == SubSeq(list, n + 1, Len(list))
  <1>1. list \in Seq(S) /\ DOMAIN list = 1 .. Len(list) /\ Len(list) \in Nat
    BY DEF Uniq
  <1>2. \A j \in n + 1 .. Len(list) : list[j] \in S
    BY <1>1
  <1>3. /\ out \in Seq(S)
        /\ Len(out) = IF n + 1 <= Len(list) THEN Len(list) - (n + 1) + 1 ELSE 0
        /\ \A j \in 1 .. Len(list) - (n + 1) + 1 : out[j] = list[n + 1 + j - 1]
    BY <1>1, <1>2, n + 1 \in Int, Len(list) \in Int, SubSeqProperties
  <1>4. /\ DOMAIN out = 1 .. Len(list) - n
        /\ \A j \in 1 .. Len(list) - n : out[j] = list[j + n]
    BY <1>1, <1>3
  <1>5. \A j \in 1 .. Len(list) - n :
           j + n \in DOMAIN list /\ out[j] = list[j + n]
    BY <1>1, <1>4
  <1>6. ASSUME NEW j \in DOMAIN out, NEW k \in DOMAIN out, out[j] = out[k]
        PROVE  j = k
    <2>1. j + n \in DOMAIN list /\ k + n \in DOMAIN list
      BY <1>4, <1>5
    <2>2. list[j + n] = list[k + n]
      BY <1>4, <1>5, <1>6
    <2>3. j + n = k + n
      BY <2>1, <2>2 DEF Uniq
    <2> QED
      BY <2>3, <1>1, <1>4
  <1>7. Elems(out) \subseteq Elems(list)
    BY <1>4, <1>5 DEF Elems
  <1> QED
    BY <1>3, <1>6, <1>7 DEF Uniq

(* Every set of natural numbers has a least element. *)
LEMMA LeastNatural ==
    ASSUME NEW T, T \subseteq Nat, T # {}
    PROVE  \E m \in T : \A k \in T : m <= k
  <1> DEFINE R == StrictSubsetOrdering(Nat)
             F == FiniteSubsetsOf(Nat)
             U == {1 .. k : k \in T}
  <1>1. \A k \in Nat : 1 .. k \in F
    BY FS_Interval DEF FiniteSubsetsOf
  <1>2. PICK u \in U : \A v \in U : ~ (<<v, u>> \in R)
    <2>1. U \subseteq F /\ U # {}
      BY <1>1
    <2>2. IsWellFoundedOn(R, F)
      BY FS_StrictSubsetOrderingWellFounded
    <2> HIDE DEF R, F, U
    <2> QED
      BY <2>1, <2>2, WFMin
  <1>3. PICK m \in T : u = 1 .. m
    BY <1>2
  <1>4. ASSUME NEW k \in T, k < m
        PROVE  FALSE
    <2>1. 1 .. k \subseteq 1 .. m /\ m \in 1 .. m /\ m \notin 1 .. k
      BY <1>3, <1>4
    <2>2. <<1 .. k, 1 .. m>> \in R
      BY <2>1, <1>3 DEF StrictSubsetOrdering
    <2> QED
      BY <2>2, <1>2, <1>3, <1>4
  <1> QED
    BY <1>3, <1>4

(* In a set of indices, every rank up to its size is the rank of one.       *)
LEMMA RankExists ==
    ASSUME NEW n \in Nat, NEW stay, stay \subseteq 1 .. n,
           NEW k \in 1 .. Cardinality(stay)
    PROVE  \E i \in stay : Cardinality({j \in stay : j <= i}) = k
  <1> DEFINE upto(m) == {j \in stay : j <= m}
             T == {m \in Nat : k <= Cardinality(upto(m))}
  <1>0. \A j \in stay : j \in Nat \ {0} /\ j <= n
    OBVIOUS
  <1>1. IsFiniteSet(stay) /\ Cardinality(stay) \in Nat
    <2>1. IsFiniteSet(1 .. n)
      BY FS_Interval, 1 \in Int, n \in Int
    <2>2. IsFiniteSet(stay)
      BY <2>1, FS_Subset
    <2> QED
      BY <2>2, FS_CardinalityType
  <1>2. \A m \in Nat : IsFiniteSet(upto(m)) /\ Cardinality(upto(m)) \in Nat
    <2> TAKE m \in Nat
    <2>1. upto(m) \in SUBSET stay
      OBVIOUS
    <2>2. IsFiniteSet(upto(m))
      BY <2>1, <1>1, FS_Subset
    <2> QED
      BY <2>2, FS_CardinalityType
  <1>3. n \in T
    <2>1. upto(n) = stay
      BY <1>0
    <2> QED
      BY <2>1, <1>1
  <1>4. PICK m \in T : \A x \in T : m <= x
    <2>1. T \subseteq Nat /\ T # {}
      BY <1>3
    <2> HIDE DEF T
    <2> QED
      BY <2>1, LeastNatural
  <1>5. m \in Nat /\ k <= Cardinality(upto(m))
    BY <1>4
  <1>6. m # 0
    <2>1. upto(0) = {}
      <3>1. \A j \in stay : ~ (j <= 0)
        BY <1>0
      <3> QED
        BY <3>1
    <2>2. Cardinality(upto(0)) = 0
      BY <2>1, FS_EmptySet
    <2> HIDE DEF upto
    <2> QED
      BY <2>2, <1>1, <1>5
  <1>7. m - 1 \in Nat /\ m - 1 \notin T
    <2> HIDE DEF T
    <2> QED
      BY <1>4, <1>5, <1>6
  <1>8. Cardinality(upto(m - 1)) < k
    <2>1. ~ (k <= Cardinality(upto(m - 1)))
      BY <1>7
    <2>2. Cardinality(upto(m - 1)) \in Nat
      BY <1>2, <1>7
    <2> HIDE DEF upto
    <2> QED
      BY <2>1, <2>2, <1>1
  <1>9. m \in stay
    <2>1. SUFFICES ASSUME m \notin stay
                   PROVE  FALSE
      OBVIOUS
    <2>2. upto(m) = upto(m - 1)
      <3>1. \A j \in stay : j <= m <=> j <= m - 1
        BY <1>0, <1>5, <1>7, <2>1
      <3> QED
        BY <3>1
    <2>3. Cardinality(upto(m - 1)) \in Nat
      BY <1>2, <1>7
    <2> HIDE DEF upto
    <2> QED
      BY <2>2, <2>3, <1>1, <1>5, <1>8
  <1>10. Cardinality(upto(m)) = Cardinality(upto(m - 1)) + 1
    <2>1. upto(m) = upto(m - 1) \cup {m} /\ m \notin upto(m - 1)
      <3>1. \A j \in stay : j <= m <=> (j <= m - 1 \/ j = m)
        BY <1>0, <1>5, <1>7
      <3>2. ~ (m <= m - 1)
        BY <1>5, <1>7
      <3> QED
        BY <3>1, <3>2, <1>9
    <2>2. IsFiniteSet(upto(m - 1))
      BY <1>2, <1>7
    <2> HIDE DEF upto
    <2> QED
      BY <2>1, <2>2, FS_AddElement
  <1>11. Cardinality(upto(m)) = k
    <2>1. Cardinality(upto(m - 1)) \in Nat
      BY <1>2, <1>7
    <2> HIDE DEF upto
    <2> QED
      BY <2>1, <1>1, <1>5, <1>8, <1>10
  <1> QED
    BY <1>9, <1>11

(* filter keeps only what should stay, at most once. *)
LEMMA FilterList ==
    ASSUME NEW s, NEW list, Uniq(list, s), NEW gone
    PROVE  /\ Uniq(FilterOut(list, gone), s)
           /\ Elems(FilterOut(list, gone)) \subseteq Elems(list) \ gone
  <1> DEFINE S == {x \in Conns : StrOf[x] = s}
             stay == {i \in DOMAIN list : list[i] \notin gone}
             rank(i) == Cardinality({j \in stay : j <= i})
             at(k) == CHOOSE i \in stay : rank(i) = k
             out == FilterOut(list, gone)
  <1>1. /\ list \in Seq(S) /\ DOMAIN list = 1 .. Len(list) /\ Len(list) \in Nat
        /\ \A i \in DOMAIN list : list[i] \in S
    BY DEF Uniq
  <1>2. stay \subseteq 1 .. Len(list) /\ Cardinality(stay) \in Nat
    <2>1. stay \subseteq 1 .. Len(list)
      BY <1>1
    <2>2. IsFiniteSet(1 .. Len(list))
      BY <1>1, 1 \in Int, Len(list) \in Int, FS_Interval
    <2> HIDE DEF stay
    <2>3. IsFiniteSet(stay)
      BY <2>1, <2>2, FS_Subset
    <2> QED
      BY <2>1, <2>3, FS_CardinalityType
  <1>3. \A k \in 1 .. Cardinality(stay) : at(k) \in stay /\ rank(at(k)) = k
    <2> SUFFICES ASSUME NEW k \in 1 .. Cardinality(stay)
                 PROVE  \E i \in stay : rank(i) = k
      OBVIOUS
    <2>1. Len(list) \in Nat /\ stay \subseteq 1 .. Len(list)
      BY <1>1, <1>2
    <2> HIDE DEF stay
    <2>2. \E i \in stay : Cardinality({j \in stay : j <= i}) = k
      BY <2>1, RankExists
    <2> QED
      BY <2>2
  <1>4. out = [k \in 1 .. Cardinality(stay) |-> list[at(k)]]
    BY DEF FilterOut
  <1>5. \A k \in 1 .. Cardinality(stay) :
           /\ at(k) \in DOMAIN list
           /\ list[at(k)] \in S
           /\ list[at(k)] \in Elems(list) \ gone
    BY <1>1, <1>3 DEF Elems
  <1>6. \A j, k \in 1 .. Cardinality(stay) : list[at(j)] = list[at(k)] => j = k
    <2> TAKE j, k \in 1 .. Cardinality(stay)
    <2> HAVE list[at(j)] = list[at(k)]
    <2>1. at(j) = at(k)
      BY <1>5 DEF Uniq
    <2> QED
      BY <2>1, <1>3
  <1> HIDE DEF stay, at
  <1>7. DOMAIN out = 1 .. Cardinality(stay) /\ out \in Seq(S)
    BY <1>2, <1>4, <1>5
  <1>8. \A k \in DOMAIN out : out[k] = list[at(k)]
    BY <1>4
  <1> HIDE DEF out
  <1>9. Uniq(out, s)
    BY <1>6, <1>7, <1>8 DEF Uniq
  <1>10. Elems(out) \subseteq Elems(list) \ gone
    BY <1>5, <1>7, <1>8 DEF Elems
  <1> QED
    BY <1>9, <1>10 DEF out

-----------------------------------------------------------------------------
(* What the handlers preserve, in parts. *)

Lists(p) ==
    \A s \in Strs : /\ Uniq(p.avail[s], s)
                    /\ Uniq(p.used[s], s)
                    /\ Elems(p.avail[s]) \cap Elems(p.used[s]) = {}

(* The connections whose first open is still running. *)
Starting(p) == {d \in Conns : p.opening[d] # Nobody} \cup p.warming

(* Nobody knows a connection before it is open. *)
Apart(p) ==
    \A d \in Starting(p) : /\ d \notin Elems(p.avail[StrOf[d]])
                           /\ d \notin Elems(p.used[StrOf[d]])
                           /\ \A c \in Clients : p.ref[c] # d

Handles(p) ==
    /\ \A c \in Clients : p.pc[c] = "holding" => p.ref[c] \in Conns
    /\ \A d \in p.warming : p.opening[d] = Nobody

Sane(p) == p \in PoolStates /\ Lists(p) /\ Apart(p) /\ Handles(p)

(* Clients hold different connections, none of them idle or going away,     *)
(* where the connections of x, and those that are dead, do not count.       *)
Exclusive(p, x) ==
    /\ \A c \in Clients : p.pc[c] = "holding" /\ p.ref[c] \in p.live \ x =>
          /\ p.ref[c] \notin Elems(p.avail[StrOf[p.ref[c]]])
          /\ p.ref[c] \notin p.closing
          /\ \A e \in Clients \ {c} : p.pc[e] = "holding" => p.ref[e] # p.ref[c]
    /\ \A s \in Strs : Elems(p.avail[s]) \cap p.closing = {}
    /\ Starting(p) \cap p.closing = {}

Unheld(p, d) == \A c \in Clients : p.pc[c] = "holding" => p.ref[c] # d

(* Connection d may go back to the pool. *)
Releasable(p, x, d) ==
    /\ Exclusive(p, x)
    /\ d \in p.live => d \notin p.closing /\ (d \in x \/ Unheld(p, d))

(* What no synchronous handler touches. *)
SameOpens(p, q) == q.opening = p.opening /\ q.warming = p.warming

(* Exclusive depends on a part of the state, and is monotone in some of it. *)
LEMMA ExclusiveFrame ==
    ASSUME NEW p, NEW q, NEW x, Exclusive(p, x), SameOpens(p, q),
           q.pc = p.pc, q.ref = p.ref, q.live \subseteq p.live,
           q.closing = p.closing,
           \A s \in Strs : Elems(q.avail[s]) \subseteq Elems(p.avail[s]),
           \A c \in Clients : p.pc[c] = "holding" => p.ref[c] \in Conns
    PROVE  Exclusive(q, x)
  BY ConstantsAssumption DEF Exclusive, SameOpens, Starting

LEMMA ApartFrame ==
    ASSUME NEW p, NEW q, NEW d, Sane(p), SameOpens(p, q),
           q.pc = p.pc, q.ref = p.ref, d \notin Starting(p),
           \A s \in Strs : /\ Elems(q.avail[s]) \subseteq
                                 Elems(p.avail[s]) \cup Elems(p.used[s]) \cup {d}
                           /\ Elems(q.used[s]) \subseteq
                                 Elems(p.avail[s]) \cup Elems(p.used[s]) \cup {d}
    PROVE  Apart(q) /\ Handles(q)
  <1>1. Starting(q) = Starting(p)
    BY DEF SameOpens, Starting
  <1>2. \A e \in Starting(p) : e \in Conns /\ StrOf[e] \in Strs
    BY ConstantsAssumption DEF Starting, Sane, PoolStates
  <1>3. Apart(q)
    <2> SUFFICES ASSUME NEW e \in Starting(p)
                 PROVE  /\ e \notin Elems(q.avail[StrOf[e]])
                        /\ e \notin Elems(q.used[StrOf[e]])
                        /\ \A c \in Clients : q.ref[c] # e
      BY <1>1 DEF Apart
    <2>1. /\ e \notin Elems(p.avail[StrOf[e]])
          /\ e \notin Elems(p.used[StrOf[e]])
          /\ \A c \in Clients : p.ref[c] # e
      BY DEF Sane, Apart
    <2>2. e # d /\ StrOf[e] \in Strs
      BY <1>2
    <2> QED
      BY <2>1, <2>2
  <1>4. Handles(q)
    BY DEF Sane, Handles, SameOpens
  <1> QED
    BY <1>3, <1>4

LEMMA TakeFirstKeeps ==
    ASSUME NEW p, NEW s \in Strs, NEW x, Sane(p), p.avail[s] # <<>>,
           NEW d, d = Head(p.avail[s]),
           NEW q, q = TakeFirst(p, s)
    PROVE  /\ d \in Conns /\ StrOf[d] = s /\ d \in Elems(p.avail[s])
           /\ d \notin Starting(p)
           /\ Sane(q)
           /\ SameOpens(p, q)
           /\ q.live = p.live /\ q.closing = p.closing
           /\ q.pc = p.pc /\ q.ref = p.ref
           /\ \A t \in Strs : Elems(q.avail[t]) \subseteq Elems(p.avail[t])
           /\ d \notin Elems(q.avail[s])
           /\ Exclusive(p, x) => Exclusive(q, x)
  <1>1. /\ p \in PoolStates /\ Uniq(p.avail[s], s) /\ Uniq(p.used[s], s)
        /\ Elems(p.avail[s]) \cap Elems(p.used[s]) = {}
    BY DEF Sane, Lists
  <1>2. /\ d \in Conns /\ StrOf[d] = s /\ d \in Elems(p.avail[s])
        /\ Uniq(Tail(p.avail[s]), s)
        /\ Elems(Tail(p.avail[s])) = Elems(p.avail[s]) \ {d}
    BY <1>1, ShiftList
  <1>3. /\ Uniq(Append(p.used[s], d), s)
        /\ Elems(Append(p.used[s], d)) = Elems(p.used[s]) \cup {d}
    BY <1>1, <1>2, PushList
  <1> DEFINE z == [p EXCEPT !.avail = [p.avail EXCEPT ![s] = Tail(p.avail[s])],
                            !.used = [p.used EXCEPT ![s] = Append(p.used[s], d)],
                            !.stamped = p.stamped \ {d}]
  <1>4. q = z
    BY <1>1, <1>2 DEF TakeFirst, Use, PoolStates
  <1>5. /\ q \in PoolStates
        /\ q.avail = [p.avail EXCEPT ![s] = Tail(p.avail[s])]
        /\ q.used = [p.used EXCEPT ![s] = Append(p.used[s], d)]
        /\ SameOpens(p, q)
        /\ q.live = p.live /\ q.closing = p.closing
        /\ q.pc = p.pc /\ q.ref = p.ref
    <2>1. Tail(p.avail[s]) \in Seq(Conns) /\ Append(p.used[s], d) \in Seq(Conns)
      BY <1>1, <1>2 DEF PoolStates
    <2>2. /\ z \in PoolStates
          /\ z.avail = [p.avail EXCEPT ![s] = Tail(p.avail[s])]
          /\ z.used = [p.used EXCEPT ![s] = Append(p.used[s], d)]
          /\ SameOpens(p, z)
          /\ z.live = p.live /\ z.closing = p.closing
          /\ z.pc = p.pc /\ z.ref = p.ref
      BY <1>1, <2>1 DEF PoolStates, SameOpens
    <2> HIDE DEF z
    <2> QED
      BY <1>4, <2>2
  <1> HIDE DEF z
  <1>6. Lists(q)
    <2> SUFFICES ASSUME NEW t \in Strs
                 PROVE  /\ Uniq(q.avail[t], t) /\ Uniq(q.used[t], t)
                        /\ Elems(q.avail[t]) \cap Elems(q.used[t]) = {}
      BY DEF Lists
    <2>1. CASE t = s
      <3>1. q.avail[t] = Tail(p.avail[s]) /\ q.used[t] = Append(p.used[s], d)
        BY <1>1, <1>5, <2>1 DEF PoolStates
      <3> QED
        BY <3>1, <1>1, <1>2, <1>3, <2>1
    <2>2. CASE t # s
      <3>1. q.avail[t] = p.avail[t] /\ q.used[t] = p.used[t]
        BY <1>1, <1>5, <2>2 DEF PoolStates
      <3> QED
        BY <3>1 DEF Sane, Lists
    <2> QED
      BY <2>1, <2>2
  <1>7. d \notin Starting(p)
    BY <1>2 DEF Sane, Apart
  <1>8. /\ \A t \in Strs : Elems(q.avail[t]) \subseteq Elems(p.avail[t])
        /\ \A t \in Strs : Elems(q.used[t]) \subseteq Elems(p.used[t]) \cup {d}
        /\ d \notin Elems(q.avail[s])
    <2> SUFFICES ASSUME NEW t \in Strs
                 PROVE  /\ Elems(q.avail[t]) \subseteq Elems(p.avail[t])
                        /\ Elems(q.used[t]) \subseteq Elems(p.used[t]) \cup {d}
                        /\ d \notin Elems(q.avail[s])
      OBVIOUS
    <2>1. q.avail[s] = Tail(p.avail[s]) /\ q.used[s] = Append(p.used[s], d)
      BY <1>1, <1>5 DEF PoolStates
    <2>2. t # s => q.avail[t] = p.avail[t] /\ q.used[t] = p.used[t]
      BY <1>1, <1>5 DEF PoolStates
    <2> QED
      BY <2>1, <2>2, <1>2, <1>3
  <1>9. Apart(q) /\ Handles(q)
    BY <1>5, <1>7, <1>8, ApartFrame
  <1>10. Exclusive(p, x) => Exclusive(q, x)
    BY <1>5, <1>8, ExclusiveFrame DEF Sane, Handles
  <1> QED
    BY <1>2, <1>5, <1>6, <1>7, <1>8, <1>9, <1>10 DEF Sane

(* A client is handed a connection that is not on offer any more. *)
LEMMA HandToKeeps ==
    ASSUME NEW p, NEW x, NEW c \in Clients, NEW d \in Conns, Sane(p),
           d \notin Starting(p), NEW q, q = HandTo(p, c, d)
    PROVE  /\ Sane(q)
           /\ SameOpens(p, q)
           /\ q.live = p.live /\ q.closing = p.closing
           /\ q.avail = p.avail /\ q.used = p.used
           /\ /\ Exclusive(p, x)
              /\ d \notin Elems(p.avail[StrOf[d]])
              /\ d \notin p.closing
              /\ d \notin p.live \ x \/ Unheld(p, d)
              => Exclusive(q, x)
  <1>1. p \in PoolStates
    BY DEF Sane
  <1>2. /\ q \in PoolStates
        /\ q.pc = [p.pc EXCEPT ![c] = "holding"]
        /\ q.ref = [p.ref EXCEPT ![c] = d]
        /\ q.avail = p.avail /\ q.used = p.used /\ SameOpens(p, q)
        /\ q.live = p.live /\ q.closing = p.closing
    BY <1>1 DEF HandTo, PoolStates, SameOpens
  <1>3. /\ q.pc[c] = "holding" /\ q.ref[c] = d
        /\ \A e \in Clients \ {c} : q.pc[e] = p.pc[e] /\ q.ref[e] = p.ref[e]
    BY <1>1, <1>2 DEF PoolStates
  <1>4. Starting(q) = Starting(p)
    BY <1>2 DEF Starting, SameOpens
  <1>5. Lists(q)
    BY <1>2 DEF Sane, Lists
  <1>6. Apart(q)
    BY <1>2, <1>3, <1>4 DEF Sane, Apart
  <1>7. Handles(q)
    BY <1>2, <1>3 DEF Sane, Handles, SameOpens
  <1>8. ASSUME Exclusive(p, x), d \notin Elems(p.avail[StrOf[d]]),
               d \notin p.closing, d \notin p.live \ x \/ Unheld(p, d)
        PROVE  Exclusive(q, x)
    <2>1. ASSUME NEW e \in Clients, q.pc[e] = "holding", q.ref[e] \in q.live \ x
          PROVE  /\ q.ref[e] \notin Elems(q.avail[StrOf[q.ref[e]]])
                 /\ q.ref[e] \notin q.closing
                 /\ \A f \in Clients \ {e} :
                       q.pc[f] = "holding" => q.ref[f] # q.ref[e]
      <3>1. CASE e = c
        BY <1>2, <1>3, <1>8, <2>1, <3>1 DEF Unheld
      <3>2. CASE e # c
        <4>1. p.pc[e] = "holding" /\ p.ref[e] \in p.live \ x /\ q.ref[e] = p.ref[e]
          BY <1>2, <1>3, <2>1, <3>2
        <4>2. p.ref[e] # d
          BY <4>1, <1>8 DEF Unheld
        <4> QED
          BY <4>1, <4>2, <1>2, <1>3, <1>8, <2>1, <3>2 DEF Exclusive
      <3> QED
        BY <3>1, <3>2
    <2> QED
      BY <2>1, <1>2, <1>4, <1>8 DEF Exclusive
  <1> QED
    BY <1>2, <1>5, <1>6, <1>7, <1>8 DEF Sane

(* An available connection goes to client c. *)
LEMMA ServeKeeps ==
    ASSUME NEW p, NEW x, NEW s \in Strs, NEW c \in Clients, Sane(p),
           p.avail[s] # <<>>,
           NEW n, n = HandTo(TakeFirst(p, s), c, Head(p.avail[s]))
    PROVE  /\ Sane(n) /\ SameOpens(p, n)
           /\ n.live = p.live /\ n.closing = p.closing
           /\ Exclusive(p, x) => Exclusive(n, x)
  <1> DEFINE d == Head(p.avail[s])
             r == TakeFirst(p, s)
  <1>1. d = Head(p.avail[s]) /\ r = TakeFirst(p, s) /\ n = HandTo(r, c, d)
    OBVIOUS
  <1> HIDE DEF d, r
  <1>2. /\ d \in Conns /\ StrOf[d] = s /\ d \in Elems(p.avail[s])
        /\ d \notin Starting(p)
        /\ Sane(r) /\ SameOpens(p, r)
        /\ r.live = p.live /\ r.closing = p.closing
        /\ r.pc = p.pc /\ r.ref = p.ref
        /\ d \notin Elems(r.avail[s])
        /\ Exclusive(p, x) => Exclusive(r, x)
    BY <1>1, TakeFirstKeeps, Z3
  <1>3. d \notin Starting(r)
    BY <1>2 DEF Starting, SameOpens
  <1>4. /\ Sane(n) /\ SameOpens(r, n) /\ n.live = r.live /\ n.closing = r.closing
        /\ /\ Exclusive(r, x)
           /\ d \notin Elems(r.avail[StrOf[d]])
           /\ d \notin r.closing
           /\ d \notin r.live \ x \/ Unheld(r, d)
           => Exclusive(n, x)
    BY <1>1, <1>2, <1>3, HandToKeeps
  <1>5. ASSUME Exclusive(p, x)
        PROVE  Exclusive(n, x)
    <2>1. d \notin p.closing /\ (d \notin p.live \ x \/ Unheld(p, d))
      BY <1>2, <1>5 DEF Exclusive, Unheld
    <2>2. d \notin r.closing /\ (d \notin r.live \ x \/ Unheld(r, d))
      BY <1>2, <2>1 DEF Unheld
    <2> QED
      BY <1>2, <1>4, <1>5, <2>2
  <1> QED
    BY <1>2, <1>4, <1>5 DEF SameOpens

(* queue.next() *)
LEMMA RunNextKeeps ==
    ASSUME NEW p, NEW x, Sane(p), NEW n, n = RunNext(p)
    PROVE  /\ Sane(n)
           /\ SameOpens(p, n)
           /\ n.live = p.live /\ n.closing = p.closing
           /\ Exclusive(p, x) => Exclusive(n, x)
  <1> DEFINE w == Head(p.fifo)
             q == [p EXCEPT !.fifo = Tail(@)]
             d == Head(p.avail[w.str])
  <1>1. p \in PoolStates
    BY DEF Sane
  <1>2. CASE p.fifo = <<>>
    BY <1>2 DEF RunNext, SameOpens
  <1>3. CASE p.fifo # <<>>
    <2>1. w \in Requests /\ Tail(p.fifo) \in Seq(Requests)
      BY <1>1, <1>3, HeadTailProperties DEF PoolStates
    <2>2. w.str \in Strs /\ w.client \in Clients \cup {Nobody}
      BY <2>1 DEF Requests
    <2>3. /\ q \in PoolStates
          /\ q.avail = p.avail /\ q.used = p.used /\ SameOpens(p, q)
          /\ q.live = p.live /\ q.closing = p.closing
          /\ q.pc = p.pc /\ q.ref = p.ref /\ q.fifo = Tail(p.fifo)
      BY <1>1, <2>1 DEF PoolStates, SameOpens
    <2> HIDE DEF w, q
    <2>4. Sane(q) /\ (Exclusive(p, x) => Exclusive(q, x))
      <3>1. Starting(q) = Starting(p)
        BY <2>3 DEF Starting, SameOpens
      <3> QED
        BY <2>3, <3>1 DEF Sane, Lists, Apart, Handles, Exclusive, SameOpens
    <2>5. CASE p.avail[w.str] = <<>>
      <3> DEFINE z == [q EXCEPT !.fifo = Append(@, w)]
      <3>1. RunNext(p) = z
        BY <1>3, <2>5 DEF RunNext, w, q
      <3>2. Append(q.fifo, w) \in Seq(Requests)
        BY <2>1, <2>3
      <3>3. /\ z \in PoolStates
            /\ z.avail = q.avail /\ z.used = q.used /\ SameOpens(q, z)
            /\ z.live = q.live /\ z.closing = q.closing
            /\ z.pc = q.pc /\ z.ref = q.ref
        BY <2>3, <3>2 DEF PoolStates, SameOpens
      <3> HIDE DEF z
      <3>4. Sane(z) /\ (Exclusive(q, x) => Exclusive(z, x))
        <4>1. Starting(z) = Starting(q)
          BY <3>3 DEF Starting, SameOpens
        <4> QED
          BY <3>3, <4>1, <2>4 DEF Sane, Lists, Apart, Handles, Exclusive, SameOpens
      <3> QED
        BY <3>1, <3>3, <3>4, <2>3, <2>4 DEF SameOpens
    <2>6. CASE p.avail[w.str] # <<>>
      <3>1. q.avail[w.str] # <<>> /\ d = Head(q.avail[w.str])
        BY <2>3, <2>6
      <3>2. CASE w.client = Nobody
        <4>1. n = TakeFirst(q, w.str)
          BY <1>3, <2>6, <3>2 DEF RunNext, w, q
        <4> HIDE DEF d
        <4>2. /\ Sane(n) /\ SameOpens(q, n)
              /\ n.live = q.live /\ n.closing = q.closing
              /\ Exclusive(q, x) => Exclusive(n, x)
          BY <2>2, <2>4, <3>1, <4>1, TakeFirstKeeps, Z3
        <4> QED
          BY <4>2, <2>3, <2>4 DEF SameOpens
      <3>3. CASE w.client # Nobody
        <4>1. n = HandTo(TakeFirst(q, w.str), w.client, Head(q.avail[w.str]))
          BY <1>3, <2>6, <3>1, <3>3 DEF RunNext, w, q
        <4>2. w.client \in Clients
          BY <2>2, <3>3
        <4> HIDE DEF d
        <4>3. /\ Sane(n) /\ SameOpens(q, n)
              /\ n.live = q.live /\ n.closing = q.closing
              /\ Exclusive(q, x) => Exclusive(n, x)
          BY <2>2, <2>4, <3>1, <4>1, <4>2, ServeKeeps, Z3
        <4> QED
          BY <4>3, <2>3, <2>4 DEF SameOpens
      <3> QED
        BY <3>2, <3>3
    <2> QED
      BY <2>5, <2>6
  <1> QED
    BY <1>2, <1>3

LEMMA ElemsTyped ==
    ASSUME NEW s, NEW list, Uniq(list, s), NEW d \in Elems(list)
    PROVE  d \in Conns /\ StrOf[d] = s
  <1>1. PICK i \in DOMAIN list : list[i] = d
    BY DEF Elems
  <1> QED
    BY <1>1 DEF Uniq

LEMMA ElemsFinite ==
    ASSUME NEW s, NEW list, Uniq(list, s)
    PROVE  IsFiniteSet(Elems(list))
  <1>1. DOMAIN list = 1 .. Len(list) /\ Len(list) \in Nat
        /\ list \in [1 .. Len(list) -> Elems(list)]
    BY DEF Uniq, Elems
  <1>2. list \in Surjection(1 .. Len(list), Elems(list))
    BY <1>1 DEF Surjection, Elems
  <1>3. IsFiniteSet(1 .. Len(list))
    BY <1>1, 1 \in Int, Len(list) \in Int, FS_Interval
  <1> QED
    BY <1>2, <1>3, FS_Surjection

(* From p to q the lists of d's connection string become a and u: elements  *)
(* go, and d may come to the available ones.                                *)
NewLists(p, q, d, a, u) ==
    LET s == StrOf[d]
    IN /\ Sane(p) /\ q \in PoolStates /\ SameOpens(p, q)
       /\ q.pc = p.pc /\ q.ref = p.ref /\ q.live = p.live
       /\ q.avail[s] = a /\ q.used[s] = u
       /\ \A t \in Strs \ {s} : q.avail[t] = p.avail[t] /\ q.used[t] = p.used[t]
       /\ d \in Conns /\ d \notin Starting(p)
       /\ Uniq(a, s) /\ Uniq(u, s) /\ Elems(a) \cap Elems(u) = {}
       /\ Elems(a) \subseteq Elems(p.avail[s]) \cup {d}
       /\ Elems(u) \subseteq Elems(p.used[s])

LEMMA NewListsSane ==
    ASSUME NEW p, NEW q, NEW d, NEW a, NEW u, NewLists(p, q, d, a, u)
    PROVE  Sane(q)
  <1>1. Lists(q)
    BY DEF NewLists, Sane, Lists
  <1>2. Apart(q) /\ Handles(q)
    <2>1. \A t \in Strs :
             /\ Elems(q.avail[t]) \subseteq
                   Elems(p.avail[t]) \cup Elems(p.used[t]) \cup {d}
             /\ Elems(q.used[t]) \subseteq
                   Elems(p.avail[t]) \cup Elems(p.used[t]) \cup {d}
      BY DEF NewLists
    <2> QED
      BY <2>1, ApartFrame DEF NewLists
  <1> QED
    BY <1>1, <1>2 DEF Sane, NewLists

LEMMA NewListsExclusive ==
    ASSUME NEW p, NEW q, NEW d, NEW a, NEW u, NewLists(p, q, d, a, u),
           NEW x, Exclusive(p, x),
           d \in Elems(a) => \/ d \in Elems(p.avail[StrOf[d]])
                             \/ d \notin p.closing /\ (d \in x \/ Unheld(p, d)),
           q.closing \subseteq p.closing \cup Elems(p.avail[StrOf[d]]),
           q.closing \cap Elems(a) \subseteq p.closing
    PROVE  Exclusive(q, x)
  <1> DEFINE s == StrOf[d]
  <1>1. /\ s \in Strs /\ Sane(p) /\ SameOpens(p, q)
        /\ q.pc = p.pc /\ q.ref = p.ref /\ q.live = p.live
    BY ConstantsAssumption DEF NewLists
  <1>2. q.avail[s] = a
    BY DEF NewLists
  <1>3. \A t \in Strs \ {s} : q.avail[t] = p.avail[t]
    BY DEF NewLists
  <1>7. /\ Exclusive(p, x)
        /\ d \in Elems(a) => \/ d \in Elems(p.avail[s])
                             \/ d \notin p.closing /\ (d \in x \/ Unheld(p, d))
        /\ q.closing \subseteq p.closing \cup Elems(p.avail[s])
        /\ q.closing \cap Elems(a) \subseteq p.closing
    OBVIOUS
  <1>8. Elems(a) \subseteq Elems(p.avail[s]) \cup {d}
    BY DEF NewLists
  <1> HIDE DEF s
  <1> QED
    <2>1. \A t \in Strs : Elems(p.avail[t]) \cap p.closing = {}
      BY <1>7 DEF Exclusive
    <2>2. \A t \in Strs : \A e \in Elems(p.avail[t]) :
             e \in Conns /\ StrOf[e] = t /\ e \notin Starting(p)
      <3> TAKE t \in Strs
      <3> TAKE e \in Elems(p.avail[t])
      <3>1. e \in Conns /\ StrOf[e] = t
        BY <1>1, ElemsTyped DEF Sane, Lists
      <3> QED
        BY <3>1, <1>1 DEF Sane, Apart
    <2>3. ASSUME NEW c \in Clients, q.pc[c] = "holding", q.ref[c] \in q.live \ x
          PROVE  /\ q.ref[c] \notin Elems(q.avail[StrOf[q.ref[c]]])
                 /\ q.ref[c] \notin q.closing
                 /\ \A e \in Clients \ {c} :
                       q.pc[e] = "holding" => q.ref[e] # q.ref[c]
      <3> DEFINE g == p.ref[c]
      <3>1. /\ q.ref[c] = g /\ g \in Conns /\ StrOf[g] \in Strs
            /\ p.pc[c] = "holding" /\ g \in p.live \ x
        BY <1>1, <2>3, ConstantsAssumption DEF Sane, Handles
      <3>2. /\ g \notin Elems(p.avail[StrOf[g]])
            /\ g \notin p.closing
            /\ \A e \in Clients \ {c} : p.pc[e] = "holding" => p.ref[e] # g
        BY <1>7, <3>1 DEF Exclusive
      <3> HIDE DEF g
      <3>3. g \notin Elems(p.avail[s])
        BY <1>1, <2>2, <3>2
      <3>4. g = d => d \notin Elems(a)
        <4> SUFFICES ASSUME g = d, d \in Elems(a) PROVE FALSE
          OBVIOUS
        <4>1. Unheld(p, d)
          BY <1>7, <3>1, <3>3
        <4> QED
          BY <4>1, <3>1 DEF Unheld, g
      <3>5. g \notin Elems(q.avail[StrOf[g]])
        BY <1>2, <1>3, <1>8, <3>1, <3>2, <3>3, <3>4
      <3>6. g \notin q.closing
        BY <1>7, <3>2, <3>3
      <3> QED
        BY <1>1, <3>1, <3>2, <3>5, <3>6
    <2>4. ASSUME NEW t \in Strs
          PROVE  Elems(q.avail[t]) \cap q.closing = {}
      <3>1. CASE t = s
        <4>1. Elems(a) \cap p.closing = {}
          BY <1>1, <1>7, <1>8, <2>1
        <4>2. q.avail[t] = a
          BY <1>2, <3>1
        <4>3. q.closing \cap Elems(a) \subseteq p.closing
          BY <1>7
        <4> QED
          BY <4>1, <4>2, <4>3
      <3>2. CASE t # s
        <4>1. Elems(p.avail[t]) \cap Elems(p.avail[s]) = {}
          BY <1>1, <2>2, <3>2
        <4> QED
          BY <4>1, <1>3, <1>7, <2>1, <3>2
      <3> QED
        BY <3>1, <3>2
    <2>5. Starting(q) \cap q.closing = {}
      <3>1. Starting(q) = Starting(p) /\ Starting(p) \cap p.closing = {}
        BY <1>1, <1>7 DEF Starting, SameOpens, Exclusive
      <3> QED
        BY <1>1, <3>1, <2>2, <1>7
    <2> QED
      BY <2>3, <2>4, <2>5 DEF Exclusive

(* Pool.cleanUp, called for the connection d that was just pushed. *)
LEMMA CleanUpKeeps ==
    ASSUME NEW p, NEW x, NEW idle, NEW s \in Strs, Sane(p),
           NEW q, q = CleanUp(p, s, idle)
    PROVE  /\ Sane(q)
           /\ SameOpens(p, q)
           /\ q.live = p.live
           /\ Exclusive(p, x) => Exclusive(q, x)
  <1>1. p \in PoolStates /\ Uniq(p.avail[s], s) /\ Uniq(p.used[s], s)
        /\ Elems(p.avail[s]) \cap Elems(p.used[s]) = {}
    BY DEF Sane, Lists
  <1>2. CASE Len(p.avail[s]) < 2
    BY <1>2 DEF CleanUp, SameOpens
  <1>3. CASE ~ (Len(p.avail[s]) < 2)
    <2> DEFINE gone == Elems(p.avail[s]) \cap p.stamped \cap idle
               a == FilterOut(p.avail[s], gone)
               n == Decremented(p.size, Cardinality(gone \ p.live))
               z == [p EXCEPT !.avail = [p.avail EXCEPT ![s] = a],
                              !.closing = p.closing \cup (gone \cap p.live),
                              !.size = n]
    <2>1. Uniq(a, s) /\ Elems(a) \subseteq Elems(p.avail[s]) \ gone
      BY <1>1, FilterList
    <2>2. n \in Int
      <3>1. IsFiniteSet(gone \ p.live)
        <4>1. IsFiniteSet(Elems(p.avail[s]))
          BY <1>1, ElemsFinite
        <4> QED
          BY <4>1, FS_Subset
      <3>2. Cardinality(gone \ p.live) \in Nat
        BY <3>1, FS_CardinalityType
      <3> HIDE DEF gone
      <3> QED
        BY <1>1, <3>2 DEF Decremented, PoolStates
    <2>3. q = z
      <3>1. q = [p EXCEPT !.avail[s] = FilterOut(@, gone),
                          !.closing = @ \cup (gone \cap p.live),
                          !.size = Decremented(@, Cardinality(gone \ p.live))]
        BY <1>3 DEF CleanUp
      <3> HIDE DEF gone
      <3> QED
        BY <1>1, <3>1 DEF PoolStates
    <2>4. gone \subseteq Elems(p.avail[s])
      OBVIOUS
    <2>5. a \in Seq(Conns) /\ gone \subseteq Conns
      <3>1. \A e \in Elems(p.avail[s]) : e \in Conns
        BY <1>1, ElemsTyped
      <3> HIDE DEF gone, a
      <3>2. a \in Seq(Conns)
        BY <2>1 DEF Uniq
      <3> QED
        BY <2>4, <3>1, <3>2
    <2> HIDE DEF gone, a, n
    <2>6. /\ z \in PoolStates
          /\ z.avail = [p.avail EXCEPT ![s] = a] /\ z.used = p.used
          /\ SameOpens(p, z)
          /\ z.live = p.live /\ z.closing = p.closing \cup (gone \cap p.live)
          /\ z.pc = p.pc /\ z.ref = p.ref
      BY <1>1, <2>2, <2>5 DEF PoolStates, SameOpens
    <2> HIDE DEF z
    <2>7. p.avail[s] # <<>> /\ Head(p.avail[s]) \in Elems(p.avail[s])
      BY <1>1, <1>3 DEF Uniq, Elems
    <2> DEFINE d == Head(p.avail[s])
    <2>8. d \in Conns /\ StrOf[d] = s /\ d \notin Starting(p)
      BY <1>1, <2>7, ElemsTyped DEF Sane, Apart
    <2> HIDE DEF d
    <2>9. /\ z.avail[s] = a /\ z.used[s] = p.used[s]
          /\ \A t \in Strs \ {s} : z.avail[t] = p.avail[t] /\ z.used[t] = p.used[t]
      BY <1>1, <2>6 DEF PoolStates
    <2>10. NewLists(p, z, d, a, p.used[s])
      BY <1>1, <2>1, <2>6, <2>8, <2>9 DEF NewLists
    <2>11. Sane(z)
      BY <2>10, NewListsSane
    <2>12. Exclusive(p, x) => Exclusive(z, x)
      <3>1. /\ d \in Elems(a) => d \in Elems(p.avail[s])
            /\ z.closing \subseteq p.closing \cup Elems(p.avail[s])
            /\ z.closing \cap Elems(a) \subseteq p.closing
        BY <2>1, <2>4, <2>6
      <3> QED
        BY <2>8, <2>10, <3>1, NewListsExclusive
    <2> QED
      BY <2>3, <2>6, <2>11, <2>12
  <1> QED
    BY <1>2, <1>3

(* poolClose and poolCloseSync put the connection back into the pool. *)
LEMMA GivesBackKeeps ==
    ASSUME NEW p, NEW x, NEW d \in Conns, Sane(p), d \notin Starting(p),
           d \in p.live => d \notin Elems(p.avail[StrOf[d]]),
           NEW g, g = GivesBack(p, d)
    PROVE  /\ Sane(g)
           /\ SameOpens(p, g)
           /\ g.live = p.live
           /\ Releasable(p, x, d) => Exclusive(g, x)
  <1> DEFINE s == StrOf[d]
             u == SpliceOut(p.used[s], d)
             a == Append(p.avail[s], d)
             m == p.size - 1
             k == m + 1
             q == [p EXCEPT !.used = [p.used EXCEPT ![s] = u], !.size = m]
             r == [p EXCEPT !.avail = [p.avail EXCEPT ![s] = a],
                            !.used = [p.used EXCEPT ![s] = u],
                            !.size = k]
  <1>1. /\ s \in Strs /\ p \in PoolStates
        /\ Uniq(p.avail[s], s) /\ Uniq(p.used[s], s)
        /\ Elems(p.avail[s]) \cap Elems(p.used[s]) = {}
    BY ConstantsAssumption DEF Sane, Lists
  <1>2. Uniq(u, s) /\ Elems(u) \subseteq Elems(p.used[s]) \ {d}
    BY <1>1, SpliceList
  <1>3. d \in p.live => Uniq(a, s) /\ Elems(a) = Elems(p.avail[s]) \cup {d}
    BY <1>1, PushList
  <1>4. g = IF d \notin p.live THEN q ELSE r
    BY <1>1 DEF GivesBack, PoolStates
  <1>5. u \in Seq(Conns) /\ a \in Seq(Conns) /\ m \in Int /\ k \in Int
    BY <1>1, <1>2 DEF PoolStates, Uniq
  <1> HIDE DEF u, a, s, m, k
  <1>6. /\ q \in PoolStates
        /\ q.avail = p.avail
        /\ q.used = [p.used EXCEPT ![s] = u]
        /\ SameOpens(p, q)
        /\ q.live = p.live /\ q.closing = p.closing
        /\ q.pc = p.pc /\ q.ref = p.ref
    BY <1>1, <1>5 DEF PoolStates, SameOpens
  <1>7. /\ r \in PoolStates
        /\ r.avail = [p.avail EXCEPT ![s] = a]
        /\ r.used = [p.used EXCEPT ![s] = u]
        /\ SameOpens(p, r)
        /\ r.live = p.live /\ r.closing = p.closing
        /\ r.pc = p.pc /\ r.ref = p.ref
    BY <1>1, <1>5 DEF PoolStates, SameOpens
  <1> HIDE DEF q, r
  <1>8. StrOf[d] = s
    BY DEF s
  <1>9. Sane(q) /\ (Releasable(p, x, d) => Exclusive(q, x))
    <2>1. /\ q.avail[s] = p.avail[s] /\ q.used[s] = u
          /\ \A t \in Strs \ {s} : q.avail[t] = p.avail[t] /\ q.used[t] = p.used[t]
      BY <1>1, <1>6 DEF PoolStates
    <2>2. NewLists(p, q, d, p.avail[s], u)
      BY <1>1, <1>2, <1>6, <1>8, <2>1 DEF NewLists
    <2>3. Exclusive(p, x) => Exclusive(q, x)
      <3>1. /\ q.closing \subseteq p.closing \cup Elems(p.avail[s])
            /\ q.closing \cap Elems(p.avail[s]) \subseteq p.closing
        BY <1>6
      <3> QED
        BY <1>8, <2>2, <3>1, NewListsExclusive
    <2> QED
      BY <2>2, <2>3, NewListsSane DEF Releasable
  <1>10. ASSUME d \in p.live
         PROVE  Sane(r) /\ (Releasable(p, x, d) => Exclusive(r, x))
    <2>1. /\ r.avail[s] = a /\ r.used[s] = u
          /\ \A t \in Strs \ {s} : r.avail[t] = p.avail[t] /\ r.used[t] = p.used[t]
      BY <1>1, <1>7 DEF PoolStates
    <2>2. NewLists(p, r, d, a, u)
      BY <1>1, <1>2, <1>3, <1>7, <1>8, <1>10, <2>1 DEF NewLists
    <2>3. Releasable(p, x, d) => Exclusive(r, x)
      <3> SUFFICES ASSUME Releasable(p, x, d) PROVE Exclusive(r, x)
        OBVIOUS
      <3>1. /\ Exclusive(p, x)
            /\ d \notin p.closing /\ (d \in x \/ Unheld(p, d))
            /\ r.closing \subseteq p.closing \cup Elems(p.avail[s])
            /\ r.closing \cap Elems(a) \subseteq p.closing
        BY <1>7, <1>10 DEF Releasable
      <3> QED
        BY <1>8, <2>2, <3>1, NewListsExclusive
    <2> QED
      BY <2>2, <2>3, NewListsSane
  <1>11. CASE d \notin p.live
    BY <1>4, <1>6, <1>9, <1>11
  <1>12. CASE d \in p.live
    BY <1>4, <1>7, <1>10, <1>12
  <1> QED
    BY <1>11, <1>12

(* They clean up and run the queue. *)
LEMMA WakesKeeps ==
    ASSUME NEW p, NEW x, NEW idle, NEW d \in Conns, Sane(p),
           NEW n, n = Wakes(p, d, idle)
    PROVE  /\ Sane(n)
           /\ SameOpens(p, n)
           /\ n.live = p.live
           /\ Exclusive(p, x) => Exclusive(n, x)
  <1>1. CASE d \in p.live /\ AutoClean
    <2> DEFINE v == CleanUp(p, StrOf[d], idle)
    <2>1. /\ Sane(v) /\ SameOpens(p, v) /\ v.live = p.live
          /\ Exclusive(p, x) => Exclusive(v, x)
      <3>1. StrOf[d] \in Strs
        BY ConstantsAssumption
      <3> QED
        BY <3>1, CleanUpKeeps, Z3
    <2>2. n = RunNext(v)
      BY <1>1 DEF Wakes
    <2> HIDE DEF v
    <2> QED
      BY <2>1, <2>2, RunNextKeeps, Z3 DEF SameOpens
  <1>2. CASE ~ (d \in p.live /\ AutoClean)
    <2>1. n = RunNext(p)
      BY <1>2 DEF Wakes
    <2> QED
      BY <2>1, RunNextKeeps, Z3 DEF SameOpens
  <1> QED
    BY <1>1, <1>2

LEMMA ReleaseKeeps ==
    ASSUME NEW p, NEW x, NEW idle, NEW d \in Conns, Sane(p),
           d \notin Starting(p),
           d \in p.live => d \notin Elems(p.avail[StrOf[d]]),
           NEW n, n = Release(p, d, idle)
    PROVE  /\ Sane(n)
           /\ SameOpens(p, n)
           /\ n.live = p.live
           /\ Releasable(p, x, d) => Exclusive(n, x)
  <1> DEFINE g == GivesBack(p, d)
             e == idle \ {d}
  <1>1. n = Wakes(g, d, e)
    BY DEF Release
  <1>2. g = GivesBack(p, d)
    OBVIOUS
  <1> HIDE DEF g, e
  <1>3. /\ Sane(g) /\ SameOpens(p, g) /\ g.live = p.live
        /\ Releasable(p, x, d) => Exclusive(g, x)
    BY <1>2, GivesBackKeeps
  <1>4. /\ Sane(n) /\ SameOpens(g, n) /\ n.live = g.live
        /\ Exclusive(g, x) => Exclusive(n, x)
    BY <1>1, <1>3, WakesKeeps
  <1> QED
    BY <1>3, <1>4 DEF SameOpens

(* The rest of the state does not matter. *)
SameHandles(p, q) ==
    /\ q \in PoolStates
    /\ q.avail = p.avail /\ q.used = p.used
    /\ q.live = p.live /\ q.closing = p.closing
    /\ SameOpens(p, q)
    /\ q.pc = p.pc /\ q.ref = p.ref

LEMMA SameHandlesKeeps ==
    ASSUME NEW p, NEW q, NEW x, NEW d, Sane(p), SameHandles(p, q)
    PROVE  /\ Sane(q)
           /\ Exclusive(p, x) => Exclusive(q, x)
           /\ Releasable(p, x, d) => Releasable(q, x, d)
  <1>1. Starting(q) = Starting(p)
    BY DEF Starting, SameHandles, SameOpens
  <1>2. Sane(q)
    BY <1>1 DEF Sane, SameHandles, SameOpens, Lists, Apart, Handles
  <1>3. Exclusive(p, x) => Exclusive(q, x)
    BY <1>1 DEF SameHandles, Exclusive
  <1>4. Unheld(p, d) => Unheld(q, d)
    BY DEF Unheld, SameHandles
  <1> QED
    BY <1>2, <1>3, <1>4 DEF Releasable, SameHandles

(* What poolClose does first. *)
LEMMA StampedKeeps ==
    ASSUME NEW p, NEW x, NEW d \in Conns, Sane(p), d \notin Starting(p),
           d \notin Elems(p.avail[StrOf[d]]),
           NEW q, q = [Stamp(p, d) EXCEPT !.tx = @ \ {d}]
    PROVE  /\ Sane(q) /\ SameOpens(p, q) /\ q.live = p.live
           /\ d \notin Starting(q) /\ d \notin Elems(q.avail[StrOf[d]])
           /\ Releasable(p, x, d) => Releasable(q, x, d)
  <1> DEFINE z == [p EXCEPT !.stamped = p.stamped \cup {d}, !.tx = p.tx \ {d}]
  <1>1. p \in PoolStates
    BY DEF Sane
  <1>2. q = z
    BY <1>1 DEF Stamp, PoolStates
  <1>3. SameHandles(p, z)
    BY <1>1 DEF PoolStates, SameHandles, SameOpens
  <1> HIDE DEF z
  <1>4. Sane(q) /\ (Releasable(p, x, d) => Releasable(q, x, d))
    BY <1>2, <1>3, SameHandlesKeeps
  <1> QED
    BY <1>2, <1>3, <1>4 DEF SameHandles, SameOpens, Starting

LEMMA PoolCloseKeeps ==
    ASSUME NEW p, NEW x, NEW idle, NEW d \in Conns, Sane(p), d \notin Starting(p),
           NEW n, n = PoolClose(p, d, idle)
    PROVE  /\ Sane(n) /\ SameOpens(p, n) /\ n.live = p.live
           /\ Releasable(p, x, d) => Exclusive(n, x)
  <1>1. CASE d \in Elems(p.avail[StrOf[d]])
    BY <1>1 DEF PoolClose, SameOpens, Releasable
  <1>2. CASE d \notin Elems(p.avail[StrOf[d]])
    <2> DEFINE q == [Stamp(p, d) EXCEPT !.tx = @ \ {d}]
    <2>1. n = Release(q, d, idle)
      BY <1>2 DEF PoolClose
    <2>2. q = [Stamp(p, d) EXCEPT !.tx = @ \ {d}]
      OBVIOUS
    <2> HIDE DEF q
    <2>3. /\ Sane(q) /\ SameOpens(p, q) /\ q.live = p.live
          /\ d \notin Starting(q) /\ d \notin Elems(q.avail[StrOf[d]])
          /\ Releasable(p, x, d) => Releasable(q, x, d)
      BY <1>2, <2>2, StampedKeeps
    <2>4. /\ Sane(n) /\ SameOpens(q, n) /\ n.live = q.live
          /\ Releasable(q, x, d) => Exclusive(n, x)
      BY <2>1, <2>3, ReleaseKeeps, Z3
    <2> QED
      BY <2>3, <2>4 DEF SameOpens
  <1> QED
    BY <1>1, <1>2

(* The connections that checkConnectionError disconnects do not count. *)
LEMMA CloseAllNowKeeps ==
    ASSUME NEW p, NEW x, NEW d \in Conns, NEW y, y \subseteq x \cup {d}, Sane(p),
           NEW n, n = CloseAllNow(p, d)
    PROVE  /\ Sane(n) /\ SameOpens(p, n)
           /\ n.live \subseteq p.live /\ d \notin n.live
           /\ Exclusive(p, y) => Exclusive(n, x)
  <1> DEFINE dead == Elems(p.avail[StrOf[d]]) \cup {d}
             z == [p EXCEPT !.live = p.live \ dead, !.tx = p.tx \ dead]
  <1>1. p \in PoolStates
    BY DEF Sane
  <1>2. n = z
    BY <1>1 DEF CloseAllNow, PoolStates
  <1>3. d \in dead
    OBVIOUS
  <1> HIDE DEF dead
  <1>4. /\ z \in PoolStates /\ z.avail = p.avail /\ z.used = p.used
        /\ z.live = p.live \ dead /\ z.closing = p.closing
        /\ SameOpens(p, z) /\ z.pc = p.pc /\ z.ref = p.ref
    BY <1>1 DEF PoolStates, SameOpens
  <1> HIDE DEF z
  <1>5. Starting(z) = Starting(p)
    BY <1>4 DEF Starting, SameOpens
  <1>6. Sane(z)
    BY <1>4, <1>5 DEF Sane, SameOpens, Lists, Apart, Handles
  <1>7. Exclusive(p, y) => Exclusive(z, x)
    <2>1. z.live \ x \subseteq p.live \ y
      BY <1>3, <1>4
    <2> QED
      BY <2>1, <1>4, <1>5 DEF Exclusive
  <1> QED
    BY <1>2, <1>3, <1>4, <1>6, <1>7

LEMMA ExclusiveWeaken ==
    ASSUME NEW p, NEW x, NEW y, Exclusive(p, x), x \subseteq y
    PROVE  Exclusive(p, y)
  <1>1. p.live \ y \subseteq p.live \ x
    OBVIOUS
  <1> QED
    BY <1>1 DEF Exclusive

LEMMA ConnectionErrorKeeps ==
    ASSUME NEW p, NEW x, NEW idle, NEW d \in Conns, Sane(p), d \notin Starting(p),
           NEW n, n = ConnectionError(p, d, idle)
    PROVE  /\ Sane(n) /\ SameOpens(p, n) /\ d \notin n.live
           /\ Exclusive(p, x) /\ (d \in p.live => d \notin p.closing)
              => Exclusive(n, x)
  <1> DEFINE q == PoolClose(p, d, idle)
             y == x \cup {d}
  <1>1. n = CloseAllNow(q, d)
    BY DEF ConnectionError
  <1>2. q = PoolClose(p, d, idle)
    OBVIOUS
  <1>3. d \in y /\ x \subseteq y /\ y \subseteq x \cup {d}
    OBVIOUS
  <1> HIDE DEF q
  <1>4. /\ Sane(q) /\ SameOpens(p, q)
        /\ Releasable(p, y, d) => Exclusive(q, y)
    <2> HIDE DEF y
    <2> QED
      BY <1>2, PoolCloseKeeps, Z3
  <1>5. /\ Sane(n) /\ SameOpens(q, n) /\ d \notin n.live
        /\ Exclusive(q, y) => Exclusive(n, x)
    <2> HIDE DEF y
    <2> QED
      BY <1>1, <1>3, <1>4, CloseAllNowKeeps, Z3
  <1>6. Exclusive(p, x) /\ (d \in p.live => d \notin p.closing)
        => Releasable(p, y, d)
    <2> HIDE DEF y
    <2> QED
      BY <1>3, ExclusiveWeaken DEF Releasable
  <1> QED
    BY <1>4, <1>5, <1>6 DEF SameOpens

LEMMA RollbackSyncKeeps ==
    ASSUME NEW p, NEW x, NEW lost, NEW idle, NEW d \in Conns, Sane(p),
           d \notin Starting(p), d \notin Elems(p.avail[StrOf[d]]),
           NEW n, n = RollbackSync(p, d, lost, idle)
    PROVE  /\ Sane(n) /\ SameOpens(p, n)
           /\ d \in n.live => d \notin Elems(n.avail[StrOf[d]])
           /\ Releasable(p, x, d) => Releasable(n, x, d)
  <1> DEFINE q == [p EXCEPT !.tx = p.tx \ {d}]
  <1>1. p \in PoolStates
    BY DEF Sane
  <1>2. n = IF d \in p.tx /\ lost THEN ConnectionError(q, d, idle) ELSE q
    BY DEF RollbackSync
  <1>3. SameHandles(p, q)
    BY <1>1 DEF PoolStates, SameHandles, SameOpens
  <1> HIDE DEF q
  <1>4. Sane(q) /\ (Releasable(p, x, d) => Releasable(q, x, d))
    BY <1>3, SameHandlesKeeps
  <1>5. d \notin Starting(q) /\ SameOpens(p, q) /\ q.avail = p.avail
    BY <1>3 DEF SameHandles, SameOpens, Starting
  <1>6. CASE d \in p.tx /\ lost
    <2>1. n = ConnectionError(q, d, idle)
      BY <1>2, <1>6
    <2>2. /\ Sane(n) /\ SameOpens(q, n) /\ d \notin n.live
          /\ Exclusive(q, x) /\ (d \in q.live => d \notin q.closing)
             => Exclusive(n, x)
      BY <1>4, <1>5, <2>1, ConnectionErrorKeeps, Z3
    <2> QED
      BY <1>4, <1>5, <2>2 DEF SameOpens, Releasable
  <1>7. CASE ~ (d \in p.tx /\ lost)
    BY <1>2, <1>4, <1>5, <1>7
  <1> QED
    BY <1>6, <1>7

LEMMA PoolCloseSyncKeeps ==
    ASSUME NEW p, NEW x, NEW lost, NEW idle, NEW d \in Conns, Sane(p),
           d \notin Starting(p),
           NEW n, n = PoolCloseSync(p, d, lost, idle)
    PROVE  /\ Sane(n) /\ SameOpens(p, n)
           /\ Releasable(p, x, d) => Exclusive(n, x)
  <1>1. p \in PoolStates
    BY DEF Sane
  <1>2. CASE d \in Elems(p.avail[StrOf[d]])
    BY <1>2 DEF PoolCloseSync, SameOpens, Releasable
  <1>3. CASE d \notin Elems(p.avail[StrOf[d]])
    <2> DEFINE q == [p EXCEPT !.stamped = p.stamped \cup {d}]
               r == RollbackSync(q, d, lost, idle)
    <2>1. Stamp(p, d) = q
      BY DEF Stamp
    <2>2. n = Release(r, d, idle)
      BY <1>3, <2>1 DEF PoolCloseSync
    <2>3. SameHandles(p, q)
      BY <1>1 DEF PoolStates, SameHandles, SameOpens
    <2>4. r = RollbackSync(q, d, lost, idle)
      OBVIOUS
    <2> HIDE DEF q, r
    <2>5. Sane(q) /\ (Releasable(p, x, d) => Releasable(q, x, d))
      BY <2>3, SameHandlesKeeps
    <2>6. /\ d \notin Starting(q) /\ SameOpens(p, q)
          /\ d \notin Elems(q.avail[StrOf[d]])
      BY <1>3, <2>3 DEF SameHandles, SameOpens, Starting
    <2>7. /\ Sane(r) /\ SameOpens(q, r)
          /\ d \in r.live => d \notin Elems(r.avail[StrOf[d]])
          /\ Releasable(q, x, d) => Releasable(r, x, d)
      BY <2>4, <2>5, <2>6, RollbackSyncKeeps, Z3
    <2>8. d \notin Starting(r)
      BY <2>6, <2>7 DEF SameOpens, Starting
    <2>9. /\ Sane(n) /\ SameOpens(r, n)
          /\ Releasable(r, x, d) => Exclusive(n, x)
      BY <2>2, <2>7, <2>8, ReleaseKeeps, Z3
    <2> QED
      BY <2>5, <2>6, <2>7, <2>9 DEF SameOpens
  <1> QED
    BY <1>2, <1>3

LEMMA CheckConnectionErrorKeeps ==
    ASSUME NEW p, NEW x, NEW lost, NEW idle, NEW d \in Conns, Sane(p),
           d \notin Starting(p),
           NEW n, n = CheckConnectionError(p, d, lost, idle)
    PROVE  /\ Sane(n)
           /\ Exclusive(p, x) /\ (d \in p.live => d \notin p.closing)
              => Exclusive(n, x)
  <1> DEFINE q == PoolCloseSync(p, d, lost, idle)
             y == x \cup {d}
  <1>1. n = CloseAllNow(q, d)
    BY DEF CheckConnectionError
  <1>2. q = PoolCloseSync(p, d, lost, idle)
    OBVIOUS
  <1>3. d \in y /\ x \subseteq y /\ y \subseteq x \cup {d}
    OBVIOUS
  <1> HIDE DEF q
  <1>4. /\ Sane(q) /\ SameOpens(p, q)
        /\ Releasable(p, y, d) => Exclusive(q, y)
    <2> HIDE DEF y
    <2> QED
      BY <1>2, PoolCloseSyncKeeps, Z3
  <1>5. /\ Sane(n) /\ SameOpens(q, n) /\ d \notin n.live
        /\ Exclusive(q, y) => Exclusive(n, x)
    <2> HIDE DEF y
    <2> QED
      BY <1>1, <1>3, <1>4, CloseAllNowKeeps, Z3
  <1>6. Exclusive(p, x) /\ (d \in p.live => d \notin p.closing)
        => Releasable(p, y, d)
    <2> HIDE DEF y
    <2> QED
      BY <1>3, ExclusiveWeaken DEF Releasable
  <1> QED
    BY <1>4, <1>5, <1>6

-----------------------------------------------------------------------------
(* What the actions do besides calling the handlers. *)

(* Nobody knows connection d. *)
Unknown(p, d) ==
    /\ d \notin Elems(p.avail[StrOf[d]])
    /\ d \notin Elems(p.used[StrOf[d]])
    /\ \A c \in Clients : p.ref[c] # d

(* Connections start or stop being opened. *)
SameButStarts(p, q) ==
    /\ q \in PoolStates
    /\ q.avail = p.avail /\ q.used = p.used
    /\ q.live = p.live /\ q.closing = p.closing
    /\ q.pc = p.pc /\ q.ref = p.ref
    /\ \A d \in q.warming : q.opening[d] = Nobody

LEMMA StartsKeep ==
    ASSUME NEW p, NEW q, NEW x, Sane(p), SameButStarts(p, q),
           \A d \in Starting(q) : d \in Starting(p) \/ Unknown(p, d)
    PROVE  /\ Sane(q)
           /\ Exclusive(p, x) /\ Starting(q) \cap p.closing = {}
              => Exclusive(q, x)
  <1>1. Lists(q)
    BY DEF Sane, SameButStarts, Lists
  <1>2. Apart(q)
    BY DEF Sane, SameButStarts, Apart, Unknown
  <1>3. Handles(q)
    BY DEF Sane, SameButStarts, Handles
  <1>4. Sane(q)
    BY <1>1, <1>2, <1>3 DEF Sane, SameButStarts
  <1>5. Exclusive(p, x) /\ Starting(q) \cap p.closing = {} => Exclusive(q, x)
    BY DEF Exclusive, SameButStarts
  <1> QED
    BY <1>4, <1>5

(* Client c does something else than holding a connection. *)
SameButClient(p, q, c) ==
    /\ q \in PoolStates
    /\ q.avail = p.avail /\ q.used = p.used
    /\ q.live = p.live /\ q.closing = p.closing
    /\ SameOpens(p, q)
    /\ q.pc[c] # "holding"
    /\ q.ref[c] \in {p.ref[c], Nobody}
    /\ \A e \in Clients \ {c} : q.pc[e] = p.pc[e] /\ q.ref[e] = p.ref[e]

LEMMA ClientKeeps ==
    ASSUME NEW p, NEW q, NEW x, NEW c \in Clients, Sane(p), SameButClient(p, q, c)
    PROVE  /\ Sane(q)
           /\ Exclusive(p, x) => Exclusive(q, x)
  <1>1. Starting(q) = Starting(p) /\ Starting(p) \subseteq Conns
    BY DEF Starting, SameButClient, SameOpens, Sane, PoolStates
  <1>2. Lists(q)
    BY DEF Sane, SameButClient, Lists
  <1>3. Apart(q)
    BY <1>1, ConstantsAssumption DEF Sane, SameButClient, Apart
  <1>4. Handles(q)
    BY DEF Sane, SameButClient, SameOpens, Handles
  <1>5. Exclusive(p, x) => Exclusive(q, x)
    <2> SUFFICES ASSUME Exclusive(p, x) PROVE Exclusive(q, x)
      OBVIOUS
    <2>1. ASSUME NEW e \in Clients, q.pc[e] = "holding", q.ref[e] \in q.live \ x
          PROVE  /\ q.ref[e] \notin Elems(q.avail[StrOf[q.ref[e]]])
                 /\ q.ref[e] \notin q.closing
                 /\ \A g \in Clients \ {e} :
                       q.pc[g] = "holding" => q.ref[g] # q.ref[e]
      <3>1. e # c
        BY <2>1 DEF SameButClient
      <3> QED
        BY <2>1, <3>1 DEF SameButClient, Exclusive
    <2> QED
      BY <1>1, <2>1 DEF SameButClient, Exclusive
  <1> QED
    BY <1>2, <1>3, <1>4, <1>5 DEF Sane, SameButClient

(* Connections die, or are closed for good. *)
LEMMA DyingKeeps ==
    ASSUME NEW p, NEW q, NEW x, Sane(p), q \in PoolStates,
           q.avail = p.avail, q.used = p.used, SameOpens(p, q),
           q.pc = p.pc, q.ref = p.ref,
           q.live \subseteq p.live, q.closing \subseteq p.closing
    PROVE  /\ Sane(q)
           /\ Exclusive(p, x) => Exclusive(q, x)
  <1>1. Starting(q) = Starting(p)
    BY DEF Starting, SameOpens
  <1>2. Sane(q)
    BY <1>1 DEF Sane, SameOpens, Lists, Apart, Handles
  <1>3. Exclusive(p, x) => Exclusive(q, x)
    BY <1>1 DEF Exclusive
  <1> QED
    BY <1>2, <1>3

(* The loop that drops the dead connections at the front. *)
LEMMA DiscardDeadKeeps ==
    ASSUME NEW p, NEW x, NEW s \in Strs, Sane(p),
           NEW q, q = DiscardDead(p, s)
    PROVE  /\ Sane(q) /\ SameOpens(p, q)
           /\ q.live = p.live /\ q.closing = p.closing
           /\ q.used = p.used /\ q.pc = p.pc /\ q.ref = p.ref
           /\ \A t \in Strs : Elems(q.avail[t]) \subseteq Elems(p.avail[t])
           /\ Exclusive(p, x) => Exclusive(q, x)
  <1> DEFINE list == p.avail[s]
             ok == {i \in DOMAIN list : list[i] \in p.live}
             first == CHOOSE i \in ok : \A j \in ok : i <= j
             n == IF ok = {} THEN Len(list) ELSE first - 1
             a == SubSeq(list, n + 1, Len(list))
             m == Decremented(p.size, n)
             z == [p EXCEPT !.avail = [p.avail EXCEPT ![s] = a], !.size = m]
  <1>1. p \in PoolStates /\ Uniq(list, s)
    BY DEF Sane, Lists
  <1>2. DOMAIN list = 1 .. Len(list) /\ Len(list) \in Nat
    BY <1>1 DEF Uniq
  <1>3. n \in 0 .. Len(list)
    <2>1. CASE ok = {}
      BY <1>2, <2>1
    <2>2. CASE ok # {}
      <3>1. ok \subseteq 1 .. Len(list) /\ ok \subseteq Nat
        BY <1>2
      <3>2. \E i \in ok : \A j \in ok : i <= j
        <4> HIDE DEF ok
        <4> QED
          BY <2>2, <3>1, LeastNatural
      <3>3. first \in ok
        BY <3>2
      <3>4. first \in 1 .. Len(list)
        BY <3>1, <3>3
      <3> HIDE DEF first, ok
      <3> QED
        BY <1>2, <2>2, <3>4
    <2> QED
      BY <2>1, <2>2
  <1>4. q = z
    BY <1>1 DEF DiscardDead, PoolStates
  <1> HIDE DEF n
  <1>5. Uniq(a, s) /\ Elems(a) \subseteq Elems(list)
    BY <1>1, <1>3, CutList
  <1>6. a \in Seq(Conns) /\ m \in Int
    <2>1. m \in Int
      BY <1>1, <1>2, <1>3 DEF Decremented, PoolStates
    <2> HIDE DEF a
    <2>2. a \in Seq(Conns)
      BY <1>5 DEF Uniq
    <2> QED
      BY <2>1, <2>2
  <1> HIDE DEF a, m
  <1>7. /\ z \in PoolStates
        /\ z.avail = [p.avail EXCEPT ![s] = a] /\ z.used = p.used
        /\ SameOpens(p, z)
        /\ z.live = p.live /\ z.closing = p.closing
        /\ z.pc = p.pc /\ z.ref = p.ref
    BY <1>1, <1>6 DEF PoolStates, SameOpens
  <1> HIDE DEF z
  <1>8. z.avail[s] = a /\ \A t \in Strs \ {s} : z.avail[t] = p.avail[t]
    BY <1>1, <1>7 DEF PoolStates
  <1>9. \A t \in Strs : Elems(z.avail[t]) \subseteq Elems(p.avail[t])
    BY <1>5, <1>8
  <1>10. Starting(z) = Starting(p)
    BY <1>7 DEF Starting, SameOpens
  <1>11. Lists(z)
    BY <1>5, <1>7, <1>8, <1>9 DEF Sane, Lists
  <1>12. Apart(z)
    <2>1. \A d \in Starting(p) : StrOf[d] \in Strs
      BY <1>1, ConstantsAssumption DEF Starting, PoolStates
    <2> QED
      BY <1>7, <1>9, <1>10, <2>1 DEF Sane, Apart
  <1>13. Handles(z)
    BY <1>7 DEF Sane, Handles, SameOpens
  <1>14. Exclusive(p, x) => Exclusive(z, x)
    BY <1>7, <1>9, ExclusiveFrame DEF Sane, Handles
  <1> QED
    BY <1>4, <1>7, <1>9, <1>11, <1>12, <1>13, <1>14 DEF Sane

(* A connection nobody knows opens for client c. *)
LEMMA OpenedKeeps ==
    ASSUME NEW p, NEW x, NEW d \in Conns, NEW c \in Clients, Sane(p),
           Unknown(p, d), d \notin Starting(p),
           NEW n, n = HandTo(UseNew(p, d), c, d)
    PROVE  /\ Sane(n)
           /\ Exclusive(p, x) /\ d \notin p.closing => Exclusive(n, x)
  <1> DEFINE s == StrOf[d]
             u == Append(p.used[s], d)
             z == [p EXCEPT !.live = p.live \cup {d},
                            !.used = [p.used EXCEPT ![s] = u],
                            !.stamped = p.stamped \ {d}]
  <1>1. p \in PoolStates /\ s \in Strs /\ Uniq(p.used[s], s) /\ Uniq(p.avail[s], s)
        /\ Elems(p.avail[s]) \cap Elems(p.used[s]) = {}
    BY ConstantsAssumption DEF Sane, Lists
  <1>2. UseNew(p, d) = z
    BY <1>1 DEF UseNew, Use, PoolStates
  <1>3. Uniq(u, s) /\ Elems(u) = Elems(p.used[s]) \cup {d}
    BY <1>1, PushList DEF Unknown
  <1>4. u \in Seq(Conns)
    BY <1>1, <1>3 DEF PoolStates
  <1> HIDE DEF u
  <1>5. StrOf[d] = s
    OBVIOUS
  <1> HIDE DEF s
  <1>6. /\ z \in PoolStates
        /\ z.avail = p.avail /\ z.used = [p.used EXCEPT ![s] = u]
        /\ z.live = p.live \cup {d} /\ z.closing = p.closing
        /\ SameOpens(p, z) /\ z.pc = p.pc /\ z.ref = p.ref
    BY <1>1, <1>4 DEF PoolStates, SameOpens
  <1>7. n = HandTo(z, c, d)
    BY <1>2
  <1> HIDE DEF z
  <1>8. z.used[s] = u /\ \A t \in Strs \ {s} : z.used[t] = p.used[t]
    BY <1>1, <1>6 DEF PoolStates
  <1>9. Starting(z) = Starting(p) /\ d \notin Starting(z)
    BY <1>6 DEF Starting, SameOpens
  <1>10. Lists(z)
    <2> SUFFICES ASSUME NEW t \in Strs
                 PROVE  /\ Uniq(z.avail[t], t) /\ Uniq(z.used[t], t)
                        /\ Elems(z.avail[t]) \cap Elems(z.used[t]) = {}
      BY DEF Lists
    <2>1. CASE t = s
      BY <1>1, <1>3, <1>5, <1>6, <1>8, <2>1 DEF Unknown
    <2>2. CASE t # s
      BY <1>6, <1>8, <2>2 DEF Sane, Lists
    <2> QED
      BY <2>1, <2>2
  <1>11. Apart(z) /\ Handles(z)
    <2>1. \A e \in Starting(p) : StrOf[e] \in Strs /\ e # d
      BY <1>1, ConstantsAssumption DEF Starting, PoolStates
    <2>2. \A t \in Strs : Elems(z.used[t]) \subseteq Elems(p.used[t]) \cup {d}
      BY <1>3, <1>8
    <2>3. Apart(z)
      BY <1>6, <1>9, <2>1, <2>2 DEF Sane, Apart
    <2> QED
      BY <1>6, <2>3 DEF Sane, Handles, SameOpens
  <1>12. Sane(z)
    BY <1>6, <1>10, <1>11 DEF Sane
  <1>13. Exclusive(p, x) => Exclusive(z, x)
    <2>1. \A e \in Clients : p.ref[e] # d
      BY DEF Unknown
    <2> QED
      BY <1>6, <1>9, <2>1 DEF Exclusive
  <1>14. /\ d \notin Elems(z.avail[StrOf[d]])
         /\ Unheld(z, d)
    BY <1>6 DEF Unknown, Unheld
  <1>15. Sane(n)
    BY <1>7, <1>9, <1>12, HandToKeeps
  <1>16. Exclusive(p, x) /\ d \notin p.closing => Exclusive(n, x)
    BY <1>6, <1>7, <1>9, <1>12, <1>13, <1>14, HandToKeeps
  <1> QED
    BY <1>15, <1>16

(* The connections of D, which nobody knows, are opened for the pool. *)
MoreAvailable(p, q, s, a, D) ==
    /\ q \in PoolStates /\ s \in Strs
    /\ SameOpens(p, q)
    /\ q.pc = p.pc /\ q.ref = p.ref /\ q.used = p.used
    /\ q.live = p.live \cup D /\ q.closing = p.closing
    /\ q.avail[s] = a
    /\ \A t \in Strs \ {s} : q.avail[t] = p.avail[t]
    /\ Uniq(a, s)
    /\ Elems(a) = Elems(p.avail[s]) \cup D
    /\ \A d \in D : StrOf[d] = s /\ d \notin Starting(p) /\ Unknown(p, d)

LEMMA MoreAvailableKeeps ==
    ASSUME NEW p, NEW q, NEW s, NEW a, NEW D, NEW x, Sane(p),
           MoreAvailable(p, q, s, a, D)
    PROVE  /\ Sane(q)
           /\ Exclusive(p, x) /\ D \cap p.closing = {} => Exclusive(q, x)
  <1>1. Lists(q)
    <2> SUFFICES ASSUME NEW t \in Strs
                 PROVE  /\ Uniq(q.avail[t], t) /\ Uniq(q.used[t], t)
                        /\ Elems(q.avail[t]) \cap Elems(q.used[t]) = {}
      BY DEF Lists
    <2>1. CASE t = s
      <3>1. \A d \in D : d \notin Elems(p.used[s])
        BY DEF MoreAvailable, Unknown
      <3> QED
        BY <2>1, <3>1 DEF MoreAvailable, Sane, Lists
    <2>2. CASE t # s
      BY <2>2 DEF MoreAvailable, Sane, Lists
    <2> QED
      BY <2>1, <2>2
  <1>2. Starting(q) = Starting(p)
    BY DEF Starting, SameOpens, MoreAvailable
  <1>3. \A t \in Strs : Elems(q.avail[t]) \subseteq Elems(p.avail[t]) \cup D
    BY DEF MoreAvailable
  <1>4. Apart(q) /\ Handles(q)
    <2>1. \A e \in Starting(p) : StrOf[e] \in Strs /\ e \notin D
      BY ConstantsAssumption DEF Starting, Sane, PoolStates, MoreAvailable
    <2>2. Apart(q)
      BY <1>2, <1>3, <2>1 DEF MoreAvailable, Sane, Apart
    <2> QED
      BY <2>2 DEF MoreAvailable, SameOpens, Sane, Handles
  <1>5. ASSUME Exclusive(p, x), D \cap p.closing = {}
        PROVE  Exclusive(q, x)
    <2>1. \A d \in D : \A c \in Clients : p.ref[c] # d
      BY DEF MoreAvailable, Unknown
    <2>2. /\ q.pc = p.pc /\ q.ref = p.ref
          /\ q.live = p.live \cup D /\ q.closing = p.closing
      BY DEF MoreAvailable
    <2>3. \A c \in Clients : p.pc[c] = "holding" => StrOf[p.ref[c]] \in Strs
      BY ConstantsAssumption DEF Sane, Handles
    <2>4. \A t \in Strs : Elems(q.avail[t]) \cap q.closing = {}
      BY <1>3, <1>5, <2>2 DEF Exclusive
    <2> QED
      BY <1>2, <1>3, <1>5, <2>1, <2>2, <2>3, <2>4 DEF Exclusive
  <1> QED
    BY <1>1, <1>4, <1>5 DEF Sane, MoreAvailable

-----------------------------------------------------------------------------
(* The inductive invariant.  While an application may close a connection it *)
(* has closed before, only the first part is invariant.                     *)

Good(p) == Sane(p) /\ ("reclose" \notin Uses => Exclusive(p, {}))

IInv == Good(Now) /\ maxPoolSize \in Nat

LEMMA NowFields ==
    /\ Now.avail = availablePool /\ Now.used = usedPool /\ Now.size = poolSize
    /\ Now.fifo = fifo /\ Now.live = live /\ Now.tx = inTransaction
    /\ Now.stamped = stamped /\ Now.closing = closing
    /\ Now.opening = opening /\ Now.warming = warming
    /\ Now.pc = pc /\ Now.ref = ref
  BY DEF Now

LEMMA BecomesGood ==
    ASSUME IInv, NEW p, Good(p), Becomes(p)
    PROVE  IInv'
  <1>1. p \in PoolStates
    BY DEF Good, Sane
  <1>2. Now' = [avail |-> p.avail, used |-> p.used, size |-> p.size,
                fifo |-> p.fifo, live |-> p.live, tx |-> p.tx,
                stamped |-> p.stamped, closing |-> p.closing,
                opening |-> p.opening, warming |-> p.warming,
                pc |-> p.pc, ref |-> p.ref]
    BY DEF Becomes, Now
  <1>3. Now' = p
    BY <1>1, <1>2 DEF PoolStates
  <1>4. maxPoolSize' \in Nat
    BY DEF Becomes, IInv
  <1> QED
    BY <1>3, <1>4 DEF IInv, Good

LEMMA GoodClient ==
    ASSUME NEW p, NEW q, NEW c \in Clients, Good(p), SameButClient(p, q, c)
    PROVE  Good(q)
  BY ClientKeeps DEF Good

(* A connection that Fresh offers is in nobody's hands. *)
LEMMA FreshUnknown ==
    ASSUME NEW s \in Strs, NEW d \in Fresh(s)
    PROVE  /\ d \in Conns /\ StrOf[d] = s
           /\ Unknown(Now, d)
           /\ d \notin Starting(Now)
           /\ d \notin Now.live /\ d \notin Now.closing
           /\ Now.opening[d] = Nobody /\ d \notin Now.warming
  BY NowFields DEF Fresh, Unknown, Starting

(* Pool.open and openSync up to the end of their loop. *)
LEMMA OpenBegins ==
    ASSUME IInv, NEW c \in Clients, NEW s \in Strs, pc[c] = "idle",
           NEW p, p = DiscardDead([Now EXCEPT !.ref[c] = Nobody], s)
    PROVE  /\ Good(p)
           /\ p.pc[c] = "idle"
           /\ \A d \in Fresh(s) :
                 /\ Unknown(p, d)
                 /\ d \notin Starting(p)
                 /\ d \notin p.closing
                 /\ p.opening[d] = Nobody /\ d \notin p.warming
  <1> DEFINE z == [Now EXCEPT !.ref = [Now.ref EXCEPT ![c] = Nobody]]
  <1>1. Now \in PoolStates
    BY DEF IInv, Good, Sane
  <1>2. p = DiscardDead(z, s)
    BY <1>1 DEF PoolStates
  <1>3. /\ z \in PoolStates
        /\ z.avail = Now.avail /\ z.used = Now.used
        /\ z.live = Now.live /\ z.closing = Now.closing
        /\ SameOpens(Now, z) /\ z.pc = Now.pc
        /\ z.ref = [Now.ref EXCEPT ![c] = Nobody]
    BY <1>1 DEF PoolStates, SameOpens
  <1> HIDE DEF z
  <1>4. SameButClient(Now, z, c) /\ z.pc[c] = "idle"
    BY <1>1, <1>3, NowFields DEF SameButClient, PoolStates
  <1>5. Good(z)
    BY <1>4, GoodClient DEF IInv
  <1>6. /\ Sane(p) /\ SameOpens(z, p)
        /\ p.live = z.live /\ p.closing = z.closing
        /\ p.used = z.used /\ p.pc = z.pc /\ p.ref = z.ref
        /\ \A t \in Strs : Elems(p.avail[t]) \subseteq Elems(z.avail[t])
        /\ Exclusive(z, {}) => Exclusive(p, {})
    BY <1>2, <1>5, DiscardDeadKeeps DEF Good
  <1>7. ASSUME NEW d \in Fresh(s)
        PROVE  /\ Unknown(p, d)
               /\ d \notin Starting(p)
               /\ d \notin p.closing
               /\ p.opening[d] = Nobody /\ d \notin p.warming
    <2>1. /\ d \in Conns /\ StrOf[d] = s
          /\ Unknown(Now, d)
          /\ d \notin Starting(Now) /\ d \notin Now.closing
          /\ Now.opening[d] = Nobody /\ d \notin Now.warming
      BY FreshUnknown
    <2>2. \A e \in Clients : p.ref[e] \in {Now.ref[e], Nobody}
      BY <1>4, <1>6 DEF SameButClient
    <2>3. Unknown(p, d)
      BY <1>3, <1>6, <2>1, <2>2, ConstantsAssumption DEF Unknown
    <2> QED
      BY <1>3, <1>6, <2>1, <2>3 DEF SameOpens, Starting
  <1> QED
    BY <1>4, <1>5, <1>6, <1>7 DEF Good

(* The first available connection is handed to the caller. *)
LEMMA GoodServe ==
    ASSUME NEW p, NEW s \in Strs, NEW c \in Clients, Good(p),
           p.avail[s] # <<>>,
           NEW n, n = HandTo(TakeFirst(p, s), c, Head(p.avail[s]))
    PROVE  Good(n)
  <1>1. Sane(n) /\ (Exclusive(p, {}) => Exclusive(n, {}))
    BY ServeKeeps DEF Good
  <1> QED
    BY <1>1 DEF Good

(* A request is parked. *)
LEMMA GoodPark ==
    ASSUME NEW p, NEW s \in Strs, NEW c \in Clients \cup {Nobody}, Good(p),
           NEW n, n = Park(p, c, s)
    PROVE  Good(n)
  <1> DEFINE w == [client |-> c, str |-> s]
             l == Append(p.fifo, w)
             z == [p EXCEPT !.fifo = l]
  <1>1. p \in PoolStates
    BY DEF Good, Sane
  <1>2. n = z
    BY DEF Park
  <1>3. w \in Requests
    BY DEF Requests
  <1> HIDE DEF w
  <1>4. l \in Seq(Requests)
    BY <1>1, <1>3, AppendProperties DEF PoolStates
  <1> HIDE DEF l
  <1>5. SameHandles(p, z)
    BY <1>1, <1>4 DEF PoolStates, SameHandles, SameOpens
  <1> HIDE DEF z
  <1>6. Sane(z) /\ (Exclusive(p, {}) => Exclusive(z, {}))
    BY <1>5, SameHandlesKeeps DEF Good
  <1> QED
    BY <1>2, <1>6 DEF Good

(* Connection d starts opening for client c. *)
LEMMA GoodStart ==
    ASSUME NEW p, NEW c \in Clients, NEW d \in Conns, Good(p),
           p.pc[c] = "idle", Unknown(p, d), d \notin p.closing,
           d \notin p.warming,
           NEW n, n = [p EXCEPT !.size = @ + 1, !.pc[c] = "opening",
                                !.opening[d] = c]
    PROVE  Good(n)
  <1> DEFINE k == p.size + 1
             f == [p.pc EXCEPT ![c] = "opening"]
             o == [p.opening EXCEPT ![d] = c]
             q == [p EXCEPT !.size = k, !.pc = f]
             r == [p EXCEPT !.size = k, !.pc = f, !.opening = o]
  <1>1. p \in PoolStates
    BY DEF Good, Sane
  <1>2. n = r
    OBVIOUS
  <1>3. /\ k \in Int
        /\ f \in [Clients -> {"idle", "queued", "opening", "holding"}]
        /\ o \in [Conns -> Clients \cup {Nobody}]
        /\ f[c] = "opening" /\ \A e \in Clients \ {c} : f[e] = p.pc[e]
        /\ o[d] = c /\ \A e \in Conns \ {d} : o[e] = p.opening[e]
    BY <1>1 DEF PoolStates
  <1> HIDE DEF k, f, o
  <1>4. /\ q \in PoolStates
        /\ q.avail = p.avail /\ q.used = p.used
        /\ q.live = p.live /\ q.closing = p.closing
        /\ q.opening = p.opening /\ q.warming = p.warming
        /\ q.pc = f /\ q.ref = p.ref
    BY <1>1, <1>3 DEF PoolStates
  <1>5. /\ r \in PoolStates
        /\ r.avail = p.avail /\ r.used = p.used
        /\ r.live = p.live /\ r.closing = p.closing
        /\ r.pc = f /\ r.ref = p.ref
        /\ r.warming = p.warming /\ r.opening = o
    BY <1>1, <1>3 DEF PoolStates
  <1> HIDE DEF q, r
  <1>6. SameButClient(p, q, c)
    BY <1>3, <1>4 DEF SameButClient, SameOpens
  <1>7. Unknown(q, d)
    BY <1>4 DEF Unknown
  <1>8. Good(q)
    BY <1>6, GoodClient
  <1>9. SameButStarts(q, r)
    <2>1. \A e \in r.warming : r.opening[e] = Nobody
      BY <1>1, <1>3, <1>5 DEF Good, Sane, Handles, PoolStates
    <2> QED
      BY <1>4, <1>5, <2>1 DEF SameButStarts
  <1>10. \A e \in Starting(r) : e \in Starting(q) \/ e = d
    BY <1>3, <1>4, <1>5 DEF Starting
  <1>11. /\ Sane(r)
         /\ Exclusive(q, {}) /\ Starting(r) \cap q.closing = {}
            => Exclusive(r, {})
    BY <1>7, <1>8, <1>9, <1>10, StartsKeep DEF Good
  <1>12. Exclusive(q, {}) => Starting(r) \cap q.closing = {}
    BY <1>4, <1>10 DEF Exclusive
  <1> QED
    BY <1>2, <1>8, <1>11, <1>12 DEF Good

(* Connection d is open, for client c. *)
LEMMA GoodOpened ==
    ASSUME NEW p, NEW d \in Conns, NEW c \in Clients, Good(p),
           Unknown(p, d), d \notin Starting(p),
           "reclose" \notin Uses => d \notin p.closing,
           NEW n, n = HandTo(UseNew(p, d), c, d)
    PROVE  Good(n)
  <1>1. Sane(n) /\ (Exclusive(p, {}) /\ d \notin p.closing => Exclusive(n, {}))
    BY OpenedKeeps DEF Good
  <1> QED
    BY <1>1 DEF Good

(* A client does something else, and a failed open is taken back. *)
LEMMA GoodPc ==
    ASSUME NEW p, NEW c \in Clients, Good(p), NEW k \in Int,
           NEW v \in {"idle", "queued", "opening"},
           NEW n, n = [p EXCEPT !.size = k, !.pc = [p.pc EXCEPT ![c] = v]]
    PROVE  Good(n)
  <1> DEFINE f == [p.pc EXCEPT ![c] = v]
  <1>1. p \in PoolStates
    BY DEF Good, Sane
  <1>2. /\ f \in [Clients -> {"idle", "queued", "opening", "holding"}]
        /\ f[c] # "holding" /\ \A e \in Clients \ {c} : f[e] = p.pc[e]
    BY <1>1 DEF PoolStates
  <1>3. n = [p EXCEPT !.size = k, !.pc = f]
    OBVIOUS
  <1> HIDE DEF f
  <1>4. SameButClient(p, n, c)
    BY <1>1, <1>2, <1>3 DEF PoolStates, SameButClient, SameOpens
  <1> QED
    BY <1>4, GoodClient

LEMMA OpenStep ==
    ASSUME IInv, NEW c \in Clients, NEW s \in Strs, Open(c, s)
    PROVE  IInv'
  <1> DEFINE p == DiscardDead([Now EXCEPT !.ref[c] = Nobody], s)
  <1>1. p = DiscardDead([Now EXCEPT !.ref[c] = Nobody], s) /\ pc[c] = "idle"
    BY DEF Open
  <1>2. \/ /\ p.avail[s] # <<>>
           /\ Becomes(HandTo(TakeFirst(p, s), c, Head(p.avail[s])))
        \/ Becomes(Park([p EXCEPT !.pc[c] = "queued"], c, s))
        \/ \E d \in Fresh(s) :
              Becomes([p EXCEPT !.size = @ + 1, !.pc[c] = "opening",
                                !.opening[d] = c])
    BY DEF Open
  <1> HIDE DEF p
  <1>3. /\ Good(p) /\ p.pc[c] = "idle"
        /\ \A d \in Fresh(s) : /\ Unknown(p, d)
                               /\ d \notin p.closing
                               /\ d \notin p.warming
    BY <1>1, OpenBegins
  <1>4. CASE /\ p.avail[s] # <<>>
             /\ Becomes(HandTo(TakeFirst(p, s), c, Head(p.avail[s])))
    BY <1>3, <1>4, GoodServe, BecomesGood
  <1>5. CASE Becomes(Park([p EXCEPT !.pc[c] = "queued"], c, s))
    <2> DEFINE q == [p EXCEPT !.pc[c] = "queued"]
    <2>1. p \in PoolStates
      BY <1>3 DEF Good, Sane
    <2>2. /\ q = [p EXCEPT !.size = p.size, !.pc = [p.pc EXCEPT ![c] = "queued"]]
          /\ p.size \in Int
      BY <2>1 DEF PoolStates
    <2>3. Becomes(Park(q, c, s))
      BY <1>5
    <2> HIDE DEF q
    <2>4. Good(q)
      BY <1>3, <2>2, GoodPc
    <2>5. Good(Park(q, c, s))
      BY <2>4, GoodPark
    <2> QED
      BY <2>3, <2>5, BecomesGood
  <1>6. CASE \E d \in Fresh(s) :
               Becomes([p EXCEPT !.size = @ + 1, !.pc[c] = "opening",
                                 !.opening[d] = c])
    <2>1. PICK d \in Fresh(s) :
             Becomes([p EXCEPT !.size = @ + 1, !.pc[c] = "opening",
                               !.opening[d] = c])
      BY <1>6
    <2>2. d \in Conns
      BY FreshUnknown
    <2>3. Good([p EXCEPT !.size = @ + 1, !.pc[c] = "opening", !.opening[d] = c])
      BY <1>3, <2>2, GoodStart
    <2> QED
      BY <2>1, <2>3, BecomesGood
  <1> QED
    BY <1>2, <1>4, <1>5, <1>6

LEMMA OpenSyncStep ==
    ASSUME IInv, NEW c \in Clients, NEW s \in Strs, OpenSync(c, s)
    PROVE  IInv'
  <1> DEFINE p == DiscardDead([Now EXCEPT !.ref[c] = Nobody], s)
  <1>1. p = DiscardDead([Now EXCEPT !.ref[c] = Nobody], s) /\ pc[c] = "idle"
    BY DEF OpenSync
  <1>2. \/ /\ p.avail[s] # <<>>
           /\ Becomes(HandTo(TakeFirst(p, s), c, Head(p.avail[s])))
        \/ Becomes(Park(p, Nobody, s))
        \/ \E d \in Fresh(s) :
              Becomes(HandTo(UseNew([p EXCEPT !.size = @ + 1], d), c, d))
        \/ Becomes(p)
    BY DEF OpenSync
  <1> HIDE DEF p
  <1>3. /\ Good(p)
        /\ \A d \in Fresh(s) : /\ Unknown(p, d)
                               /\ d \notin Starting(p)
                               /\ d \notin p.closing
    BY <1>1, OpenBegins
  <1>4. CASE /\ p.avail[s] # <<>>
             /\ Becomes(HandTo(TakeFirst(p, s), c, Head(p.avail[s])))
    BY <1>3, <1>4, GoodServe, BecomesGood
  <1>5. CASE Becomes(Park(p, Nobody, s))
    <2>1. Good(Park(p, Nobody, s))
      BY <1>3, GoodPark
    <2> QED
      BY <1>5, <2>1, BecomesGood
  <1>6. CASE \E d \in Fresh(s) :
               Becomes(HandTo(UseNew([p EXCEPT !.size = @ + 1], d), c, d))
    <2> DEFINE k == p.size + 1
               q == [p EXCEPT !.size = k]
    <2>1. PICK d \in Fresh(s) : Becomes(HandTo(UseNew(q, d), c, d))
      BY <1>6
    <2>2. p \in PoolStates /\ k \in Int
      BY <1>3 DEF Good, Sane, PoolStates
    <2> HIDE DEF k
    <2>3. SameHandles(p, q) /\ q.closing = p.closing
      BY <2>2 DEF SameHandles, SameOpens, PoolStates
    <2> HIDE DEF q
    <2>4. Good(q)
      BY <1>3, <2>3, SameHandlesKeeps DEF Good
    <2>5. Unknown(q, d) /\ d \notin Starting(q) /\ d \notin q.closing
      BY <1>3, <2>3 DEF SameHandles, SameOpens, Unknown, Starting
    <2>6. d \in Conns
      BY FreshUnknown
    <2>7. Good(HandTo(UseNew(q, d), c, d))
      BY <2>4, <2>5, <2>6, GoodOpened
    <2> QED
      BY <2>1, <2>7, BecomesGood
  <1>7. CASE Becomes(p)
    BY <1>3, <1>7, BecomesGood
  <1> QED
    BY <1>2, <1>4, <1>5, <1>6, <1>7

(* The open of connection d ends, in the state p. *)
LEMMA GoodStarted ==
    ASSUME NEW o, NEW p, NEW d \in Conns, Good(o), SameButStarts(o, p),
           d \in Starting(o), Starting(p) \subseteq Starting(o) \ {d}
    PROVE  /\ Good(p) /\ Unknown(p, d) /\ d \notin Starting(p)
           /\ "reclose" \notin Uses => d \notin p.closing
  <1>1. /\ Sane(p)
        /\ Exclusive(o, {}) /\ Starting(p) \cap o.closing = {}
           => Exclusive(p, {})
    BY StartsKeep DEF Good
  <1>2. Exclusive(o, {}) => Starting(p) \cap o.closing = {} /\ d \notin o.closing
    BY DEF Exclusive
  <1>3. Unknown(p, d)
    BY DEF Good, Sane, Apart, SameButStarts, Unknown
  <1> QED
    BY <1>1, <1>2, <1>3 DEF Good, SameButStarts

LEMMA OpenDoneStep ==
    ASSUME IInv, NEW d \in Conns, OpenDone(d)
    PROVE  IInv'
  <1> DEFINE c == opening[d]
             o == [Now.opening EXCEPT ![d] = Nobody]
             p == [Now EXCEPT !.opening = o]
  <1>1. Now \in PoolStates /\ Good(Now)
    BY DEF IInv, Good, Sane
  <1>2. c \in Clients
    BY <1>1, NowFields DEF OpenDone, PoolStates
  <1>3. \/ Becomes(HandTo(UseNew(p, d), c, d))
        \/ Becomes([p EXCEPT !.size = @ - 1, !.pc[c] = "idle"])
    BY DEF OpenDone
  <1>4. /\ o \in [Conns -> Clients \cup {Nobody}]
        /\ o[d] = Nobody /\ \A e \in Conns \ {d} : o[e] = Now.opening[e]
    BY <1>1 DEF PoolStates
  <1>5. Now.opening[d] # Nobody
    BY NowFields DEF OpenDone
  <1> HIDE DEF o, c
  <1>6. /\ p \in PoolStates
        /\ p.avail = Now.avail /\ p.used = Now.used
        /\ p.live = Now.live /\ p.closing = Now.closing
        /\ p.pc = Now.pc /\ p.ref = Now.ref
        /\ p.opening = o /\ p.warming = Now.warming
    BY <1>1, <1>4 DEF PoolStates
  <1> HIDE DEF p
  <1>7. SameButStarts(Now, p)
    <2>1. \A e \in p.warming : p.opening[e] = Nobody
      BY <1>1, <1>4, <1>6 DEF Good, Sane, Handles, PoolStates
    <2> QED
      BY <1>6, <2>1 DEF SameButStarts
  <1>8. d \in Starting(Now) /\ Starting(p) \subseteq Starting(Now) \ {d}
    <2>1. d \notin Now.warming
      BY <1>1, <1>5 DEF Good, Sane, Handles
    <2> QED
      BY <1>4, <1>5, <1>6, <2>1 DEF Starting
  <1>9. /\ Good(p) /\ Unknown(p, d) /\ d \notin Starting(p)
        /\ "reclose" \notin Uses => d \notin p.closing
    BY <1>1, <1>7, <1>8, GoodStarted
  <1>10. CASE Becomes(HandTo(UseNew(p, d), c, d))
    <2>1. Good(HandTo(UseNew(p, d), c, d))
      BY <1>2, <1>9, GoodOpened
    <2> QED
      BY <1>10, <2>1, BecomesGood
  <1>11. CASE Becomes([p EXCEPT !.size = @ - 1, !.pc[c] = "idle"])
    <2> DEFINE k == p.size - 1
               n == [p EXCEPT !.size = k, !.pc = [p.pc EXCEPT ![c] = "idle"]]
    <2>1. k \in Int
      BY <1>6 DEF PoolStates
    <2>2. Becomes(n)
      BY <1>11
    <2> HIDE DEF k
    <2>3. Good(n)
      BY <1>2, <1>9, <2>1, GoodPc
    <2> QED
      BY <2>2, <2>3, BecomesGood
  <1> QED
    BY <1>3, <1>10, <1>11

(* Client c lets connection d go. *)
LEMMA GoodLetGo ==
    ASSUME IInv, NEW c \in Clients, pc[c] = "holding",
           NEW d, d = ref[c], NEW z, z = LetGo(Now, c)
    PROVE  /\ Good(z) /\ d \in Conns /\ d \notin Starting(z)
           /\ "reclose" \notin Uses => Releasable(z, {}, d)
  <1> DEFINE f == [Now.pc EXCEPT ![c] = "idle"]
             r == [Now.ref EXCEPT ![c] = IF "reclose" \in Uses THEN @ ELSE Nobody]
  <1>1. Now \in PoolStates /\ Good(Now)
    BY DEF IInv, Good, Sane
  <1>2. /\ f \in [Clients -> {"idle", "queued", "opening", "holding"}]
        /\ f[c] = "idle" /\ \A e \in Clients \ {c} : f[e] = Now.pc[e]
    BY <1>1 DEF PoolStates
  <1>3. /\ r \in [Clients -> Conns \cup {Nobody}]
        /\ r[c] \in {Now.ref[c], Nobody}
        /\ \A e \in Clients \ {c} : r[e] = Now.ref[e]
    BY <1>1 DEF PoolStates
  <1>4. z = [Now EXCEPT !.pc = f, !.ref = r]
    BY <1>1 DEF LetGo, PoolStates
  <1> HIDE DEF f, r
  <1>5. /\ z \in PoolStates
        /\ z.avail = Now.avail /\ z.used = Now.used
        /\ z.live = Now.live /\ z.closing = Now.closing
        /\ SameOpens(Now, z) /\ z.pc = f /\ z.ref = r
    BY <1>1, <1>2, <1>3, <1>4 DEF PoolStates, SameOpens
  <1>6. SameButClient(Now, z, c)
    BY <1>2, <1>3, <1>5 DEF SameButClient
  <1>7. Good(z)
    BY <1>1, <1>6, GoodClient
  <1>8. /\ d \in Conns /\ d \notin Starting(z)
        /\ Now.pc[c] = "holding" /\ Now.ref[c] = d
    BY <1>1, <1>5, NowFields DEF Good, Sane, Handles, Apart, SameOpens, Starting
  <1>9. ASSUME Exclusive(Now, {}), Exclusive(z, {})
        PROVE  Releasable(z, {}, d)
    <2>1. d \in Now.live =>
             /\ d \notin Now.closing
             /\ \A e \in Clients \ {c} : Now.pc[e] = "holding" => Now.ref[e] # d
      BY <1>8, <1>9 DEF Exclusive
    <2>2. d \in z.live => d \notin z.closing /\ Unheld(z, d)
      BY <1>2, <1>3, <1>5, <2>1 DEF Unheld
    <2> QED
      BY <1>9, <2>2 DEF Releasable
  <1> QED
    BY <1>1, <1>7, <1>8, <1>9 DEF Good

LEMMA CloseStep ==
    ASSUME IInv, NEW c \in Clients, Close(c)
    PROVE  IInv'
  <1>1. PICK idle \in IdleSets : Becomes(PoolClose(LetGo(Now, c), ref[c], idle))
    BY DEF Close
  <1> DEFINE d == ref[c]
             z == LetGo(Now, c)
             n == PoolClose(z, d, idle)
  <1>2. pc[c] = "holding" /\ d = ref[c] /\ z = LetGo(Now, c)
    BY DEF Close
  <1>3. Becomes(n)
    BY <1>1
  <1>4. n = PoolClose(z, d, idle)
    OBVIOUS
  <1> HIDE DEF d, z, n
  <1>5. /\ Good(z) /\ d \in Conns /\ d \notin Starting(z)
        /\ "reclose" \notin Uses => Releasable(z, {}, d)
    BY <1>2, GoodLetGo
  <1>6. Sane(n) /\ (Releasable(z, {}, d) => Exclusive(n, {}))
    BY <1>4, <1>5, PoolCloseKeeps DEF Good
  <1> QED
    BY <1>3, <1>5, <1>6, BecomesGood DEF Good

LEMMA CloseSyncStep ==
    ASSUME IInv, NEW c \in Clients, CloseSync(c)
    PROVE  IInv'
  <1>1. PICK idle \in IdleSets, lost \in {FALSE, MayLose} :
           Becomes(PoolCloseSync(LetGo(Now, c), ref[c], lost, idle))
    BY DEF CloseSync
  <1> DEFINE d == ref[c]
             z == LetGo(Now, c)
             n == PoolCloseSync(z, d, lost, idle)
  <1>2. pc[c] = "holding" /\ d = ref[c] /\ z = LetGo(Now, c)
    BY DEF CloseSync
  <1>3. Becomes(n)
    BY <1>1
  <1>4. n = PoolCloseSync(z, d, lost, idle)
    OBVIOUS
  <1> HIDE DEF d, z, n
  <1>5. /\ Good(z) /\ d \in Conns /\ d \notin Starting(z)
        /\ "reclose" \notin Uses => Releasable(z, {}, d)
    BY <1>2, GoodLetGo
  <1>6. Sane(n) /\ (Releasable(z, {}, d) => Exclusive(n, {}))
    BY <1>4, <1>5, PoolCloseSyncKeeps DEF Good
  <1> QED
    BY <1>3, <1>5, <1>6, BecomesGood DEF Good

(* Client c, which has closed connection d before, forgets it.              *)
LEMMA GoodForget ==
    ASSUME IInv, NEW c \in Clients, pc[c] = "idle", ref[c] # Nobody,
           NEW d, d = ref[c], NEW z, z = [Now EXCEPT !.ref[c] = Nobody]
    PROVE  Good(z) /\ d \in Conns /\ d \notin Starting(z)
  <1> DEFINE r == [Now.ref EXCEPT ![c] = Nobody]
  <1>2. Now \in PoolStates /\ Good(Now)
    BY DEF IInv, Good, Sane
  <1>3. Now.pc[c] = "idle" /\ Now.ref[c] = d /\ d # Nobody
    BY NowFields
  <1>5. /\ r \in [Clients -> Conns \cup {Nobody}] /\ r[c] = Nobody
        /\ \A e \in Clients \ {c} : r[e] = Now.ref[e]
    BY <1>2 DEF PoolStates
  <1>4. z = [Now EXCEPT !.ref = r]
    BY <1>2 DEF PoolStates
  <1> HIDE DEF r
  <1>6. /\ z \in PoolStates
        /\ z.avail = Now.avail /\ z.used = Now.used
        /\ z.live = Now.live /\ z.closing = Now.closing
        /\ SameOpens(Now, z) /\ z.pc = Now.pc /\ z.ref = r
    BY <1>2, <1>4, <1>5 DEF PoolStates, SameOpens
  <1>7. SameButClient(Now, z, c)
    BY <1>3, <1>5, <1>6 DEF SameButClient
  <1>8. Good(z)
    BY <1>2, <1>7, GoodClient
  <1>9. d \in Conns /\ d \notin Starting(z)
    BY <1>2, <1>3, <1>6 DEF PoolStates, Good, Sane, Apart, SameOpens, Starting
  <1> QED
    BY <1>8, <1>9

LEMMA CloseAgainStep ==
    ASSUME IInv, NEW c \in Clients, CloseAgain(c)
    PROVE  IInv'
  <1>1. PICK idle \in IdleSets :
           Becomes(PoolClose([Now EXCEPT !.ref[c] = Nobody], ref[c], idle))
    BY DEF CloseAgain
  <1> DEFINE d == ref[c]
             z == [Now EXCEPT !.ref[c] = Nobody]
             n == PoolClose(z, d, idle)
  <1>2. /\ "reclose" \in Uses /\ pc[c] = "idle" /\ ref[c] # Nobody
        /\ d = ref[c] /\ z = [Now EXCEPT !.ref[c] = Nobody]
    BY DEF CloseAgain
  <1>3. Becomes(n) /\ n = PoolClose(z, d, idle)
    BY <1>1
  <1> HIDE DEF d, z, n
  <1>4. Good(z) /\ d \in Conns /\ d \notin Starting(z)
    BY <1>2, GoodForget
  <1>5. Sane(n)
    BY <1>3, <1>4, PoolCloseKeeps DEF Good
  <1> QED
    BY <1>2, <1>3, <1>5, BecomesGood DEF Good

(* A close up to its callback, of a connection that may go back.            *)
LEMMA CallsBackStep ==
    ASSUME IInv, NEW z, Good(z), NEW d \in Conns, d \notin Starting(z),
           "reclose" \notin Uses => Releasable(z, {}, d), CallsBack(z, d)
    PROVE  IInv'
  <1> DEFINE q == [Stamp(z, d) EXCEPT !.tx = @ \ {d}]
             g == GivesBack(q, d)
  <1>1. Becomes(g) /\ d \notin Elems(z.avail[StrOf[d]])
    BY DEF CallsBack
  <1>2. /\ q = [Stamp(z, d) EXCEPT !.tx = @ \ {d}]
        /\ g = GivesBack(q, d)
    OBVIOUS
  <1> HIDE DEF q, g
  <1>3. /\ Sane(q) /\ d \notin Starting(q) /\ d \notin Elems(q.avail[StrOf[d]])
        /\ Releasable(z, {}, d) => Releasable(q, {}, d)
    BY <1>1, <1>2, StampedKeeps DEF Good
  <1>4. Sane(g) /\ (Releasable(q, {}, d) => Exclusive(g, {}))
    BY <1>2, <1>3, GivesBackKeeps
  <1> QED
    BY <1>1, <1>3, <1>4, BecomesGood DEF Good

LEMMA CloseCallsBackStep ==
    ASSUME IInv, NEW c \in Clients, CloseCallsBack(c)
    PROVE  IInv' /\ ref[c] \in Conns
  <1> DEFINE d == ref[c]
             z == LetGo(Now, c)
  <1>1. /\ pc[c] = "holding" /\ d = ref[c] /\ z = LetGo(Now, c)
        /\ CallsBack(z, d)
    BY DEF CloseCallsBack
  <1> HIDE DEF d, z
  <1>2. /\ Good(z) /\ d \in Conns /\ d \notin Starting(z)
        /\ "reclose" \notin Uses => Releasable(z, {}, d)
    BY <1>1, GoodLetGo
  <1> QED
    BY <1>1, <1>2, CallsBackStep

LEMMA CloseAgainCallsBackStep ==
    ASSUME IInv, NEW c \in Clients, CloseAgainCallsBack(c)
    PROVE  IInv' /\ ref[c] \in Conns
  <1> DEFINE d == ref[c]
             z == [Now EXCEPT !.ref[c] = Nobody]
  <1>1. /\ "reclose" \in Uses /\ pc[c] = "idle" /\ ref[c] # Nobody
        /\ d = ref[c] /\ z = [Now EXCEPT !.ref[c] = Nobody]
        /\ CallsBack(z, d)
    BY DEF CloseAgainCallsBack
  <1> HIDE DEF d, z
  <1>2. Good(z) /\ d \in Conns /\ d \notin Starting(z)
    BY <1>1, GoodForget
  <1> QED
    BY <1>1, <1>2, CallsBackStep

LEMMA CallbackReturnsStep ==
    ASSUME IInv, callbacks \in Seq(Conns), CallbackReturns
    PROVE  IInv'
  <1> DEFINE d == Head(callbacks)
  <1>1. PICK idle \in IdleSets : Becomes(Wakes(Now, d, idle))
    BY DEF CallbackReturns
  <1> DEFINE n == Wakes(Now, d, idle)
  <1>2. d \in Conns
    BY DEF CallbackReturns
  <1>3. Becomes(n) /\ n = Wakes(Now, d, idle)
    BY <1>1
  <1> HIDE DEF d, n
  <1>4. Sane(n) /\ (Exclusive(Now, {}) => Exclusive(n, {}))
    BY <1>2, <1>3, WakesKeeps DEF IInv, Good
  <1> QED
    BY <1>3, <1>4, BecomesGood DEF IInv, Good

LEMMA ConnectionLostStep ==
    ASSUME IInv, NEW c \in Clients, ConnectionLost(c)
    PROVE  IInv'
  <1>1. PICK idle \in IdleSets, lost \in BOOLEAN :
           Becomes(CheckConnectionError(Now, ref[c], lost, idle))
    BY DEF ConnectionLost
  <1> DEFINE d == ref[c]
             n == CheckConnectionError(Now, d, lost, idle)
  <1>2. Good(Now) /\ Now.pc[c] = "holding" /\ Now.ref[c] = d /\ d \in Now.live
    BY NowFields DEF IInv, ConnectionLost
  <1>3. Becomes(n) /\ n = CheckConnectionError(Now, d, lost, idle)
    BY <1>1
  <1> HIDE DEF d, n
  <1>4. d \in Conns /\ d \notin Starting(Now)
    BY <1>2 DEF Good, Sane, Handles, Apart
  <1>5. Exclusive(Now, {}) => d \notin Now.closing
    BY <1>2 DEF Exclusive
  <1>6. /\ Sane(n)
        /\ Exclusive(Now, {}) /\ (d \in Now.live => d \notin Now.closing)
           => Exclusive(n, {})
    BY <1>2, <1>3, <1>4, CheckConnectionErrorKeeps DEF Good
  <1>7. Good(n)
    BY <1>2, <1>5, <1>6 DEF Good
  <1> QED
    BY <1>3, <1>7, BecomesGood

LEMMA BeginTransactionStep ==
    ASSUME IInv, NEW c \in Clients, BeginTransaction(c)
    PROVE  IInv'
  <1> DEFINE t == Now.tx \cup {ref[c]}
             n == [Now EXCEPT !.tx = t]
  <1>1. Now \in PoolStates /\ Good(Now)
    BY DEF IInv, Good, Sane
  <1>2. Becomes(n)
    BY DEF BeginTransaction
  <1>3. t \in SUBSET Conns
    BY <1>1, NowFields DEF BeginTransaction, PoolStates
  <1> HIDE DEF t
  <1>4. SameHandles(Now, n)
    BY <1>1, <1>3 DEF SameHandles, SameOpens, PoolStates
  <1> HIDE DEF n
  <1>5. Good(n)
    BY <1>1, <1>4, SameHandlesKeeps DEF Good
  <1> QED
    BY <1>2, <1>5, BecomesGood

LEMMA RealCloseDoneStep ==
    ASSUME IInv, NEW d \in Conns, RealCloseDone(d)
    PROVE  IInv'
  <1> DEFINE k == Decremented(Now.size, 1)
             n == [Now EXCEPT !.closing = @ \ {d}, !.live = @ \ {d},
                              !.tx = @ \ {d}, !.size = k]
  <1>1. Now \in PoolStates /\ Good(Now)
    BY DEF IInv, Good, Sane
  <1>2. Becomes(n)
    BY DEF RealCloseDone
  <1>3. k \in Int
    BY <1>1 DEF Decremented, PoolStates
  <1> HIDE DEF k
  <1>4. /\ n \in PoolStates
        /\ n.avail = Now.avail /\ n.used = Now.used /\ SameOpens(Now, n)
        /\ n.pc = Now.pc /\ n.ref = Now.ref
        /\ n.live \subseteq Now.live /\ n.closing \subseteq Now.closing
    BY <1>1, <1>3 DEF PoolStates, SameOpens
  <1> HIDE DEF n
  <1>5. Good(n)
    BY <1>1, <1>4, DyingKeeps DEF Good
  <1> QED
    BY <1>2, <1>5, BecomesGood

LEMMA SetMaxPoolSizeStep ==
    ASSUME IInv, NEW n \in NewSizes, SetMaxPoolSize(n)
    PROVE  IInv'
  <1>1. Now' = Now
    BY DEF SetMaxPoolSize, poolVars, Now
  <1>2. maxPoolSize' \in Nat
    BY ConstantsAssumption DEF SetMaxPoolSize
  <1> QED
    BY <1>1, <1>2 DEF IInv, Good

LEMMA FreshListsUniq ==
    ASSUME NEW s \in Strs, NEW n \in Nat, NEW f \in FreshLists(s, n)
    PROVE  Uniq(f, s) /\ Elems(f) \subseteq Fresh(s)
  <1>1. /\ f \in [1 .. n -> Fresh(s)] /\ DOMAIN f = 1 .. n
        /\ \A i, j \in 1 .. n : f[i] = f[j] => i = j
    BY DEF FreshLists
  <1>2. \A i \in 1 .. n : f[i] \in Fresh(s)
    BY <1>1
  <1>3. \A i \in 1 .. n : f[i] \in {d \in Conns : StrOf[d] = s}
    BY <1>2, FreshUnknown
  <1> HIDE DEF FreshLists
  <1>4. f \in Seq({d \in Conns : StrOf[d] = s})
    BY <1>1, <1>3
  <1> QED
    BY <1>1, <1>2, <1>4 DEF Uniq, Elems

LEMMA InitCountNat ==
    ASSUME IInv, NEW n \in InitCounts
    PROVE  InitCount(n) \in Nat
  BY ConstantsAssumption DEF InitCount, IInv

LEMMA InitSyncStep ==
    ASSUME IInv, NEW n \in InitCounts, NEW s \in Strs, InitSync(n, s)
    PROVE  IInv'
  <1>1. PICK k \in 0 .. InitCount(n) : \E f \in FreshLists(s, k) :
           Becomes([Now EXCEPT !.avail[s] = f, !.size = @ + k,
                               !.live = @ \cup Elems(f),
                               !.stamped = @ \ Elems(f)])
    BY DEF InitSync
  <1>2. PICK f \in FreshLists(s, k) :
           Becomes([Now EXCEPT !.avail[s] = f, !.size = @ + k,
                               !.live = @ \cup Elems(f),
                               !.stamped = @ \ Elems(f)])
    BY <1>1
  <1>3. k \in Nat
    BY <1>1, InitCountNat
  <1>4. Uniq(f, s) /\ Elems(f) \subseteq Fresh(s)
    BY <1>3, FreshListsUniq
  <1> DEFINE D == Elems(f)
             a == [Now.avail EXCEPT ![s] = f]
             m == Now.size + k
             q == [Now EXCEPT !.avail = a, !.size = m,
                              !.live = Now.live \cup D,
                              !.stamped = Now.stamped \ D]
  <1>5. Now \in PoolStates /\ Good(Now)
    BY DEF IInv, Good, Sane
  <1>6. Becomes(q)
    BY <1>2
  <1>7. Now.avail[s] = <<>> /\ Elems(<<>>) = {}
    BY NowFields DEF InitSync, Elems
  <1>8. \A d \in D : /\ d \in Conns /\ StrOf[d] = s
                     /\ Unknown(Now, d)
                     /\ d \notin Starting(Now) /\ d \notin Now.closing
    BY <1>4, FreshUnknown
  <1>9. D = Elems(f)
    OBVIOUS
  <1> HIDE DEF D
  <1>10. /\ a \in [Strs -> Seq(Conns)] /\ m \in Int
         /\ a[s] = f /\ \A t \in Strs \ {s} : a[t] = Now.avail[t]
    <2>1. f \in Seq(Conns)
      BY <1>4 DEF Uniq
    <2> QED
      BY <1>3, <1>5, <2>1 DEF PoolStates
  <1> HIDE DEF a, m
  <1>11. /\ q \in PoolStates /\ SameOpens(Now, q)
         /\ q.avail = a /\ q.used = Now.used
         /\ q.pc = Now.pc /\ q.ref = Now.ref
         /\ q.live = Now.live \cup D /\ q.closing = Now.closing
    BY <1>5, <1>8, <1>10 DEF PoolStates, SameOpens
  <1> HIDE DEF q
  <1>12. MoreAvailable(Now, q, s, f, D)
    BY <1>4, <1>7, <1>8, <1>9, <1>10, <1>11 DEF MoreAvailable
  <1>13. /\ Sane(q)
         /\ Exclusive(Now, {}) /\ D \cap Now.closing = {} => Exclusive(q, {})
    BY <1>5, <1>12, MoreAvailableKeeps DEF Good
  <1>14. D \cap Now.closing = {}
    BY <1>8
  <1>15. Good(q)
    BY <1>5, <1>13, <1>14 DEF Good
  <1> QED
    BY <1>6, <1>15, BecomesGood

LEMMA InitAsyncStep ==
    ASSUME IInv, NEW n \in InitCounts, NEW s \in Strs, InitAsync(n, s)
    PROVE  IInv'
  <1>1. PICK f \in FreshLists(s, InitCount(n)) :
           Becomes([Now EXCEPT !.size = @ + InitCount(n),
                               !.warming = @ \cup Elems(f)])
    BY DEF InitAsync
  <1>2. Elems(f) \subseteq Fresh(s)
    BY InitCountNat, FreshListsUniq
  <1> DEFINE D == Elems(f)
             m == Now.size + InitCount(n)
             w == Now.warming \cup D
             q == [Now EXCEPT !.size = m, !.warming = w]
  <1>3. Now \in PoolStates /\ Good(Now)
    BY DEF IInv, Good, Sane
  <1>4. Becomes(q)
    BY <1>1
  <1>5. \A d \in D : /\ d \in Conns /\ Unknown(Now, d)
                     /\ d \notin Now.closing /\ Now.opening[d] = Nobody
    BY <1>2, FreshUnknown
  <1> HIDE DEF D
  <1>6. m \in Int /\ w \in SUBSET Conns
    BY <1>3, <1>5, InitCountNat DEF PoolStates
  <1>7. \A d \in w : d \in Now.warming \/ d \in D
    OBVIOUS
  <1> HIDE DEF m, w
  <1>8. /\ q \in PoolStates
        /\ q.avail = Now.avail /\ q.used = Now.used
        /\ q.live = Now.live /\ q.closing = Now.closing
        /\ q.pc = Now.pc /\ q.ref = Now.ref
        /\ q.opening = Now.opening /\ q.warming = w
    BY <1>3, <1>6 DEF PoolStates
  <1> HIDE DEF q
  <1>9. SameButStarts(Now, q)
    BY <1>3, <1>5, <1>7, <1>8 DEF SameButStarts, Good, Sane, Handles
  <1>10. \A d \in Starting(q) : d \in Starting(Now) \/ d \in D
    BY <1>7, <1>8 DEF Starting
  <1>11. /\ Sane(q)
         /\ Exclusive(Now, {}) /\ Starting(q) \cap Now.closing = {}
            => Exclusive(q, {})
    BY <1>3, <1>5, <1>9, <1>10, StartsKeep DEF Good
  <1>12. Exclusive(Now, {}) => Starting(q) \cap Now.closing = {}
    BY <1>5, <1>10 DEF Exclusive
  <1>13. Good(q)
    BY <1>3, <1>11, <1>12 DEF Good
  <1> QED
    BY <1>4, <1>13, BecomesGood

LEMMA InitAsyncDoneStep ==
    ASSUME IInv, NEW d \in Conns, InitAsyncDone(d)
    PROVE  IInv'
  <1> DEFINE s == StrOf[d]
             w == Now.warming \ {d}
             p == [Now EXCEPT !.warming = w]
  <1>1. Now \in PoolStates /\ Good(Now) /\ s \in Strs
    BY ConstantsAssumption DEF IInv, Good, Sane
  <1>2. \/ Becomes([p EXCEPT !.avail[s] = Append(@, d),
                             !.live = @ \cup {d}, !.stamped = @ \ {d}])
        \/ Becomes([p EXCEPT !.size = @ - 1])
    BY DEF InitAsyncDone
  <1>3. d \in Now.warming /\ StrOf[d] = s
    BY NowFields DEF InitAsyncDone
  <1>4. d \notin w /\ w \subseteq Now.warming /\ w \in SUBSET Conns
    BY <1>1 DEF PoolStates
  <1> HIDE DEF w, s
  <1>5. /\ p \in PoolStates
        /\ p.avail = Now.avail /\ p.used = Now.used
        /\ p.live = Now.live /\ p.closing = Now.closing
        /\ p.pc = Now.pc /\ p.ref = Now.ref
        /\ p.opening = Now.opening /\ p.warming = w
    BY <1>1, <1>4 DEF PoolStates
  <1> HIDE DEF p
  <1>6. SameButStarts(Now, p)
    BY <1>1, <1>4, <1>5 DEF SameButStarts, Good, Sane, Handles
  <1>7. d \in Starting(Now) /\ Starting(p) \subseteq Starting(Now) \ {d}
    BY <1>1, <1>3, <1>4, <1>5 DEF Starting, Good, Sane, Handles
  <1>8. /\ Good(p) /\ Unknown(p, d) /\ d \notin Starting(p)
        /\ "reclose" \notin Uses => d \notin p.closing
    BY <1>1, <1>6, <1>7, GoodStarted
  <1>9. CASE Becomes([p EXCEPT !.avail[s] = Append(@, d),
                               !.live = @ \cup {d}, !.stamped = @ \ {d}])
    <2> DEFINE l == Append(p.avail[s], d)
               a == [p.avail EXCEPT ![s] = l]
               q == [p EXCEPT !.avail = a, !.live = p.live \cup {d},
                              !.stamped = p.stamped \ {d}]
    <2>1. Becomes(q)
      BY <1>9
    <2>2. Uniq(l, s) /\ Elems(l) = Elems(p.avail[s]) \cup {d}
      BY <1>1, <1>3, <1>8, PushList DEF Good, Sane, Lists, Unknown
    <2> HIDE DEF l
    <2>3. /\ a \in [Strs -> Seq(Conns)]
          /\ a[s] = l /\ \A t \in Strs \ {s} : a[t] = p.avail[t]
      <3>1. l \in Seq(Conns)
        BY <2>2 DEF Uniq
      <3> QED
        BY <1>1, <1>5, <3>1 DEF PoolStates
    <2> HIDE DEF a
    <2>4. /\ q \in PoolStates /\ SameOpens(p, q)
          /\ q.avail = a /\ q.used = p.used
          /\ q.pc = p.pc /\ q.ref = p.ref
          /\ q.live = p.live \cup {d} /\ q.closing = p.closing
      BY <1>5, <2>3 DEF PoolStates, SameOpens
    <2> HIDE DEF q
    <2>5. MoreAvailable(p, q, s, l, {d})
      BY <1>1, <1>3, <1>8, <2>2, <2>3, <2>4 DEF MoreAvailable
    <2>6. /\ Sane(q)
          /\ Exclusive(p, {}) /\ {d} \cap p.closing = {} => Exclusive(q, {})
      BY <1>8, <2>5, MoreAvailableKeeps DEF Good
    <2>7. Good(q)
      BY <1>8, <2>6 DEF Good
    <2> QED
      BY <2>1, <2>7, BecomesGood
  <1>10. CASE Becomes([p EXCEPT !.size = @ - 1])
    <2> DEFINE k == p.size - 1
               q == [p EXCEPT !.size = k]
    <2>1. Becomes(q)
      BY <1>10
    <2>2. k \in Int
      BY <1>5 DEF PoolStates
    <2> HIDE DEF k
    <2>3. SameHandles(p, q)
      BY <1>5, <2>2 DEF SameHandles, SameOpens, PoolStates
    <2> HIDE DEF q
    <2>4. Good(q)
      BY <1>8, <2>3, SameHandlesKeeps DEF Good
    <2> QED
      BY <2>1, <2>4, BecomesGood
  <1> QED
    BY <1>2, <1>9, <1>10

-----------------------------------------------------------------------------
(* The theorems. *)

(* What the callbacks of close are about, beside the pool itself.           *)
CInv == IInv /\ callbacks \in Seq(Conns)

LEMMA InitCInv == Init => CInv
  <1> SUFFICES ASSUME Init PROVE CInv
    OBVIOUS
  <1>1. Now \in PoolStates /\ maxPoolSize \in Nat
    BY ConstantsAssumption DEF Init, Now, PoolStates
  <1>2. /\ \A s \in Strs : Now.avail[s] = <<>> /\ Now.used[s] = <<>>
        /\ Elems(<<>>) = {}
    BY NowFields DEF Init, Elems
  <1>3. Starting(Now) = {} /\ Now.warming = {} /\ Now.closing = {}
    BY NowFields DEF Init, Starting
  <1>4. \A c \in Clients : Now.pc[c] # "holding"
    BY NowFields DEF Init
  <1>5. \A s \in Strs : Uniq(<<>>, s)
    BY DEF Uniq
  <1>6. Lists(Now)
    BY <1>2, <1>5 DEF Lists
  <1>7. Apart(Now) /\ Handles(Now)
    BY <1>3, <1>4 DEF Apart, Handles
  <1>8. Exclusive(Now, {})
    BY <1>3, <1>4 DEF Exclusive
  <1> QED
    BY <1>1, <1>6, <1>7, <1>8 DEF CInv, IInv, Good, Sane, Init

LEMMA NextCInv == CInv /\ [Next]_vars => CInv'
  <1> SUFFICES ASSUME CInv, [Next]_vars PROVE CInv'
    OBVIOUS
  <1> USE DEF CInv
  <1>1. ASSUME NEW c \in Clients, NEW s \in Strs, Open(c, s) PROVE IInv'
    BY <1>1, OpenStep
  <1>2. ASSUME NEW c \in Clients, NEW s \in Strs, OpenSync(c, s) PROVE IInv'
    BY <1>2, OpenSyncStep
  <1>3. ASSUME NEW c \in Clients, Close(c) PROVE IInv'
    BY <1>3, CloseStep
  <1>4. ASSUME NEW c \in Clients, CloseSync(c) PROVE IInv'
    BY <1>4, CloseSyncStep
  <1>5. ASSUME NEW c \in Clients, CloseAgain(c) PROVE IInv'
    BY <1>5, CloseAgainStep
  <1>6. ASSUME NEW c \in Clients, ConnectionLost(c) PROVE IInv'
    BY <1>6, ConnectionLostStep
  <1>7. ASSUME NEW c \in Clients, BeginTransaction(c) PROVE IInv'
    BY <1>7, BeginTransactionStep
  <1>8. ASSUME NEW d \in Conns, OpenDone(d) PROVE IInv'
    BY <1>8, OpenDoneStep
  <1>9. ASSUME NEW d \in Conns, RealCloseDone(d) PROVE IInv'
    BY <1>9, RealCloseDoneStep
  <1>10. ASSUME NEW d \in Conns, InitAsyncDone(d) PROVE IInv'
    BY <1>10, InitAsyncDoneStep
  <1>11. ASSUME NEW s \in Strs, NEW n \in InitCounts, InitSync(n, s) PROVE IInv'
    BY <1>11, InitSyncStep
  <1>12. ASSUME NEW s \in Strs, NEW n \in InitCounts, InitAsync(n, s) PROVE IInv'
    BY <1>12, InitAsyncStep
  <1>13. ASSUME NEW n \in NewSizes, SetMaxPoolSize(n) PROVE IInv'
    BY <1>13, SetMaxPoolSizeStep
  <1>14. CASE UNCHANGED vars
    <2>1. /\ Now' = Now /\ maxPoolSize' = maxPoolSize
          /\ callbacks' = callbacks
      BY <1>14 DEF vars, poolVars, Now
    <2> QED
      BY <2>1 DEF IInv, Good
  <1>15. ASSUME NEW c \in Clients, CloseCallsBack(c) \/ CloseAgainCallsBack(c)
         PROVE  CInv'
    <2>1. IInv' /\ ref[c] \in Conns
      BY <1>15, CloseCallsBackStep, CloseAgainCallsBackStep
    <2>2. callbacks' = <<ref[c]>> \o callbacks
      BY <1>15 DEF CloseCallsBack, CloseAgainCallsBack, CallsBack
    <2> QED
      BY <2>1, <2>2
  <1>16. CASE CallbackReturns
    <2>1. IInv'
      BY <1>16, CallbackReturnsStep
    <2>2. callbacks # <<>> /\ callbacks' = Tail(callbacks)
      BY <1>16 DEF CallbackReturns
    <2> QED
      BY <2>1, <2>2
  <1>17. ASSUME Calls \/ \E d \in Conns : Delivers(d), UNCHANGED callbacks
         PROVE  CInv'
    <2>1. IInv'
      BY <1>1, <1>2, <1>3, <1>4, <1>5, <1>6, <1>7, <1>8, <1>9, <1>10, <1>11,
         <1>12, <1>13, <1>17 DEF Calls, Delivers
    <2> QED
      BY <2>1, <1>17
  <1> QED
    BY <1>14, <1>15, <1>16, <1>17 DEF Next

LEMMA SpecCInv == Spec => []CInv
  BY InitCInv, NextCInv, PTL DEF Spec

LEMMA SpecIInv == Spec => []IInv
  <1>1. CInv => IInv
    BY DEF CInv
  <1> QED
    BY <1>1, SpecCInv, PTL

(* The pool state stays well-formed: every handler leaves lists of          *)
(* connections, an integer poolSize, and requests for known strings.        *)
THEOREM TypeCorrect == Spec => []TypeOK
  <1>1. CInv => TypeOK
    BY DEF CInv, IInv, Good, Sane, TypeOK
  <1> QED
    BY <1>1, SpecCInv, PTL

(* For every number of clients, connections and connection strings, with    *)
(* every option and every fault: the lists of a connection string name only *)
(* connections of that string, and none of them twice.                      *)
THEOREM NeverListedTwice == Spec => []ListedOnce
  <1>1. IInv => ListedOnce
    <2> SUFFICES ASSUME IInv PROVE ListedOnce
      OBVIOUS
    <2> SUFFICES ASSUME NEW s \in Strs
                 PROVE  /\ Elems(availablePool[s]) \cup Elems(usedPool[s])
                              \subseteq {d \in Conns : StrOf[d] = s}
                        /\ Elems(availablePool[s]) \cap Elems(usedPool[s]) = {}
                        /\ \A i, j \in DOMAIN availablePool[s] :
                              availablePool[s][i] = availablePool[s][j] => i = j
                        /\ \A i, j \in DOMAIN usedPool[s] :
                              usedPool[s][i] = usedPool[s][j] => i = j
      BY DEF ListedOnce
    <2>1. /\ Uniq(availablePool[s], s) /\ Uniq(usedPool[s], s)
          /\ Elems(availablePool[s]) \cap Elems(usedPool[s]) = {}
      BY NowFields DEF IInv, Good, Sane, Lists
    <2>2. Elems(availablePool[s]) \cup Elems(usedPool[s])
             \subseteq {d \in Conns : StrOf[d] = s}
      BY <2>1, ElemsTyped
    <2> QED
      BY <2>1, <2>2 DEF Uniq
  <1> QED
    BY <1>1, SpecIInv, PTL

(* As long as no application closes a connection it has closed before, two  *)
(* clients never share a working connection, whatever fails and whichever   *)
(* of open, openSync, close, closeSync, init, initAsync they use.           *)
THEOREM ClientsDoNotShare ==
    ASSUME "reclose" \notin Uses
    PROVE  Spec => []ExclusiveUse
  <1>1. IInv => ExclusiveUse
    <2> SUFFICES ASSUME IInv PROVE ExclusiveUse
      OBVIOUS
    <2>1. Exclusive(Now, {})
      BY DEF IInv, Good
    <2> QED
      BY <2>1, NowFields DEF Exclusive, ExclusiveUse
  <1> QED
    BY <1>1, SpecIInv, PTL
=============================================================================
