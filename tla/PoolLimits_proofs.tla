--------------------------- MODULE PoolLimits_proofs ---------------------------
(***************************************************************************)
(* Proofs about ConnectionPool that rest on those of                       *)
(* ConnectionPool_proofs: no request waits while a connection is idle, an  *)
(* idle connection has no transaction open, poolSize is exact, maxPoolSize *)
(* is kept, a request waits only while the pool is full, usedPool lists    *)
(* what the clients hold, what is handed out is connected, and requests    *)
(* are served in order. First what each handler does to the parts of the   *)
(* state these properties are about, then one invariant for each group of  *)
(* properties.                                                             *)
(***************************************************************************)
EXTENDS ConnectionPool_proofs

-----------------------------------------------------------------------------
(* What each handler does. *)

(* The parts of the state that only some of the handlers touch. *)
SameRest(p, q) ==
    /\ SameOpens(p, q)
    /\ q.size = p.size /\ q.live = p.live /\ q.tx = p.tx
    /\ q.closing = p.closing

(* The first available connection d of s becomes a used one. *)
Taken(p, q, s, d) ==
    /\ d \in Conns /\ StrOf[d] = s /\ d \in Elems(p.avail[s])
    /\ q.avail[s] = Tail(p.avail[s])
    /\ q.used[s] = Append(p.used[s], d)
    /\ \A t \in Strs \ {s} : q.avail[t] = p.avail[t] /\ q.used[t] = p.used[t]

(* shift from availablePool, push to usedPool. *)
LEMMA TakeFirstEffect ==
    ASSUME NEW p, NEW s \in Strs, Sane(p), p.avail[s] # <<>>,
           NEW q, q = TakeFirst(p, s)
    PROVE  /\ Taken(p, q, s, Head(p.avail[s]))
           /\ SameRest(p, q)
           /\ q.fifo = p.fifo /\ q.pc = p.pc /\ q.ref = p.ref
  <1> DEFINE d == Head(p.avail[s])
             a == [p.avail EXCEPT ![s] = Tail(p.avail[s])]
             u == [p.used EXCEPT ![s] = Append(p.used[s], d)]
             z == [p EXCEPT !.avail = a, !.used = u, !.stamped = p.stamped \ {d}]
  <1>1. p \in PoolStates /\ Uniq(p.avail[s], s)
    BY DEF Sane, Lists
  <1>2. d \in Conns /\ StrOf[d] = s /\ d \in Elems(p.avail[s])
    BY <1>1, ShiftList
  <1>3. q = z
    BY <1>1, <1>2 DEF TakeFirst, Use, PoolStates
  <1>4. d = Head(p.avail[s])
    OBVIOUS
  <1>5. /\ a[s] = Tail(p.avail[s]) /\ u[s] = Append(p.used[s], d)
        /\ \A t \in Strs \ {s} : a[t] = p.avail[t] /\ u[t] = p.used[t]
    BY <1>1 DEF PoolStates
  <1> HIDE DEF a, u, d
  <1>6. /\ z.avail = a /\ z.used = u
        /\ SameRest(p, z)
        /\ z.fifo = p.fifo /\ z.pc = p.pc /\ z.ref = p.ref
    BY <1>1 DEF PoolStates, SameRest, SameOpens
  <1> HIDE DEF z
  <1> QED
    BY <1>2, <1>3, <1>4, <1>5, <1>6 DEF Taken

(* A promise or callback gets its connection. *)
Handed(p, q, c, d) ==
    /\ q.pc = [p.pc EXCEPT ![c] = "holding"]
    /\ q.ref = [p.ref EXCEPT ![c] = d]

LEMMA HandToEffect ==
    ASSUME NEW p \in PoolStates, NEW c \in Clients, NEW d \in Conns,
           NEW q, q = HandTo(p, c, d)
    PROVE  /\ Handed(p, q, c, d)
           /\ SameRest(p, q)
           /\ q.fifo = p.fifo /\ q.avail = p.avail /\ q.used = p.used
  BY DEF HandTo, PoolStates, SameRest, SameOpens, Handed

(* An available connection goes to the client that asked. *)
LEMMA ServeEffect ==
    ASSUME NEW p, NEW s \in Strs, NEW c \in Clients, Sane(p),
           p.avail[s] # <<>>,
           NEW n, n = HandTo(TakeFirst(p, s), c, Head(p.avail[s]))
    PROVE  /\ Taken(p, n, s, Head(p.avail[s]))
           /\ Handed(p, n, c, Head(p.avail[s]))
           /\ SameRest(p, n)
           /\ n.fifo = p.fifo
  <1> DEFINE d == Head(p.avail[s])
             r == TakeFirst(p, s)
  <1>1. d = Head(p.avail[s]) /\ r = TakeFirst(p, s) /\ n = HandTo(r, c, d)
    OBVIOUS
  <1> HIDE DEF d, r
  <1>2. /\ Taken(p, r, s, d) /\ SameRest(p, r)
        /\ r.fifo = p.fifo /\ r.pc = p.pc /\ r.ref = p.ref
    BY <1>1, TakeFirstEffect
  <1>3. r \in PoolStates
    <2>1. Sane(r)
      BY <1>1, TakeFirstKeeps
    <2> QED
      BY <2>1 DEF Sane
  <1>4. /\ Handed(r, n, c, d) /\ SameRest(r, n)
        /\ n.fifo = r.fifo /\ n.avail = r.avail /\ n.used = r.used
    <2>1. d \in Conns
      BY <1>2 DEF Taken
    <2> QED
      BY <1>1, <1>3, <2>1, HandToEffect
  <1> QED
    BY <1>1, <1>2, <1>4 DEF Taken, Handed, SameRest, SameOpens

(* queue.next with somebody in the queue: the first request parks itself    *)
(* again, or it takes a connection, for its client if it has one.           *)
Next1(p, n, w) ==
    \/ /\ p.avail[w.str] = <<>>
       /\ n.fifo = Append(Tail(p.fifo), w)
       /\ n.avail = p.avail /\ n.used = p.used
       /\ n.pc = p.pc /\ n.ref = p.ref
    \/ /\ p.avail[w.str] # <<>>
       /\ n.fifo = Tail(p.fifo)
       /\ Taken(p, n, w.str, Head(p.avail[w.str]))
       /\ \/ w.client = Nobody /\ n.pc = p.pc /\ n.ref = p.ref
          \/ /\ w.client \in Clients
             /\ Handed(p, n, w.client, Head(p.avail[w.str]))

LEMMA RunNextEffect ==
    ASSUME NEW p, Sane(p), NEW n, n = RunNext(p)
    PROVE  /\ SameRest(p, n)
           /\ p.fifo = <<>> => n = p
           /\ p.fifo # <<>> => /\ Head(p.fifo) \in Requests
                               /\ Next1(p, n, Head(p.fifo))
  <1> DEFINE w == Head(p.fifo)
             q == [p EXCEPT !.fifo = Tail(@)]
  <1>1. p \in PoolStates
    BY DEF Sane
  <1>2. CASE p.fifo = <<>>
    BY <1>2 DEF RunNext, SameOpens, SameRest
  <1>3. CASE p.fifo # <<>>
    <2>1. w \in Requests /\ Tail(p.fifo) \in Seq(Requests)
      BY <1>1, <1>3, HeadTailProperties DEF PoolStates
    <2>2. w.str \in Strs /\ w.client \in Clients \cup {Nobody}
      BY <2>1 DEF Requests
    <2>3. /\ q \in PoolStates
          /\ q.avail = p.avail /\ q.used = p.used /\ SameRest(p, q)
          /\ q.pc = p.pc /\ q.ref = p.ref /\ q.fifo = Tail(p.fifo)
      BY <1>1, <2>1 DEF PoolStates, SameOpens, SameRest
    <2>0. w = Head(p.fifo) /\ q = [p EXCEPT !.fifo = Tail(@)]
      OBVIOUS
    <2> HIDE DEF w, q
    <2>4. Sane(q)
      <3>1. Starting(q) = Starting(p)
        BY <2>3 DEF Starting, SameRest, SameOpens
      <3> QED
        BY <2>3, <3>1 DEF Sane, Lists, Apart, Handles, SameRest, SameOpens
    <2>5. CASE p.avail[w.str] = <<>>
      <3> DEFINE l == Append(q.fifo, w)
                 z == [q EXCEPT !.fifo = l]
      <3>1. n = z
        BY <1>3, <2>5 DEF RunNext, w, q
      <3>2. l = Append(Tail(p.fifo), w)
        BY <2>3
      <3> HIDE DEF l
      <3>3. /\ z.fifo = l
            /\ z.avail = q.avail /\ z.used = q.used /\ SameRest(q, z)
            /\ z.pc = q.pc /\ z.ref = q.ref
        BY <2>3 DEF PoolStates, SameOpens, SameRest
      <3> HIDE DEF z
      <3>4. SameRest(p, n)
        BY <3>1, <3>3, <2>3 DEF SameRest, SameOpens
      <3>5. Next1(p, n, w)
        BY <2>5, <3>1, <3>2, <3>3, <2>3 DEF Next1
      <3> QED
        BY <1>3, <2>0, <2>1, <3>4, <3>5
    <2>6. CASE p.avail[w.str] # <<>>
      <3>1. q.avail[w.str] # <<>> /\ Head(q.avail[w.str]) = Head(p.avail[w.str])
        BY <2>3, <2>6
      <3>2. CASE w.client = Nobody
        <4>1. n = TakeFirst(q, w.str)
          BY <1>3, <2>6, <3>2 DEF RunNext, w, q
        <4>2. /\ Taken(q, n, w.str, Head(q.avail[w.str])) /\ SameRest(q, n)
              /\ n.fifo = q.fifo /\ n.pc = q.pc /\ n.ref = q.ref
          BY <2>2, <2>4, <3>1, <4>1, TakeFirstEffect
        <4>3. SameRest(p, n)
          BY <4>2, <2>3 DEF SameRest, SameOpens
        <4>4. Next1(p, n, w)
          BY <2>3, <2>6, <3>1, <3>2, <4>2 DEF Next1, Taken
        <4> QED
          BY <1>3, <2>0, <2>1, <4>3, <4>4
      <3>3. CASE w.client # Nobody
        <4>1. n = HandTo(TakeFirst(q, w.str), w.client, Head(q.avail[w.str]))
          BY <1>3, <2>6, <3>1, <3>3 DEF RunNext, w, q
        <4>2. w.client \in Clients
          BY <2>2, <3>3
        <4>3. /\ Taken(q, n, w.str, Head(q.avail[w.str]))
              /\ Handed(q, n, w.client, Head(q.avail[w.str]))
              /\ SameRest(q, n) /\ n.fifo = q.fifo
          BY <2>2, <2>4, <3>1, <4>1, <4>2, ServeEffect
        <4>4. SameRest(p, n)
          BY <4>3, <2>3 DEF SameRest, SameOpens
        <4>5. Next1(p, n, w)
          BY <2>3, <2>6, <3>1, <4>2, <4>3 DEF Next1, Taken, Handed
        <4> QED
          BY <1>3, <2>0, <2>1, <4>4, <4>5
      <3> QED
        BY <3>2, <3>3
    <2> QED
      BY <2>5, <2>6
  <1> QED
    BY <1>2, <1>3

(* Who has what afterwards, for a handler that may serve requests: the      *)
(* connections that were available, and d if it works.                      *)
Given(p, n, d) ==
    /\ \A t \in Strs : \A e \in Elems(n.avail[t]) :
          e \in Elems(p.avail[t]) \/ (e = d /\ d \in p.live)
    /\ \A c \in Clients :
          \/ n.pc[c] = p.pc[c] /\ n.ref[c] = p.ref[c]
          \/ /\ n.pc[c] = "holding"
             /\ \/ \E t \in Strs : n.ref[c] \in Elems(p.avail[t])
                \/ n.ref[c] = d /\ d \in p.live

OneString == \A s, t \in Strs : s = t

(* Nobody waits while more than k connections of a string are available.    *)
Prompt(p, k) == p.fifo # <<>> => \A s \in Strs : Len(p.avail[s]) <= k

(* A list without duplicates of elements of another one is not longer.      *)
LEMMA ShorterList ==
    ASSUME NEW s, NEW a, NEW b, Uniq(a, s), Uniq(b, s), Elems(a) \subseteq Elems(b)
    PROVE  Len(a) <= Len(b)
  <1>1. ASSUME NEW e, Uniq(e, s)
        PROVE  IsFiniteSet(Elems(e)) /\ Cardinality(Elems(e)) = Len(e)
    <2>1. DOMAIN e = 1 .. Len(e) /\ Len(e) \in Nat
          /\ e \in [1 .. Len(e) -> Elems(e)]
      BY <1>1 DEF Uniq, Elems
    <2>2. e \in Surjection(1 .. Len(e), Elems(e))
      BY <2>1 DEF Surjection, Elems
    <2>3. e \in Injection(1 .. Len(e), Elems(e))
      BY <1>1, <2>1 DEF Injection, IsInjective, Uniq
    <2>4. IsFiniteSet(1 .. Len(e)) /\ Cardinality(1 .. Len(e)) = Len(e)
      <3>1. 1 .. Len(e) = {} \/ 1 <= Len(e)
        BY <2>1
      <3> QED
        BY <2>1, <3>1, 1 \in Int, Len(e) \in Int, FS_Interval, FS_EmptySet
    <2> QED
      BY <2>2, <2>3, <2>4, FS_Surjection
  <1> QED
    BY <1>1, FS_Subset

(* What Taken does to the elements of the lists. *)
LEMMA TakenElems ==
    ASSUME NEW p, NEW q, NEW s \in Strs, Sane(p), p.avail[s] # <<>>,
           Taken(p, q, s, Head(p.avail[s]))
    PROVE  /\ Elems(q.avail[s]) = Elems(p.avail[s]) \ {Head(p.avail[s])}
           /\ Elems(q.used[s]) = Elems(p.used[s]) \cup {Head(p.avail[s])}
           /\ \A t \in Strs : Elems(q.avail[t]) \subseteq Elems(p.avail[t])
  <1> DEFINE d == Head(p.avail[s])
  <1>1. /\ p \in PoolStates /\ Uniq(p.avail[s], s) /\ Uniq(p.used[s], s)
        /\ Elems(p.avail[s]) \cap Elems(p.used[s]) = {}
    BY DEF Sane, Lists
  <1>2. /\ q.avail[s] = Tail(p.avail[s])
        /\ \A t \in Strs \ {s} : q.avail[t] = p.avail[t]
        /\ q.used[s] = Append(p.used[s], d)
        /\ d \in Conns /\ StrOf[d] = s /\ d \in Elems(p.avail[s])
    BY DEF Taken
  <1>3. Elems(Tail(p.avail[s])) = Elems(p.avail[s]) \ {d}
    BY <1>1, ShiftList
  <1>4. Elems(Append(p.used[s], d)) = Elems(p.used[s]) \cup {d}
    <2> HIDE DEF d
    <2> QED
      BY <1>1, <1>2, PushList
  <1>5. \A t \in Strs : Elems(q.avail[t]) \subseteq Elems(p.avail[t])
    BY <1>2, <1>3
  <1> QED
    BY <1>2, <1>3, <1>4, <1>5

LEMMA RunNextGives ==
    ASSUME NEW p, Sane(p), NEW n, n = RunNext(p), NEW x
    PROVE  /\ Given(p, n, x)
           /\ p.fifo = <<>> => n.fifo = <<>>
           /\ \A k \in Nat : OneString /\ Prompt(p, k + 1) => Prompt(n, k)
  <1> DEFINE w == Head(p.fifo)
             d == Head(p.avail[w.str])
  <1>1. p \in PoolStates
    BY DEF Sane
  <1>2. CASE p.fifo = <<>>
    <2>1. n = p
      BY <1>2, RunNextEffect
    <2> QED
      BY <1>2, <2>1 DEF Given, Prompt
  <1>3. CASE p.fifo # <<>>
    <2>1. w \in Requests /\ Next1(p, n, w)
      BY <1>3, RunNextEffect
    <2>2. w.str \in Strs
      BY <2>1 DEF Requests
    <2> HIDE DEF w
    <2>3. CASE p.avail[w.str] = <<>>
      <3>1. n.avail = p.avail /\ n.pc = p.pc /\ n.ref = p.ref
        BY <2>1, <2>3 DEF Next1
      <3>2. Given(p, n, x)
        BY <3>1 DEF Given
      <3>3. ASSUME NEW k \in Nat, OneString
            PROVE  Prompt(n, k)
        <4>1. \A t \in Strs : n.avail[t] = <<>>
          BY <2>2, <2>3, <3>1, <3>3 DEF OneString
        <4>2. Len(<<>>) = 0
          OBVIOUS
        <4> QED
          BY <4>1, <4>2 DEF Prompt
      <3> QED
        BY <1>3, <3>2, <3>3
    <2>4. CASE p.avail[w.str] # <<>>
      <3>1. /\ Taken(p, n, w.str, d)
            /\ \/ n.pc = p.pc /\ n.ref = p.ref
               \/ w.client \in Clients /\ Handed(p, n, w.client, d)
        BY <2>1, <2>4 DEF Next1
      <3>2. n.avail[w.str] = Tail(p.avail[w.str])
        BY <3>1 DEF Taken
      <3>7. \A t \in Strs : Elems(n.avail[t]) \subseteq Elems(p.avail[t])
        BY <2>2, <2>4, <3>1, TakenElems
      <3>3. d \in Elems(p.avail[w.str])
        BY <3>1 DEF Taken
      <3> HIDE DEF d
      <3>4. ASSUME NEW c \in Clients
            PROVE  \/ n.pc[c] = p.pc[c] /\ n.ref[c] = p.ref[c]
                   \/ /\ n.pc[c] = "holding"
                      /\ \E t \in Strs : n.ref[c] \in Elems(p.avail[t])
        BY <1>1, <2>2, <3>1, <3>3 DEF Handed, PoolStates
      <3>5. Given(p, n, x)
        BY <3>7, <3>4 DEF Given
      <3>6. ASSUME NEW k \in Nat, OneString, Prompt(p, k + 1)
            PROVE  Prompt(n, k)
        <4>1. /\ Len(p.avail[w.str]) <= k + 1
              /\ p.avail[w.str] \in Seq(Conns)
          BY <1>1, <1>3, <2>2, <3>6 DEF Prompt, PoolStates
        <4>2. Len(Tail(p.avail[w.str])) <= k
          BY <2>4, <4>1
        <4> QED
          BY <2>2, <3>2, <3>6, <4>2 DEF OneString, Prompt
      <3> QED
        BY <1>3, <3>5, <3>6
    <2> QED
      BY <2>3, <2>4
  <1> QED
    BY <1>2, <1>3

(* Pool.cleanUp: some connections leave the available list of s, those of   *)
(* them that are connected are being closed, the others are discounted.     *)
LEMMA CleanUpEffect ==
    ASSUME NEW p, NEW idle, NEW s \in Strs, Sane(p),
           NEW q, q = CleanUp(p, s, idle)
    PROVE  /\ SameOpens(p, q) /\ q.live = p.live /\ q.tx = p.tx
           /\ q.fifo = p.fifo /\ q.used = p.used
           /\ q.pc = p.pc /\ q.ref = p.ref
           /\ Len(p.avail[s]) < 2 => q = p
           /\ \A t \in Strs : Elems(q.avail[t]) \subseteq Elems(p.avail[t])
           /\ q.closing \subseteq p.closing \cup p.live
           /\ Elems(p.avail[s]) \subseteq p.live => q.size = p.size
  <1>1. p \in PoolStates /\ Uniq(p.avail[s], s)
    BY DEF Sane, Lists
  <1>2. CASE Len(p.avail[s]) < 2
    BY <1>2 DEF CleanUp, SameOpens
  <1>3. CASE ~ (Len(p.avail[s]) < 2)
    <2> DEFINE gone == Elems(p.avail[s]) \cap p.stamped \cap idle
               a == FilterOut(p.avail[s], gone)
               m == Decremented(p.size, Cardinality(gone \ p.live))
               b == [p.avail EXCEPT ![s] = a]
               k == p.closing \cup (gone \cap p.live)
               z == [p EXCEPT !.avail = b, !.closing = k, !.size = m]
    <2>1. Elems(a) \subseteq Elems(p.avail[s])
      BY <1>1, FilterList
    <2>2. q = z
      <3>1. q = [p EXCEPT !.avail[s] = FilterOut(@, gone),
                          !.closing = @ \cup (gone \cap p.live),
                          !.size = Decremented(@, Cardinality(gone \ p.live))]
        BY <1>3 DEF CleanUp
      <3> HIDE DEF gone
      <3> QED
        BY <1>1, <3>1 DEF PoolStates
    <2>3. ASSUME Elems(p.avail[s]) \subseteq p.live
          PROVE  m = p.size
      <3>1. gone \ p.live = {}
        BY <2>3
      <3>2. Cardinality(gone \ p.live) = 0
        BY <3>1, FS_EmptySet
      <3> QED
        BY <1>1, <3>2 DEF Decremented, PoolStates
    <2>4. k \subseteq p.closing \cup p.live
      OBVIOUS
    <2>5. \A t \in Strs : Elems(b[t]) \subseteq Elems(p.avail[t])
      <3> HIDE DEF a
      <3> SUFFICES ASSUME NEW t \in Strs
                   PROVE  Elems(b[t]) \subseteq Elems(p.avail[t])
        OBVIOUS
      <3>1. b[s] = a /\ (t # s => b[t] = p.avail[t])
        BY <1>1 DEF PoolStates
      <3> QED
        BY <2>1, <3>1
    <2> HIDE DEF m, b, k
    <2>6. /\ z.avail = b /\ z.closing = k /\ z.size = m
          /\ SameOpens(p, z) /\ z.live = p.live /\ z.tx = p.tx
          /\ z.fifo = p.fifo /\ z.used = p.used
          /\ z.pc = p.pc /\ z.ref = p.ref
      BY <1>1 DEF PoolStates, SameOpens
    <2> HIDE DEF z
    <2> QED
      BY <1>3, <2>2, <2>3, <2>4, <2>5, <2>6
  <1> QED
    BY <1>2, <1>3

(* Connection d leaves usedPool, and goes to availablePool unless it is     *)
(* dead: the state before cleanUp and queue.next run.                       *)
Returned(p, r, d) ==
    /\ Sane(r) /\ SameOpens(p, r) /\ r.live = p.live
    /\ r.closing = p.closing /\ r.fifo = p.fifo
    /\ r.pc = p.pc /\ r.ref = p.ref
    /\ r.used[StrOf[d]] = SpliceOut(p.used[StrOf[d]], d)
    /\ \A t \in Strs \ {StrOf[d]} :
          r.avail[t] = p.avail[t] /\ r.used[t] = p.used[t]
    /\ IF d \in p.live
       THEN r.avail[StrOf[d]] = Append(p.avail[StrOf[d]], d) /\ r.size = p.size
       ELSE r.avail[StrOf[d]] = p.avail[StrOf[d]] /\ r.size = p.size - 1

LEMMA GivesBackReturns ==
    ASSUME NEW p, NEW d \in Conns, Sane(p), d \notin Starting(p),
           d \in p.live => d \notin Elems(p.avail[StrOf[d]]),
           NEW n, n = GivesBack(p, d)
    PROVE  Returned(p, n, d) /\ n.tx = p.tx
  <1> DEFINE s == StrOf[d]
             u == SpliceOut(p.used[s], d)
             a == Append(p.avail[s], d)
             m == p.size - 1
             k == m + 1
             U == [p.used EXCEPT ![s] = u]
             A == [p.avail EXCEPT ![s] = a]
             q == [p EXCEPT !.used = U, !.size = m]
             r == [p EXCEPT !.avail = A, !.used = U, !.size = k]
  <1>1. /\ s \in Strs /\ p \in PoolStates
        /\ Uniq(p.avail[s], s) /\ Uniq(p.used[s], s)
        /\ Elems(p.avail[s]) \cap Elems(p.used[s]) = {}
    BY ConstantsAssumption DEF Sane, Lists
  <1>2. Uniq(u, s) /\ Elems(u) \subseteq Elems(p.used[s]) \ {d}
    BY <1>1, SpliceList
  <1>3. d \in p.live => Uniq(a, s) /\ Elems(a) = Elems(p.avail[s]) \cup {d}
    BY <1>1, PushList
  <1>4. n = IF d \notin p.live THEN q ELSE r
    BY <1>1 DEF GivesBack, PoolStates
  <1>5. /\ u \in Seq(Conns) /\ a \in Seq(Conns) /\ m \in Int /\ k \in Int
        /\ k = p.size /\ m = p.size - 1
    BY <1>1, <1>2 DEF PoolStates, Uniq
  <1>6. /\ U \in [Strs -> Seq(Conns)] /\ A \in [Strs -> Seq(Conns)]
        /\ U[s] = u /\ A[s] = a
        /\ \A t \in Strs \ {s} : U[t] = p.used[t] /\ A[t] = p.avail[t]
    <2> HIDE DEF u, a
    <2> QED
      BY <1>1, <1>5 DEF PoolStates
  <1>0. s = StrOf[d] /\ u = SpliceOut(p.used[s], d) /\ a = Append(p.avail[s], d)
    OBVIOUS
  <1> HIDE DEF u, a, s, m, k, U, A
  <1>7. /\ q \in PoolStates /\ q.avail = p.avail /\ q.used = U /\ q.size = m
        /\ SameOpens(p, q) /\ q.live = p.live /\ q.tx = p.tx
        /\ q.closing = p.closing /\ q.fifo = p.fifo
        /\ q.pc = p.pc /\ q.ref = p.ref
    BY <1>1, <1>5, <1>6 DEF PoolStates, SameOpens
  <1>8. /\ r \in PoolStates /\ r.avail = A /\ r.used = U /\ r.size = k
        /\ SameOpens(p, r) /\ r.live = p.live /\ r.tx = p.tx
        /\ r.closing = p.closing /\ r.fifo = p.fifo
        /\ r.pc = p.pc /\ r.ref = p.ref
    BY <1>1, <1>5, <1>6 DEF PoolStates, SameOpens
  <1> HIDE DEF q, r
  <1>9. CASE d \notin p.live
    <2>1. NewLists(p, q, d, p.avail[s], u)
      BY <1>0, <1>1, <1>2, <1>6, <1>7 DEF NewLists
    <2>2. Sane(q)
      BY <2>1, NewListsSane
    <2>3. Returned(p, q, d)
      BY <1>0, <1>1, <1>5, <1>6, <1>7, <1>9, <2>2 DEF Returned
    <2> QED
      BY <1>4, <1>7, <1>9, <2>3
  <1>10. CASE d \in p.live
    <2>1. NewLists(p, r, d, a, u)
      BY <1>0, <1>1, <1>2, <1>3, <1>6, <1>8, <1>10 DEF NewLists
    <2>2. Sane(r)
      BY <2>1, NewListsSane
    <2>3. Returned(p, r, d)
      BY <1>0, <1>1, <1>5, <1>6, <1>8, <1>10, <2>2 DEF Returned
    <2> QED
      BY <1>4, <1>8, <1>10, <2>3
  <1> QED
    BY <1>9, <1>10

LEMMA ReleaseReturns ==
    ASSUME NEW p, NEW idle, NEW d \in Conns, Sane(p), d \notin Starting(p),
           d \in p.live => d \notin Elems(p.avail[StrOf[d]]),
           NEW n, n = Release(p, d, idle)
    PROVE  \E r : /\ Returned(p, r, d) /\ r.tx = p.tx
                  /\ n = IF d \in p.live /\ AutoClean
                         THEN RunNext(CleanUp(r, StrOf[d], idle \ {d}))
                         ELSE RunNext(r)
  <1> DEFINE r == GivesBack(p, d)
  <1>1. r = GivesBack(p, d)
    OBVIOUS
  <1>2. n = IF d \in r.live /\ AutoClean
            THEN RunNext(CleanUp(r, StrOf[d], idle \ {d}))
            ELSE RunNext(r)
    BY DEF Release, Wakes
  <1> HIDE DEF r
  <1>3. Returned(p, r, d) /\ r.tx = p.tx
    BY <1>1, GivesBackReturns
  <1>4. r.live = p.live
    BY <1>3 DEF Returned
  <1> QED
    BY <1>2, <1>3, <1>4

(* The lists of available connections after Returned. *)
LEMMA ReturnedGives ==
    ASSUME NEW p, NEW r, NEW d \in Conns, Sane(p), Returned(p, r, d),
           d \in p.live => d \notin Elems(p.avail[StrOf[d]])
    PROVE  /\ \A t \in Strs : Elems(r.avail[t])
                 \subseteq Elems(p.avail[t]) \cup ({d} \cap p.live)
           /\ \A k \in Nat : Prompt(p, k) => Prompt(r, k + 1)
           /\ d \in p.live /\ (\A t \in Strs : Elems(p.avail[t]) \subseteq p.live)
              => Elems(r.avail[StrOf[d]]) \subseteq p.live
  <1> DEFINE s == StrOf[d]
  <1>1. /\ s \in Strs /\ Uniq(p.avail[s], s) /\ s = StrOf[d]
        /\ \A t \in Strs : p.avail[t] \in Seq(Conns)
    BY ConstantsAssumption DEF Sane, Lists, PoolStates
  <1>2. /\ \A t \in Strs \ {s} : r.avail[t] = p.avail[t]
        /\ d \in p.live => r.avail[s] = Append(p.avail[s], d)
        /\ d \notin p.live => r.avail[s] = p.avail[s]
        /\ r.fifo = p.fifo
    BY DEF Returned
  <1>3. d \in p.live => Elems(Append(p.avail[s], d)) = Elems(p.avail[s]) \cup {d}
    <2> HIDE DEF s
    <2> QED
      BY <1>1, PushList
  <1> HIDE DEF s
  <1>4. Elems(r.avail[s]) \subseteq Elems(p.avail[s]) \cup ({d} \cap p.live)
    BY <1>2, <1>3
  <1>5. ASSUME NEW k \in Nat, Prompt(p, k)
        PROVE  Prompt(r, k + 1)
    <2> SUFFICES ASSUME p.fifo # <<>>, NEW t \in Strs
                 PROVE  Len(r.avail[t]) <= k + 1
      BY <1>2 DEF Prompt
    <2>1. Len(p.avail[t]) <= k /\ Len(p.avail[t]) \in Nat
      BY <1>1, <1>5 DEF Prompt
    <2>2. r.avail[t] = p.avail[t] \/ r.avail[t] = Append(p.avail[t], d)
      BY <1>2
    <2>3. Len(Append(p.avail[t], d)) = Len(p.avail[t]) + 1
      BY <1>1
    <2> QED
      BY <2>1, <2>2, <2>3
  <1> QED
    BY <1>1, <1>2, <1>4, <1>5

(* They clean up and run the queue. *)
LEMMA WakesEffect ==
    ASSUME NEW p, NEW idle, NEW d \in Conns, Sane(p), NEW x,
           NEW n, n = Wakes(p, d, idle)
    PROVE  /\ n.live = p.live /\ n.tx = p.tx /\ SameOpens(p, n)
           /\ Given(p, n, x)
           /\ p.fifo = <<>> => n.fifo = <<>>
           /\ \A k \in Nat : OneString /\ Prompt(p, k + 1) => Prompt(n, k)
           /\ n.closing \subseteq p.closing \cup p.live
           /\ ~AutoClean => n.closing = p.closing
           /\ Elems(p.avail[StrOf[d]]) \subseteq p.live => n.size = p.size
  <1> DEFINE s == StrOf[d]
  <1>1. s \in Strs /\ s = StrOf[d]
    BY ConstantsAssumption
  <1> HIDE DEF s
  <1>2. \E v : /\ Sane(v) /\ SameOpens(p, v) /\ v.live = p.live /\ v.tx = p.tx
               /\ v.fifo = p.fifo /\ v.pc = p.pc /\ v.ref = p.ref
               /\ \A t \in Strs : Elems(v.avail[t]) \subseteq Elems(p.avail[t])
               /\ v.closing \subseteq p.closing \cup p.live
               /\ ~AutoClean => v.closing = p.closing
               /\ Elems(p.avail[s]) \subseteq p.live => v.size = p.size
               /\ n = RunNext(v)
    <2>1. CASE ~ (d \in p.live /\ AutoClean)
      <3>1. n = RunNext(p)
        BY <2>1 DEF Wakes
      <3> QED
        BY <3>1 DEF SameOpens
    <2>2. CASE d \in p.live /\ AutoClean
      <3> DEFINE v == CleanUp(p, s, idle)
      <3>1. n = RunNext(v) /\ v = CleanUp(p, s, idle)
        BY <1>1, <2>2 DEF Wakes
      <3> HIDE DEF v
      <3>2. Sane(v)
        BY <1>1, <3>1, CleanUpKeeps, Z3
      <3>3. /\ SameOpens(p, v) /\ v.live = p.live /\ v.tx = p.tx
            /\ v.fifo = p.fifo /\ v.pc = p.pc /\ v.ref = p.ref
            /\ \A t \in Strs : Elems(v.avail[t]) \subseteq Elems(p.avail[t])
            /\ v.closing \subseteq p.closing \cup p.live
            /\ Elems(p.avail[s]) \subseteq p.live => v.size = p.size
        BY <1>1, <3>1, CleanUpEffect
      <3> QED
        BY <2>2, <3>1, <3>2, <3>3
    <2> QED
      BY <2>1, <2>2
  <1>3. PICK v : /\ Sane(v) /\ SameOpens(p, v) /\ v.live = p.live /\ v.tx = p.tx
                 /\ v.fifo = p.fifo /\ v.pc = p.pc /\ v.ref = p.ref
                 /\ \A t \in Strs : Elems(v.avail[t]) \subseteq Elems(p.avail[t])
                 /\ v.closing \subseteq p.closing \cup p.live
                 /\ ~AutoClean => v.closing = p.closing
                 /\ Elems(p.avail[s]) \subseteq p.live => v.size = p.size
                 /\ n = RunNext(v)
    BY <1>2
  <1>4. SameRest(v, n)
    BY <1>3, RunNextEffect
  <1>5. /\ Given(v, n, x)
        /\ v.fifo = <<>> => n.fifo = <<>>
        /\ \A k \in Nat : OneString /\ Prompt(v, k + 1) => Prompt(n, k)
    BY <1>3, RunNextGives
  <1>6. Given(p, n, x)
    <2>1. ASSUME NEW t \in Strs, NEW e \in Elems(n.avail[t])
          PROVE  e \in Elems(p.avail[t]) \/ (e = x /\ x \in p.live)
      BY <1>3, <1>5 DEF Given
    <2>2. ASSUME NEW c \in Clients
          PROVE  \/ n.pc[c] = p.pc[c] /\ n.ref[c] = p.ref[c]
                 \/ /\ n.pc[c] = "holding"
                    /\ \/ \E t \in Strs : n.ref[c] \in Elems(p.avail[t])
                       \/ n.ref[c] = x /\ x \in p.live
      <3>1. \/ n.pc[c] = v.pc[c] /\ n.ref[c] = v.ref[c]
            \/ /\ n.pc[c] = "holding"
               /\ \/ \E t \in Strs : n.ref[c] \in Elems(v.avail[t])
                  \/ n.ref[c] = x /\ x \in v.live
        BY <1>5 DEF Given
      <3> QED
        BY <1>3, <3>1
    <2> QED
      BY <2>1, <2>2 DEF Given
  <1>7. ASSUME NEW k \in Nat, OneString, Prompt(p, k + 1)
        PROVE  Prompt(n, k)
    <2>1. ASSUME NEW t \in Strs
          PROVE  /\ Len(v.avail[t]) <= Len(p.avail[t])
                 /\ Len(v.avail[t]) \in Nat /\ Len(p.avail[t]) \in Nat
      <3>1. /\ Uniq(v.avail[t], t) /\ Uniq(p.avail[t], t)
            /\ Elems(v.avail[t]) \subseteq Elems(p.avail[t])
        BY <1>3 DEF Sane, Lists
      <3>2. Len(v.avail[t]) <= Len(p.avail[t])
        BY <3>1, ShorterList
      <3> QED
        BY <3>1, <3>2 DEF Uniq
    <2>2. Prompt(v, k + 1)
      BY <1>3, <1>7, <2>1 DEF Prompt
    <2> QED
      BY <1>5, <1>7, <2>2
  <1> QED
    BY <1>1, <1>3, <1>4, <1>5, <1>6, <1>7 DEF SameRest, SameOpens

(* poolClose and poolCloseSync put the connection back into the pool. *)
LEMMA ReleaseEffect ==
    ASSUME NEW p, NEW idle, NEW d \in Conns, Sane(p), d \notin Starting(p),
           d \in p.live => d \notin Elems(p.avail[StrOf[d]]),
           NEW n, n = Release(p, d, idle)
    PROVE  /\ n.live = p.live /\ n.tx = p.tx /\ SameOpens(p, n)
           /\ Given(p, n, d)
           /\ p.fifo = <<>> => n.fifo = <<>>
           /\ \A k \in Nat : OneString /\ Prompt(p, k) => Prompt(n, k)
           /\ n.closing \subseteq p.closing \cup p.live
           /\ ~AutoClean => n.closing = p.closing
           /\ d \in p.live /\ (\A t \in Strs : Elems(p.avail[t]) \subseteq p.live)
              => n.size = p.size
  <1> DEFINE r == GivesBack(p, d)
             i == idle \ {d}
  <1>0. r = GivesBack(p, d) /\ n = Wakes(r, d, i)
    BY DEF Release
  <1> HIDE DEF r, i
  <1>1. Returned(p, r, d) /\ r.tx = p.tx
    BY <1>0, GivesBackReturns
  <1>2. /\ Sane(r) /\ SameOpens(p, r) /\ r.live = p.live
        /\ r.closing = p.closing /\ r.fifo = p.fifo
        /\ r.pc = p.pc /\ r.ref = p.ref
        /\ d \in p.live => r.size = p.size
    BY <1>1 DEF Returned
  <1>3. /\ \A t \in Strs : Elems(r.avail[t])
              \subseteq Elems(p.avail[t]) \cup ({d} \cap p.live)
        /\ \A k \in Nat : Prompt(p, k) => Prompt(r, k + 1)
        /\ d \in p.live /\ (\A t \in Strs : Elems(p.avail[t]) \subseteq p.live)
           => Elems(r.avail[StrOf[d]]) \subseteq p.live
    BY <1>1, ReturnedGives
  <1>4. /\ n.live = r.live /\ n.tx = r.tx /\ SameOpens(r, n)
        /\ Given(r, n, d)
        /\ r.fifo = <<>> => n.fifo = <<>>
        /\ \A k \in Nat : OneString /\ Prompt(r, k + 1) => Prompt(n, k)
        /\ n.closing \subseteq r.closing \cup r.live
        /\ ~AutoClean => n.closing = r.closing
        /\ Elems(r.avail[StrOf[d]]) \subseteq r.live => n.size = r.size
    BY <1>0, <1>2, WakesEffect
  <1>5. Given(p, n, d)
    <2>1. \A t \in Strs : \A e \in Elems(r.avail[t]) :
             e \in Elems(p.avail[t]) \/ (e = d /\ d \in p.live)
      BY <1>3
    <2>2. ASSUME NEW t \in Strs, NEW e \in Elems(n.avail[t])
          PROVE  e \in Elems(p.avail[t]) \/ (e = d /\ d \in p.live)
      BY <1>2, <1>4, <2>1 DEF Given
    <2>3. ASSUME NEW c \in Clients
          PROVE  \/ n.pc[c] = p.pc[c] /\ n.ref[c] = p.ref[c]
                 \/ /\ n.pc[c] = "holding"
                    /\ \/ \E t \in Strs : n.ref[c] \in Elems(p.avail[t])
                       \/ n.ref[c] = d /\ d \in p.live
      <3>1. \/ n.pc[c] = p.pc[c] /\ n.ref[c] = p.ref[c]
            \/ /\ n.pc[c] = "holding"
               /\ \/ \E t \in Strs : n.ref[c] \in Elems(r.avail[t])
                  \/ n.ref[c] = d /\ d \in p.live
        BY <1>2, <1>4 DEF Given
      <3> QED
        BY <2>1, <3>1
    <2> QED
      BY <2>2, <2>3 DEF Given
  <1> QED
    BY <1>1, <1>2, <1>3, <1>4, <1>5 DEF SameOpens

-----------------------------------------------------------------------------
(* Closing, and what it keeps. *)

(* A connection on offer, or being opened, has no transaction open. *)
Tidy(p) ==
    /\ p.tx \subseteq p.live
    /\ \A s \in Strs : Elems(p.avail[s]) \cap p.tx = {}
    /\ Starting(p) \cap p.tx = {}

LEMMA PoolCloseEffect ==
    ASSUME NEW p, NEW idle, NEW d \in Conns, Sane(p), d \notin Starting(p),
           NEW n, n = PoolClose(p, d, idle)
    PROVE  /\ n.live = p.live /\ SameOpens(p, n)
           /\ Given(p, n, d)
           /\ p.fifo = <<>> => n.fifo = <<>>
           /\ \A k \in Nat : OneString /\ Prompt(p, k) => Prompt(n, k)
           /\ Tidy(p) => Tidy(n) /\ d \notin n.tx
           /\ n.closing \subseteq p.closing \cup p.live
           /\ ~AutoClean => n.closing = p.closing
           /\ d \in p.live /\ (\A t \in Strs : Elems(p.avail[t]) \subseteq p.live)
              => n.size = p.size
  <1>1. p \in PoolStates /\ StrOf[d] \in Strs
    BY ConstantsAssumption DEF Sane
  <1>2. CASE d \in Elems(p.avail[StrOf[d]])
    <2>1. n = p
      BY <1>2 DEF PoolClose
    <2>2. Given(p, p, d)
      BY DEF Given
    <2>3. Tidy(p) => d \notin p.tx
      BY <1>1, <1>2 DEF Tidy
    <2> QED
      BY <2>1, <2>2, <2>3 DEF SameOpens
  <1>3. CASE d \notin Elems(p.avail[StrOf[d]])
    <2> DEFINE q == [Stamp(p, d) EXCEPT !.tx = @ \ {d}]
               t1 == p.tx \ {d}
               z == [p EXCEPT !.stamped = p.stamped \cup {d}, !.tx = t1]
    <2>1. n = Release(q, d, idle)
      BY <1>3 DEF PoolClose
    <2>2. q = z
      BY <1>1 DEF Stamp, PoolStates
    <2>3. t1 \subseteq p.tx /\ d \notin t1 /\ t1 \subseteq Conns
      BY <1>1 DEF PoolStates
    <2> HIDE DEF q, t1
    <2>4. SameHandles(p, z) /\ z.tx = t1 /\ z.fifo = p.fifo /\ z.size = p.size
      BY <1>1, <2>3 DEF PoolStates, SameHandles, SameOpens
    <2> HIDE DEF z
    <2>5. Sane(z)
      BY <2>4, SameHandlesKeeps
    <2>6. /\ z.avail = p.avail /\ z.live = p.live /\ z.closing = p.closing
          /\ z.pc = p.pc /\ z.ref = p.ref /\ SameOpens(p, z)
      BY <2>4 DEF SameHandles
    <2>7. d \notin Starting(z)
      BY <2>6 DEF SameOpens, Starting
    <2>8. /\ n.live = z.live /\ n.tx = z.tx /\ SameOpens(z, n)
          /\ Given(z, n, d)
          /\ z.fifo = <<>> => n.fifo = <<>>
          /\ \A k \in Nat : OneString /\ Prompt(z, k) => Prompt(n, k)
          /\ n.closing \subseteq z.closing \cup z.live
          /\ ~AutoClean => n.closing = z.closing
          /\ d \in z.live /\ (\A t \in Strs : Elems(z.avail[t]) \subseteq z.live)
             => n.size = z.size
      <3>1. d \in z.live => d \notin Elems(z.avail[StrOf[d]])
        BY <1>3, <2>6
      <3>2. n = Release(z, d, idle)
        BY <2>1, <2>2, <2>6
      <3> QED
        BY <2>5, <2>7, <3>1, <3>2, ReleaseEffect
    <2>9. Given(p, n, d)
      BY <2>6, <2>8 DEF Given
    <2>10. \A k : Prompt(p, k) => Prompt(z, k)
      BY <2>4, <2>6 DEF Prompt
    <2>11. ASSUME Tidy(p)
           PROVE  Tidy(n) /\ d \notin n.tx
      <3>1. /\ n.tx \subseteq p.tx /\ d \notin n.tx /\ n.live = p.live
            /\ Starting(n) = Starting(p)
        BY <2>3, <2>4, <2>6, <2>8 DEF SameOpens, Starting
      <3>2. \A t \in Strs : Elems(n.avail[t]) \subseteq Elems(p.avail[t]) \cup {d}
        BY <2>9 DEF Given
      <3> QED
        BY <2>11, <3>1, <3>2 DEF Tidy
    <2> QED
      BY <2>4, <2>6, <2>8, <2>9, <2>10, <2>11 DEF SameOpens
  <1> QED
    BY <1>2, <1>3

(* What of a state does not change, or changes to the better, when          *)
(* connections die.                                                         *)
Calm(p, n) ==
    /\ \A k \in Nat : OneString /\ Prompt(p, k) => Prompt(n, k)
    /\ Tidy(p) => Tidy(n)

LEMMA CloseAllNowCalm ==
    ASSUME NEW p, NEW d \in Conns, Sane(p), NEW n, n = CloseAllNow(p, d)
    PROVE  Calm(p, n) /\ d \notin n.tx
  <1> DEFINE dead == Elems(p.avail[StrOf[d]]) \cup {d}
             z == [p EXCEPT !.live = p.live \ dead, !.tx = p.tx \ dead]
  <1>1. p \in PoolStates
    BY DEF Sane
  <1>2. n = z
    BY <1>1 DEF CloseAllNow, PoolStates
  <1>3. d \in dead
    OBVIOUS
  <1> HIDE DEF dead
  <1>4. /\ z.avail = p.avail /\ z.fifo = p.fifo
        /\ z.live = p.live \ dead /\ z.tx = p.tx \ dead
        /\ SameOpens(p, z)
    BY <1>1 DEF PoolStates, SameOpens
  <1> HIDE DEF z
  <1>5. Starting(z) = Starting(p)
    BY <1>4 DEF Starting, SameOpens
  <1>6. \A k : Prompt(p, k) => Prompt(z, k)
    BY <1>4 DEF Prompt
  <1>7. Tidy(p) => Tidy(z)
    BY <1>4, <1>5 DEF Tidy
  <1> QED
    BY <1>2, <1>3, <1>4, <1>6, <1>7 DEF Calm

LEMMA ConnectionErrorCalm ==
    ASSUME NEW p, NEW idle, NEW d \in Conns, Sane(p), d \notin Starting(p),
           NEW n, n = ConnectionError(p, d, idle)
    PROVE  Calm(p, n) /\ d \notin n.tx
  <1> DEFINE q == PoolClose(p, d, idle)
  <1>1. n = CloseAllNow(q, d) /\ q = PoolClose(p, d, idle)
    BY DEF ConnectionError
  <1> HIDE DEF q
  <1>2. Calm(p, q)
    BY <1>1, PoolCloseEffect DEF Calm
  <1>3. Sane(q)
    BY <1>1, PoolCloseKeeps, Z3
  <1>4. Calm(q, n) /\ d \notin n.tx
    BY <1>1, <1>3, CloseAllNowCalm
  <1> QED
    BY <1>2, <1>4 DEF Calm

LEMMA RollbackSyncCalm ==
    ASSUME NEW p, NEW lost, NEW idle, NEW d \in Conns, Sane(p),
           d \notin Starting(p),
           NEW n, n = RollbackSync(p, d, lost, idle)
    PROVE  Calm(p, n) /\ d \notin n.tx
  <1> DEFINE t1 == p.tx \ {d}
             q == [p EXCEPT !.tx = t1]
  <1>1. p \in PoolStates
    BY DEF Sane
  <1>2. n = IF d \in p.tx /\ lost THEN ConnectionError(q, d, idle) ELSE q
    BY DEF RollbackSync
  <1>3. t1 \subseteq p.tx /\ d \notin t1 /\ t1 \subseteq Conns
    BY <1>1 DEF PoolStates
  <1> HIDE DEF t1
  <1>4. SameHandles(p, q) /\ q.tx = t1 /\ q.fifo = p.fifo
    BY <1>1, <1>3 DEF PoolStates, SameHandles, SameOpens
  <1> HIDE DEF q
  <1>5. Sane(q)
    BY <1>4, SameHandlesKeeps
  <1>6. Starting(q) = Starting(p)
    BY <1>4 DEF SameHandles, SameOpens, Starting
  <1>7. Calm(p, q) /\ d \notin q.tx
    BY <1>3, <1>4, <1>6 DEF SameHandles, Calm, Prompt, Tidy
  <1>8. CASE d \in p.tx /\ lost
    <2>1. Calm(q, n) /\ d \notin n.tx
      BY <1>2, <1>5, <1>6, <1>8, ConnectionErrorCalm
    <2> QED
      BY <1>7, <2>1 DEF Calm
  <1>9. CASE ~ (d \in p.tx /\ lost)
    BY <1>2, <1>7, <1>9
  <1> QED
    BY <1>8, <1>9

LEMMA PoolCloseSyncCalm ==
    ASSUME NEW p, NEW lost, NEW idle, NEW d \in Conns, Sane(p),
           d \notin Starting(p),
           NEW n, n = PoolCloseSync(p, d, lost, idle)
    PROVE  Calm(p, n)
  <1>1. p \in PoolStates
    BY DEF Sane
  <1>2. CASE d \in Elems(p.avail[StrOf[d]])
    BY <1>2 DEF PoolCloseSync, Calm
  <1>3. CASE d \notin Elems(p.avail[StrOf[d]])
    <2> DEFINE q == [p EXCEPT !.stamped = p.stamped \cup {d}]
               r == RollbackSync(q, d, lost, idle)
    <2>1. n = Release(r, d, idle) /\ r = RollbackSync(q, d, lost, idle)
      BY <1>3 DEF PoolCloseSync, Stamp
    <2>2. SameHandles(p, q) /\ q.tx = p.tx /\ q.fifo = p.fifo
      BY <1>1 DEF PoolStates, SameHandles, SameOpens
    <2> HIDE DEF q, r
    <2>3. Sane(q)
      BY <2>2, SameHandlesKeeps
    <2>4. /\ Starting(q) = Starting(p) /\ d \notin Starting(q)
          /\ d \notin Elems(q.avail[StrOf[d]])
      BY <1>3, <2>2 DEF SameHandles, SameOpens, Starting
    <2>5. Calm(p, q)
      BY <2>2, <2>4 DEF SameHandles, Calm, Prompt, Tidy
    <2>6. Calm(q, r) /\ d \notin r.tx
      BY <2>1, <2>3, <2>4, RollbackSyncCalm
    <2>7. /\ Sane(r) /\ SameOpens(q, r)
          /\ d \in r.live => d \notin Elems(r.avail[StrOf[d]])
      BY <2>1, <2>3, <2>4, RollbackSyncKeeps, Z3
    <2>8. d \notin Starting(r)
      BY <2>4, <2>7 DEF SameOpens, Starting
    <2>9. /\ n.live = r.live /\ n.tx = r.tx /\ SameOpens(r, n)
          /\ Given(r, n, d)
          /\ \A k \in Nat : OneString /\ Prompt(r, k) => Prompt(n, k)
      BY <2>1, <2>7, <2>8, ReleaseEffect
    <2>10. ASSUME Tidy(r)
           PROVE  Tidy(n)
      <3>1. \A t \in Strs : Elems(n.avail[t]) \subseteq Elems(r.avail[t]) \cup {d}
        BY <2>9 DEF Given
      <3>2. Starting(n) = Starting(r)
        BY <2>9 DEF SameOpens, Starting
      <3> QED
        BY <2>6, <2>9, <2>10, <3>1, <3>2 DEF Tidy
    <2> QED
      BY <2>5, <2>6, <2>9, <2>10 DEF Calm
  <1> QED
    BY <1>2, <1>3

LEMMA CheckConnectionErrorCalm ==
    ASSUME NEW p, NEW lost, NEW idle, NEW d \in Conns, Sane(p),
           d \notin Starting(p),
           NEW n, n = CheckConnectionError(p, d, lost, idle)
    PROVE  Calm(p, n)
  <1> DEFINE q == PoolCloseSync(p, d, lost, idle)
  <1>1. n = CloseAllNow(q, d) /\ q = PoolCloseSync(p, d, lost, idle)
    BY DEF CheckConnectionError
  <1> HIDE DEF q
  <1>2. Calm(p, q)
    BY <1>1, PoolCloseSyncCalm
  <1>3. Sane(q)
    BY <1>1, PoolCloseSyncKeeps, Z3
  <1>4. Calm(q, n)
    BY <1>1, <1>3, CloseAllNowCalm
  <1> QED
    BY <1>2, <1>4 DEF Calm

-----------------------------------------------------------------------------
(* What the actions do. *)

LEMMA BecomesFields ==
    ASSUME NEW q, Becomes(q)
    PROVE  /\ Now'.avail = q.avail /\ Now'.used = q.used /\ Now'.size = q.size
           /\ Now'.fifo = q.fifo /\ Now'.live = q.live /\ Now'.tx = q.tx
           /\ Now'.closing = q.closing
           /\ Now'.opening = q.opening /\ Now'.warming = q.warming
           /\ Now'.pc = q.pc /\ Now'.ref = q.ref
           /\ maxPoolSize' = maxPoolSize
  BY DEF Now, Becomes

(* The loop at the start of Pool.open and openSync. *)
LEMMA DiscardDeadEffect ==
    ASSUME NEW p, NEW s \in Strs, Sane(p), NEW q, q = DiscardDead(p, s)
    PROVE  /\ q.tx = p.tx /\ q.fifo = p.fifo
           /\ \A t \in Strs \ {s} : q.avail[t] = p.avail[t]
           /\ p.avail[s] = <<>> => q.avail[s] = <<>>
           /\ Elems(p.avail[s]) \subseteq p.live
              => q.avail[s] = p.avail[s] /\ q.size = p.size
  <1> DEFINE list == p.avail[s]
             ok == {i \in DOMAIN list : list[i] \in p.live}
             first == CHOOSE i \in ok : \A j \in ok : i <= j
             n == IF ok = {} THEN Len(list) ELSE first - 1
             a == SubSeq(list, n + 1, Len(list))
             m == Decremented(p.size, n)
             b == [p.avail EXCEPT ![s] = a]
             z == [p EXCEPT !.avail = b, !.size = m]
  <1>1. p \in PoolStates /\ list \in Seq(Conns)
    BY DEF Sane, PoolStates
  <1>2. DOMAIN list = 1 .. Len(list) /\ Len(list) \in Nat
    BY <1>1
  <1>3. q = z
    BY <1>1 DEF DiscardDead, PoolStates
  <1>4. list = <<>> => a = <<>>
    <2> SUFFICES ASSUME list = <<>> PROVE a = <<>>
      OBVIOUS
    <2>1. ok = {} /\ Len(list) = 0
      OBVIOUS
    <2>2. n = 0
      BY <2>1
    <2>3. a = SubSeq(<<>>, 1, 0)
      BY <2>1, <2>2
    <2> QED
      BY <2>3, SubSeqEmpty
  <1>5. ASSUME Elems(list) \subseteq p.live
        PROVE  n = 0
    <2>1. CASE list = <<>>
      BY <1>2, <2>1
    <2>2. CASE list # <<>>
      <3>1. ok = 1 .. Len(list) /\ Len(list) >= 1
        BY <1>1, <1>2, <1>5, <2>2 DEF Elems
      <3>2. 1 \in ok /\ \A j \in ok : 1 <= j /\ j \in Nat
        BY <1>2, <3>1
      <3>3. first \in ok /\ \A j \in ok : first <= j
        <4>1. \E i \in ok : \A j \in ok : i <= j
          BY <3>2
        <4> HIDE DEF ok
        <4> QED
          BY <4>1
      <3>4. first = 1
        <4> HIDE DEF ok, first
        <4> QED
          BY <3>2, <3>3
      <3> HIDE DEF first
      <3> QED
        BY <3>2, <3>4
    <2> QED
      BY <2>1, <2>2
  <1> HIDE DEF n
  <1>6. ASSUME Elems(list) \subseteq p.live
        PROVE  a = list /\ m = p.size
    <2>1. n = 0
      BY <1>5, <1>6
    <2>2. a = SubSeq(list, 1, Len(list))
      BY <2>1
    <2>3. a = list
      BY <1>1, <2>2, SubSeqFull
    <2>4. m = p.size
      BY <1>1, <2>1 DEF Decremented, PoolStates
    <2> QED
      BY <2>3, <2>4
  <1>7. b[s] = a /\ \A t \in Strs \ {s} : b[t] = p.avail[t]
    <2> HIDE DEF a
    <2> QED
      BY <1>1 DEF PoolStates
  <1> HIDE DEF a, m, b
  <1>8. z.avail = b /\ z.size = m /\ z.tx = p.tx /\ z.fifo = p.fifo
    BY <1>1 DEF PoolStates
  <1> HIDE DEF z
  <1> QED
    BY <1>3, <1>4, <1>6, <1>7, <1>8

(* Pool.open and openSync after their loop: z is the state so far. *)
Begun(z, c, s) ==
    /\ Sane(z) /\ SameOpens(Now, z)
    /\ z.live = Now.live /\ z.tx = Now.tx /\ z.closing = Now.closing
    /\ z.fifo = Now.fifo /\ z.pc = Now.pc /\ z.used = Now.used
    /\ z.ref[c] = Nobody /\ \A e \in Clients \ {c} : z.ref[e] = Now.ref[e]
    /\ \A t \in Strs : /\ Elems(z.avail[t]) \subseteq Elems(Now.avail[t])
                       /\ Now.avail[t] = <<>> => z.avail[t] = <<>>
    /\ (\A t \in Strs : Elems(Now.avail[t]) \subseteq Now.live)
       => z.avail[s] = Now.avail[s] /\ z.size = Now.size

LEMMA DiscardDeadFrame ==
    ASSUME NEW p, NEW s \in Strs, Sane(p), NEW q, q = DiscardDead(p, s)
    PROVE  /\ Sane(q) /\ SameOpens(p, q)
           /\ q.live = p.live /\ q.closing = p.closing
           /\ q.used = p.used /\ q.pc = p.pc /\ q.ref = p.ref
           /\ \A t \in Strs : Elems(q.avail[t]) \subseteq Elems(p.avail[t])
  BY DiscardDeadKeeps

LEMMA OpenBegun ==
    ASSUME IInv, NEW c \in Clients, NEW s \in Strs, pc[c] = "idle",
           NEW p, p = DiscardDead([Now EXCEPT !.ref[c] = Nobody], s)
    PROVE  Begun(p, c, s)
  <1> DEFINE r == [Now.ref EXCEPT ![c] = Nobody]
             z == [Now EXCEPT !.ref = r]
  <1>1. Now \in PoolStates
    BY DEF IInv, Good, Sane
  <1>2. p = DiscardDead(z, s)
    BY <1>1 DEF PoolStates
  <1>3. /\ r \in [Clients -> Conns \cup {Nobody}] /\ r[c] = Nobody
        /\ \A e \in Clients \ {c} : r[e] = Now.ref[e]
    BY <1>1 DEF PoolStates
  <1> HIDE DEF r
  <1>4. /\ z \in PoolStates
        /\ z.avail = Now.avail /\ z.used = Now.used /\ z.size = Now.size
        /\ z.live = Now.live /\ z.closing = Now.closing /\ z.tx = Now.tx
        /\ z.fifo = Now.fifo
        /\ SameOpens(Now, z) /\ z.pc = Now.pc /\ z.ref = r
    BY <1>1, <1>3 DEF PoolStates, SameOpens
  <1> HIDE DEF z
  <1>5. SameButClient(Now, z, c)
    BY <1>1, <1>3, <1>4, NowFields DEF SameButClient, PoolStates
  <1>6. Sane(z)
    BY <1>5, ClientKeeps DEF IInv, Good
  <1>7. /\ Sane(p) /\ SameOpens(z, p)
        /\ p.live = z.live /\ p.closing = z.closing
        /\ p.used = z.used /\ p.pc = z.pc /\ p.ref = z.ref
        /\ \A t \in Strs : Elems(p.avail[t]) \subseteq Elems(z.avail[t])
    BY <1>2, <1>6, DiscardDeadFrame
  <1>8. /\ p.tx = z.tx /\ p.fifo = z.fifo
        /\ \A t \in Strs \ {s} : p.avail[t] = z.avail[t]
        /\ z.avail[s] = <<>> => p.avail[s] = <<>>
        /\ Elems(z.avail[s]) \subseteq z.live
           => p.avail[s] = z.avail[s] /\ p.size = z.size
    BY <1>2, <1>6, DiscardDeadEffect
  <1>9. SameOpens(Now, p)
    BY <1>4, <1>7 DEF SameOpens
  <1>10. \A t \in Strs : Now.avail[t] = <<>> => p.avail[t] = <<>>
    BY <1>4, <1>8
  <1> QED
    BY <1>3, <1>4, <1>7, <1>8, <1>9, <1>10 DEF Begun

(* A request of c (of nobody, when openSync parks it) goes to the queue. *)
Parked(z, q, c, s) ==
    /\ SameRest(z, q)
    /\ q.avail = z.avail /\ q.used = z.used /\ q.ref = z.ref
    /\ q.fifo = Append(z.fifo, [client |-> c, str |-> s])

(* db.open is issued on the new object d for client c. *)
Starts(z, q, c, d) ==
    /\ q.avail = z.avail /\ q.used = z.used /\ q.ref = z.ref /\ q.fifo = z.fifo
    /\ q.live = z.live /\ q.tx = z.tx /\ q.closing = z.closing
    /\ q.size = z.size + 1
    /\ q.pc[c] = "opening" /\ \A e \in Clients \ {c} : q.pc[e] = z.pc[e]
    /\ q.opening[d] = c /\ \A e \in Conns \ {d} : q.opening[e] = z.opening[e]
    /\ q.warming = z.warming

(* Connection d has opened, for client c. *)
Opened(z, q, c, d) ==
    /\ q.avail = z.avail /\ q.fifo = z.fifo
    /\ q.used[StrOf[d]] = Append(z.used[StrOf[d]], d)
    /\ \A t \in Strs \ {StrOf[d]} : q.used[t] = z.used[t]
    /\ q.live = z.live \cup {d} /\ q.tx = z.tx /\ q.closing = z.closing
    /\ SameOpens(z, q)
    /\ Handed(z, q, c, d)

LEMMA OpenedEffect ==
    ASSUME NEW z, NEW c \in Clients, NEW d \in Conns, z \in PoolStates,
           NEW q, q = HandTo(UseNew(z, d), c, d)
    PROVE  Opened(z, q, c, d) /\ q.size = z.size
  <1> DEFINE s == StrOf[d]
             a == Append(z.used[s], d)
             u == [z.used EXCEPT ![s] = a]
             l == z.live \cup {d}
             p == [z EXCEPT !.live = l, !.used = u, !.stamped = z.stamped \ {d}]
             h == [z.pc EXCEPT ![c] = "holding"]
             r == [z.ref EXCEPT ![c] = d]
  <1>1. s \in Strs /\ s = StrOf[d]
    BY ConstantsAssumption
  <1>2. UseNew(z, d) = p
    BY <1>1 DEF UseNew, Use, PoolStates
  <1>3. u[s] = a /\ \A t \in Strs \ {s} : u[t] = z.used[t]
    <2> HIDE DEF a
    <2> QED
      BY <1>1 DEF PoolStates
  <1>4. a = Append(z.used[s], d) /\ l = z.live \cup {d}
        /\ h = [z.pc EXCEPT ![c] = "holding"] /\ r = [z.ref EXCEPT ![c] = d]
    OBVIOUS
  <1> HIDE DEF a, u, s, l
  <1>5. /\ p.avail = z.avail /\ p.fifo = z.fifo /\ p.used = u /\ p.live = l
        /\ p.tx = z.tx /\ p.closing = z.closing /\ SameOpens(z, p)
        /\ p.size = z.size /\ p.pc = z.pc /\ p.ref = z.ref
    BY DEF PoolStates, SameOpens
  <1>6. q = [p EXCEPT !.pc = h, !.ref = r]
    BY <1>2, <1>5 DEF HandTo
  <1> HIDE DEF h, r
  <1>7. /\ q.avail = z.avail /\ q.fifo = z.fifo /\ q.used = u /\ q.live = l
        /\ q.tx = z.tx /\ q.closing = z.closing /\ SameOpens(z, q)
        /\ q.size = z.size /\ q.pc = h /\ q.ref = r
    BY <1>6 DEF PoolStates, SameOpens
  <1> QED
    BY <1>1, <1>3, <1>4, <1>7 DEF Opened, Handed

(* What Pool.open and openSync may come to. *)
Served(z, q, c, s) ==
    /\ z.avail[s] # <<>>
    /\ Taken(z, q, s, Head(z.avail[s])) /\ Handed(z, q, c, Head(z.avail[s]))
    /\ SameRest(z, q) /\ q.fifo = z.fifo

LEMMA OpenEffect ==
    ASSUME IInv, NEW c \in Clients, NEW s \in Strs, Open(c, s)
    PROVE  \E z, q :
              /\ Now.pc[c] = "idle" /\ Begun(z, c, s) /\ Becomes(q)
              /\ \/ Served(z, q, c, s)
                 \/ /\ z.avail[s] = <<>> /\ Full(z) /\ Parked(z, q, c, s)
                    /\ q.pc = [z.pc EXCEPT ![c] = "queued"]
                 \/ /\ z.avail[s] = <<>> /\ ~Full(z)
                    /\ \E d \in Fresh(s) : Starts(z, q, c, d)
  <1> DEFINE p == DiscardDead([Now EXCEPT !.ref[c] = Nobody], s)
  <1>1. /\ p = DiscardDead([Now EXCEPT !.ref[c] = Nobody], s)
        /\ pc[c] = "idle" /\ Now.pc[c] = "idle"
    BY NowFields DEF Open
  <1>2. \/ /\ p.avail[s] # <<>>
           /\ Becomes(HandTo(TakeFirst(p, s), c, Head(p.avail[s])))
        \/ /\ p.avail[s] = <<>> /\ Full(p)
           /\ Becomes(Park([p EXCEPT !.pc[c] = "queued"], c, s))
        \/ /\ p.avail[s] = <<>> /\ ~Full(p)
           /\ \E d \in Fresh(s) :
                Becomes([p EXCEPT !.size = @ + 1, !.pc[c] = "opening",
                                  !.opening[d] = c])
    BY DEF Open
  <1> HIDE DEF p
  <1>3. Begun(p, c, s) /\ Sane(p) /\ p \in PoolStates
    <2>1. Begun(p, c, s)
      BY <1>1, OpenBegun
    <2> QED
      BY <2>1 DEF Begun, Sane
  <1>4. CASE /\ p.avail[s] # <<>>
             /\ Becomes(HandTo(TakeFirst(p, s), c, Head(p.avail[s])))
    <2> DEFINE q == HandTo(TakeFirst(p, s), c, Head(p.avail[s]))
    <2>1. Becomes(q) /\ q = HandTo(TakeFirst(p, s), c, Head(p.avail[s]))
      BY <1>4
    <2> HIDE DEF q
    <2>2. Served(p, q, c, s)
      BY <1>3, <1>4, <2>1, ServeEffect DEF Served
    <2> QED
      BY <1>1, <1>3, <2>1, <2>2
  <1>5. CASE /\ p.avail[s] = <<>> /\ Full(p)
             /\ Becomes(Park([p EXCEPT !.pc[c] = "queued"], c, s))
    <2> DEFINE h == [p.pc EXCEPT ![c] = "queued"]
               l == Append(p.fifo, [client |-> c, str |-> s])
               q == [p EXCEPT !.pc = h, !.fifo = l]
    <2>1. Park([p EXCEPT !.pc[c] = "queued"], c, s) = q
      BY <1>3 DEF Park, PoolStates
    <2>2. /\ h = [p.pc EXCEPT ![c] = "queued"]
          /\ l = Append(p.fifo, [client |-> c, str |-> s])
      OBVIOUS
    <2> HIDE DEF h, l
    <2>3. SameRest(p, q) /\ q.avail = p.avail /\ q.used = p.used
          /\ q.ref = p.ref /\ q.fifo = l /\ q.pc = h
      BY <1>3 DEF PoolStates, SameRest, SameOpens
    <2>4. Becomes(q)
      BY <1>5, <2>1
    <2> HIDE DEF q
    <2>5. Parked(p, q, c, s) /\ q.pc = [p.pc EXCEPT ![c] = "queued"]
      BY <2>2, <2>3 DEF Parked
    <2> QED
      BY <1>1, <1>3, <1>5, <2>4, <2>5
  <1>6. CASE /\ p.avail[s] = <<>> /\ ~Full(p)
             /\ \E d \in Fresh(s) :
                  Becomes([p EXCEPT !.size = @ + 1, !.pc[c] = "opening",
                                    !.opening[d] = c])
    <2>1. PICK d \in Fresh(s) :
             Becomes([p EXCEPT !.size = @ + 1, !.pc[c] = "opening",
                               !.opening[d] = c])
      BY <1>6
    <2>2. d \in Conns
      BY FreshUnknown
    <2> DEFINE h == [p.pc EXCEPT ![c] = "opening"]
               o == [p.opening EXCEPT ![d] = c]
               k == p.size + 1
               q == [p EXCEPT !.size = k, !.pc = h, !.opening = o]
    <2>3. Becomes(q)
      BY <2>1
    <2>4. /\ h[c] = "opening" /\ \A e \in Clients \ {c} : h[e] = p.pc[e]
          /\ o[d] = c /\ \A e \in Conns \ {d} : o[e] = p.opening[e]
          /\ k = p.size + 1
      BY <1>3, <2>2 DEF PoolStates
    <2> HIDE DEF h, o, k
    <2>5. /\ q.avail = p.avail /\ q.used = p.used /\ q.ref = p.ref
          /\ q.fifo = p.fifo /\ q.live = p.live /\ q.tx = p.tx
          /\ q.closing = p.closing /\ q.size = k /\ q.pc = h
          /\ q.opening = o /\ q.warming = p.warming
      BY <1>3 DEF PoolStates
    <2> HIDE DEF q
    <2>6. Starts(p, q, c, d)
      BY <2>4, <2>5 DEF Starts
    <2> QED
      BY <1>1, <1>3, <1>6, <2>3, <2>6
  <1> QED
    BY <1>2, <1>4, <1>5, <1>6

LEMMA OpenSyncEffect ==
    ASSUME IInv, NEW c \in Clients, NEW s \in Strs, OpenSync(c, s)
    PROVE  \E z, q :
              /\ Now.pc[c] = "idle" /\ Begun(z, c, s) /\ Becomes(q)
              /\ \/ Served(z, q, c, s)
                 \/ /\ z.avail[s] = <<>> /\ Full(z) /\ Parked(z, q, Nobody, s)
                    /\ q.pc = z.pc
                 \/ /\ z.avail[s] = <<>> /\ ~Full(z)
                    /\ \E d \in Fresh(s) : Opened(z, q, c, d)
                    /\ q.size = z.size + 1
                 \/ q = z
  <1> DEFINE p == DiscardDead([Now EXCEPT !.ref[c] = Nobody], s)
  <1>1. /\ p = DiscardDead([Now EXCEPT !.ref[c] = Nobody], s)
        /\ pc[c] = "idle" /\ Now.pc[c] = "idle"
    BY NowFields DEF OpenSync
  <1>2. \/ /\ p.avail[s] # <<>>
           /\ Becomes(HandTo(TakeFirst(p, s), c, Head(p.avail[s])))
        \/ /\ p.avail[s] = <<>> /\ Full(p)
           /\ Becomes(Park(p, Nobody, s))
        \/ /\ p.avail[s] = <<>> /\ ~Full(p)
           /\ \E d \in Fresh(s) :
                Becomes(HandTo(UseNew([p EXCEPT !.size = @ + 1], d), c, d))
        \/ Becomes(p)
    BY DEF OpenSync
  <1> HIDE DEF p
  <1>3. Begun(p, c, s) /\ Sane(p) /\ p \in PoolStates
    <2>1. Begun(p, c, s)
      BY <1>1, OpenBegun
    <2> QED
      BY <2>1 DEF Begun, Sane
  <1>4. CASE /\ p.avail[s] # <<>>
             /\ Becomes(HandTo(TakeFirst(p, s), c, Head(p.avail[s])))
    <2> DEFINE q == HandTo(TakeFirst(p, s), c, Head(p.avail[s]))
    <2>1. Becomes(q) /\ q = HandTo(TakeFirst(p, s), c, Head(p.avail[s]))
      BY <1>4
    <2> HIDE DEF q
    <2>2. Served(p, q, c, s)
      BY <1>3, <1>4, <2>1, ServeEffect DEF Served
    <2> QED
      BY <1>1, <1>3, <2>1, <2>2
  <1>5. CASE /\ p.avail[s] = <<>> /\ Full(p)
             /\ Becomes(Park(p, Nobody, s))
    <2> DEFINE l == Append(p.fifo, [client |-> Nobody, str |-> s])
               q == [p EXCEPT !.fifo = l]
    <2>1. Park(p, Nobody, s) = q
      BY <1>3 DEF Park, PoolStates
    <2>2. l = Append(p.fifo, [client |-> Nobody, str |-> s])
      OBVIOUS
    <2> HIDE DEF l
    <2>3. SameRest(p, q) /\ q.avail = p.avail /\ q.used = p.used
          /\ q.ref = p.ref /\ q.fifo = l /\ q.pc = p.pc
      BY <1>3 DEF PoolStates, SameRest, SameOpens
    <2>4. Becomes(q)
      BY <1>5, <2>1
    <2> HIDE DEF q
    <2>5. Parked(p, q, Nobody, s) /\ q.pc = p.pc
      BY <2>2, <2>3 DEF Parked
    <2> QED
      BY <1>1, <1>3, <1>5, <2>4, <2>5
  <1>6. CASE /\ p.avail[s] = <<>> /\ ~Full(p)
             /\ \E d \in Fresh(s) :
                  Becomes(HandTo(UseNew([p EXCEPT !.size = @ + 1], d), c, d))
    <2> DEFINE k == p.size + 1
               z == [p EXCEPT !.size = k]
    <2>1. PICK d \in Fresh(s) : Becomes(HandTo(UseNew(z, d), c, d))
      BY <1>6
    <2> DEFINE q == HandTo(UseNew(z, d), c, d)
    <2>2. Becomes(q) /\ q = HandTo(UseNew(z, d), c, d) /\ k = p.size + 1
      BY <2>1
    <2>3. d \in Conns /\ k \in Int
      BY <1>3, FreshUnknown DEF PoolStates
    <2> HIDE DEF q, k
    <2>4. /\ z \in PoolStates
          /\ z.avail = p.avail /\ z.used = p.used /\ z.ref = p.ref
          /\ z.fifo = p.fifo /\ z.live = p.live /\ z.tx = p.tx
          /\ z.closing = p.closing /\ z.size = k /\ z.pc = p.pc
          /\ SameOpens(p, z)
      BY <1>3, <2>3 DEF PoolStates, SameOpens
    <2> HIDE DEF z
    <2>5. Opened(z, q, c, d) /\ q.size = z.size
      BY <2>2, <2>3, <2>4, OpenedEffect
    <2>6. Opened(p, q, c, d) /\ q.size = p.size + 1
      BY <2>2, <2>4, <2>5 DEF Opened, Handed, SameOpens
    <2> QED
      BY <1>1, <1>3, <1>6, <2>2, <2>6
  <1>7. CASE Becomes(p)
    BY <1>1, <1>3, <1>7
  <1> QED
    BY <1>2, <1>4, <1>5, <1>6, <1>7

(* The callback of db.open: opening[d] is cleared, in the state z.          *)
Ended(z, d, c) ==
    /\ c = Now.opening[d] /\ c \in Clients
    /\ z \in PoolStates
    /\ z.avail = Now.avail /\ z.used = Now.used /\ z.size = Now.size
    /\ z.fifo = Now.fifo /\ z.live = Now.live /\ z.tx = Now.tx
    /\ z.closing = Now.closing /\ z.warming = Now.warming
    /\ z.pc = Now.pc /\ z.ref = Now.ref
    /\ z.opening[d] = Nobody
    /\ \A e \in Conns \ {d} : z.opening[e] = Now.opening[e]

LEMMA OpenDoneEffect ==
    ASSUME IInv, NEW d \in Conns, OpenDone(d)
    PROVE  \E c, z, q :
              /\ Ended(z, d, c) /\ Becomes(q)
              /\ \/ Opened(z, q, c, d) /\ q.size = z.size
                 \/ /\ "open" \in Faults
                    /\ SameOpens(z, q) /\ q.live = z.live /\ q.tx = z.tx
                    /\ q.closing = z.closing /\ q.fifo = z.fifo
                    /\ q.avail = z.avail /\ q.used = z.used
                    /\ q.ref = z.ref /\ q.pc = [z.pc EXCEPT ![c] = "idle"]
                    /\ q.size = z.size - 1
  <1> DEFINE c == Now.opening[d]
             o == [Now.opening EXCEPT ![d] = Nobody]
             z == [Now EXCEPT !.opening = o]
  <1>1. Now \in PoolStates
    BY DEF IInv, Good, Sane
  <1>2. c \in Clients /\ c = opening[d] /\ c = Now.opening[d]
    BY <1>1, NowFields DEF OpenDone, PoolStates
  <1>3. \/ Becomes(HandTo(UseNew(z, d), c, d))
        \/ /\ "open" \in Faults
           /\ Becomes([z EXCEPT !.size = @ - 1, !.pc[c] = "idle"])
    BY <1>2 DEF OpenDone
  <1>4. /\ o \in [Conns -> Clients \cup {Nobody}]
        /\ o[d] = Nobody /\ \A e \in Conns \ {d} : o[e] = Now.opening[e]
    BY <1>1 DEF PoolStates
  <1> HIDE DEF o, c
  <1>5. /\ z \in PoolStates
        /\ z.avail = Now.avail /\ z.used = Now.used /\ z.size = Now.size
        /\ z.fifo = Now.fifo /\ z.live = Now.live /\ z.tx = Now.tx
        /\ z.closing = Now.closing /\ z.warming = Now.warming
        /\ z.pc = Now.pc /\ z.ref = Now.ref /\ z.opening = o
    BY <1>1, <1>4 DEF PoolStates
  <1> HIDE DEF z
  <1>6. Ended(z, d, c)
    BY <1>2, <1>4, <1>5 DEF Ended
  <1>7. CASE Becomes(HandTo(UseNew(z, d), c, d))
    <2> DEFINE q == HandTo(UseNew(z, d), c, d)
    <2>1. Becomes(q) /\ q = HandTo(UseNew(z, d), c, d)
      BY <1>7
    <2> HIDE DEF q
    <2>2. Opened(z, q, c, d) /\ q.size = z.size
      BY <1>2, <1>5, <2>1, OpenedEffect
    <2> QED
      BY <1>6, <2>1, <2>2
  <1>8. CASE /\ "open" \in Faults
             /\ Becomes([z EXCEPT !.size = @ - 1, !.pc[c] = "idle"])
    <2> DEFINE k == z.size - 1
               h == [z.pc EXCEPT ![c] = "idle"]
               q == [z EXCEPT !.size = k, !.pc = h]
    <2>1. Becomes(q)
      BY <1>8
    <2>2. k = z.size - 1 /\ h = [z.pc EXCEPT ![c] = "idle"]
      OBVIOUS
    <2> HIDE DEF k, h
    <2>3. /\ SameOpens(z, q) /\ q.live = z.live /\ q.tx = z.tx
          /\ q.closing = z.closing /\ q.fifo = z.fifo
          /\ q.avail = z.avail /\ q.used = z.used
          /\ q.ref = z.ref /\ q.pc = h /\ q.size = k
      BY <1>5 DEF PoolStates, SameOpens
    <2> HIDE DEF q
    <2> QED
      BY <1>6, <1>8, <2>1, <2>2, <2>3
  <1> QED
    BY <1>3, <1>7, <1>8

(* Client c gives up connection d, in the state z: it no longer holds it,   *)
(* and keeps its reference only where an application may close again.       *)
LetsGo(z, c, d) ==
    /\ Sane(z) /\ SameRest(Now, z)
    /\ d \in Conns /\ d \notin Starting(z) /\ d = Now.ref[c]
    /\ z.avail = Now.avail /\ z.used = Now.used /\ z.fifo = Now.fifo
    /\ z.pc[c] = "idle" /\ \A e \in Clients \ {c} : z.pc[e] = Now.pc[e]
    /\ z.ref[c] \in {Now.ref[c], Nobody}
    /\ \A e \in Clients \ {c} : z.ref[e] = Now.ref[e]
    /\ Now.pc[c] \in {"holding", "idle"}
    /\ "reclose" \in Uses \/ (Now.pc[c] = "holding" /\ z.ref[c] = Nobody)

LEMMA LetGoEffect ==
    ASSUME IInv, NEW c \in Clients, pc[c] = "holding",
           NEW z, z = LetGo(Now, c)
    PROVE  LetsGo(z, c, ref[c])
  <1> DEFINE d == ref[c]
             f == [Now.pc EXCEPT ![c] = "idle"]
             r == [Now.ref EXCEPT ![c] = IF "reclose" \in Uses THEN @ ELSE Nobody]
  <1>1. /\ Now \in PoolStates /\ Now.pc[c] = "holding"
        /\ Now.ref[c] = d /\ d = ref[c]
    BY NowFields DEF IInv, Good, Sane
  <1>2. f[c] = "idle" /\ \A e \in Clients \ {c} : f[e] = Now.pc[e]
    BY <1>1 DEF PoolStates
  <1>3. /\ r[c] \in {Now.ref[c], Nobody} /\ ("reclose" \notin Uses => r[c] = Nobody)
        /\ \A e \in Clients \ {c} : r[e] = Now.ref[e]
    BY <1>1 DEF PoolStates
  <1>4. z = [Now EXCEPT !.pc = f, !.ref = r]
    BY <1>1 DEF LetGo, PoolStates
  <1> HIDE DEF f, r, d
  <1>5. /\ z.avail = Now.avail /\ z.used = Now.used /\ z.fifo = Now.fifo
        /\ SameRest(Now, z) /\ z.pc = f /\ z.ref = r
    BY <1>1, <1>4 DEF PoolStates, SameOpens, SameRest
  <1>6. Sane(z) /\ d \in Conns /\ d \notin Starting(z)
    BY <1>1, GoodLetGo DEF Good
  <1>8. /\ z.pc[c] = "idle" /\ \A e \in Clients \ {c} : z.pc[e] = Now.pc[e]
        /\ z.ref[c] \in {Now.ref[c], Nobody}
        /\ \A e \in Clients \ {c} : z.ref[e] = Now.ref[e]
    BY <1>2, <1>3, <1>5
  <1>9. "reclose" \in Uses \/ (Now.pc[c] = "holding" /\ z.ref[c] = Nobody)
    <2>1. "reclose" \notin Uses => r[c] = Nobody
      BY <1>3
    <2>2. z.ref[c] = r[c]
      BY <1>5
    <2> QED
      BY <1>1, <2>1, <2>2
  <1>7. LetsGo(z, c, d)
    BY <1>1, <1>5, <1>6, <1>8, <1>9 DEF LetsGo
  <1> QED
    BY <1>1, <1>7

LEMMA CloseEffect ==
    ASSUME IInv, NEW c \in Clients, Close(c)
    PROVE  \E z, d, idle, q : /\ LetsGo(z, c, d) /\ Becomes(q)
                              /\ q = PoolClose(z, d, idle)
  <1>1. PICK idle \in IdleSets : Becomes(PoolClose(LetGo(Now, c), ref[c], idle))
    BY DEF Close
  <1> DEFINE z == LetGo(Now, c)
             d == ref[c]
             q == PoolClose(z, d, idle)
  <1>2. pc[c] = "holding" /\ z = LetGo(Now, c) /\ d = ref[c]
    BY DEF Close
  <1>3. Becomes(q) /\ q = PoolClose(z, d, idle)
    BY <1>1
  <1> HIDE DEF z, q, d
  <1>4. LetsGo(z, c, d)
    BY <1>2, LetGoEffect
  <1> QED
    BY <1>3, <1>4

LEMMA CloseSyncEffect ==
    ASSUME IInv, NEW c \in Clients, CloseSync(c)
    PROVE  \E z, d, idle, q, lost :
              /\ LetsGo(z, c, d) /\ Becomes(q)
              /\ q = PoolCloseSync(z, d, lost, idle)
              /\ lost # FALSE => "lost" \in Faults
  <1>1. PICK idle \in IdleSets, lost \in {FALSE, MayLose} :
           Becomes(PoolCloseSync(LetGo(Now, c), ref[c], lost, idle))
    BY DEF CloseSync
  <1> DEFINE z == LetGo(Now, c)
             d == ref[c]
             q == PoolCloseSync(z, d, lost, idle)
  <1>2. pc[c] = "holding" /\ z = LetGo(Now, c) /\ d = ref[c]
    BY DEF CloseSync
  <1>3. Becomes(q) /\ q = PoolCloseSync(z, d, lost, idle)
    BY <1>1
  <1> HIDE DEF z, q, d
  <1>4. LetsGo(z, c, d)
    BY <1>2, LetGoEffect
  <1>5. lost # FALSE => "lost" \in Faults
    BY DEF MayLose
  <1> QED
    BY <1>3, <1>4, <1>5

(* Without a lost connection closeSync does what close does. *)
LEMMA CloseSyncIsClose ==
    ASSUME NEW p, NEW d \in Conns, NEW idle, p \in PoolStates
    PROVE  PoolCloseSync(p, d, FALSE, idle) = PoolClose(p, d, idle)
  <1> DEFINE q == [p EXCEPT !.stamped = p.stamped \cup {d}]
  <1>1. Stamp(p, d) = q
    BY DEF Stamp
  <1>2. RollbackSync(q, d, FALSE, idle) = [q EXCEPT !.tx = @ \ {d}]
    BY DEF RollbackSync
  <1> QED
    BY <1>1, <1>2 DEF PoolCloseSync, PoolClose

(* Client c forgets the connection it has closed before. *)
LEMMA ForgetEffect ==
    ASSUME IInv, NEW c \in Clients, pc[c] = "idle", ref[c] # Nobody,
           "reclose" \in Uses, NEW z, z = [Now EXCEPT !.ref[c] = Nobody]
    PROVE  LetsGo(z, c, ref[c])
  <1> DEFINE d == ref[c]
             r == [Now.ref EXCEPT ![c] = Nobody]
  <1>1. Now \in PoolStates /\ Good(Now)
    BY DEF IInv, Good, Sane
  <1>2. Now.pc[c] = "idle" /\ Now.ref[c] = d /\ d = ref[c]
    BY NowFields
  <1>3. r[c] = Nobody /\ \A e \in Clients \ {c} : r[e] = Now.ref[e]
    BY <1>1 DEF PoolStates
  <1>4. z = [Now EXCEPT !.ref = r]
    BY <1>1 DEF PoolStates
  <1> HIDE DEF d, r
  <1>5. /\ z.avail = Now.avail /\ z.used = Now.used /\ z.fifo = Now.fifo
        /\ SameRest(Now, z) /\ z.pc = Now.pc /\ z.ref = r
    BY <1>1, <1>4 DEF PoolStates, SameOpens, SameRest
  <1>6. Sane(z) /\ d \in Conns /\ d \notin Starting(z)
    BY <1>2, GoodForget DEF Good
  <1>7. LetsGo(z, c, d)
    BY <1>2, <1>3, <1>5, <1>6 DEF LetsGo
  <1> QED
    BY <1>2, <1>7

LEMMA CloseAgainEffect ==
    ASSUME IInv, NEW c \in Clients, CloseAgain(c)
    PROVE  \E z, d, idle, q : /\ LetsGo(z, c, d) /\ Becomes(q)
                              /\ q = PoolClose(z, d, idle)
                              /\ d # Nobody
  <1>1. PICK idle \in IdleSets :
           Becomes(PoolClose([Now EXCEPT !.ref[c] = Nobody], ref[c], idle))
    BY DEF CloseAgain
  <1> DEFINE d == ref[c]
             z == [Now EXCEPT !.ref[c] = Nobody]
             q == PoolClose(z, d, idle)
  <1>2. /\ "reclose" \in Uses /\ pc[c] = "idle" /\ ref[c] # Nobody
        /\ d = ref[c] /\ z = [Now EXCEPT !.ref[c] = Nobody]
    BY DEF CloseAgain
  <1>3. Becomes(q) /\ q = PoolClose(z, d, idle)
    BY <1>1
  <1> HIDE DEF z, q, d
  <1>4. LetsGo(z, c, d)
    BY <1>2, ForgetEffect
  <1> QED
    BY <1>2, <1>3, <1>4

(* Connection d is back, and its close calls back.                          *)
BackOnOffer(z, g, d) ==
    /\ Returned(z, g, d) /\ g.tx = z.tx \ {d}
    /\ d \notin Elems(z.avail[StrOf[d]])

LEMMA CallsBackEffect ==
    ASSUME NEW z, NEW d \in Conns, Sane(z), d \notin Starting(z), CallsBack(z, d)
    PROVE  \E g : Becomes(g) /\ BackOnOffer(z, g, d)
  <1> DEFINE y == [Stamp(z, d) EXCEPT !.tx = @ \ {d}]
             t1 == z.tx \ {d}
             x == [z EXCEPT !.stamped = z.stamped \cup {d}, !.tx = t1]
             g == GivesBack(y, d)
  <1>1. z \in PoolStates
    BY DEF Sane
  <1>2. Becomes(g) /\ d \notin Elems(z.avail[StrOf[d]])
    BY DEF CallsBack
  <1>3. y = x
    BY <1>1 DEF Stamp, PoolStates
  <1>4. t1 \in SUBSET Conns /\ t1 = z.tx \ {d}
    BY <1>1 DEF PoolStates
  <1> HIDE DEF t1
  <1>5. SameHandles(z, x) /\ x.tx = t1 /\ x.fifo = z.fifo /\ x.size = z.size
    BY <1>1, <1>4 DEF PoolStates, SameHandles, SameOpens
  <1>6. g = GivesBack(y, d)
    OBVIOUS
  <1> HIDE DEF y, x, g
  <1>7. /\ Sane(y) /\ y.avail = z.avail /\ y.used = z.used
        /\ y.live = z.live /\ y.closing = z.closing
        /\ SameOpens(z, y) /\ y.pc = z.pc /\ y.ref = z.ref
        /\ y.tx = z.tx \ {d} /\ y.fifo = z.fifo /\ y.size = z.size
    BY <1>3, <1>4, <1>5, SameHandlesKeeps DEF SameHandles
  <1>8. d \notin Starting(y) /\ d \notin Elems(y.avail[StrOf[d]])
    BY <1>2, <1>7 DEF SameOpens, Starting
  <1>9. Returned(y, g, d) /\ g.tx = y.tx
    BY <1>6, <1>7, <1>8, GivesBackReturns
  <1>10. Returned(z, g, d)
    BY <1>7, <1>9 DEF Returned, SameOpens
  <1> QED
    BY <1>2, <1>7, <1>9, <1>10 DEF BackOnOffer

(* A close that calls back ... *)
LEMMA CloseCallsBackEffect ==
    ASSUME IInv, NEW c \in Clients, CloseCallsBack(c) \/ CloseAgainCallsBack(c)
    PROVE  \E z, d, g : /\ LetsGo(z, c, d) /\ Becomes(g)
                        /\ BackOnOffer(z, g, d)
                        /\ callbacks' = <<d>> \o callbacks
  <1>1. ASSUME NEW z, LetsGo(z, c, ref[c]), CallsBack(z, ref[c])
        PROVE  \E d, g : /\ LetsGo(z, c, d) /\ Becomes(g)
                         /\ BackOnOffer(z, g, d)
                         /\ callbacks' = <<d>> \o callbacks
    <2> DEFINE d == ref[c]
    <2>1. /\ LetsGo(z, c, d) /\ CallsBack(z, d)
          /\ callbacks' = <<d>> \o callbacks
      BY <1>1 DEF CallsBack
    <2> HIDE DEF d
    <2>2. Sane(z) /\ d \in Conns /\ d \notin Starting(z)
      BY <2>1 DEF LetsGo
    <2>3. \E g : Becomes(g) /\ BackOnOffer(z, g, d)
      BY <2>1, <2>2, CallsBackEffect
    <2> QED
      BY <2>1, <2>3
  <1>2. CASE CloseCallsBack(c)
    <2> DEFINE z == LetGo(Now, c)
    <2>1. pc[c] = "holding" /\ CallsBack(z, ref[c])
      BY <1>2 DEF CloseCallsBack
    <2>2. LetsGo(z, c, ref[c])
      BY <2>1, LetGoEffect
    <2> HIDE DEF z
    <2> QED
      BY <1>1, <2>1, <2>2
  <1>3. CASE CloseAgainCallsBack(c)
    <2> DEFINE z == [Now EXCEPT !.ref[c] = Nobody]
    <2>1. /\ "reclose" \in Uses /\ pc[c] = "idle" /\ ref[c] # Nobody
          /\ CallsBack(z, ref[c])
      BY <1>3 DEF CloseAgainCallsBack
    <2>2. LetsGo(z, c, ref[c])
      BY <2>1, ForgetEffect
    <2> HIDE DEF z
    <2> QED
      BY <1>1, <2>1, <2>2
  <1> QED
    BY <1>2, <1>3

(* ... and goes on. *)
LEMMA CallbackReturnsEffect ==
    ASSUME callbacks \in Seq(Conns), CallbackReturns
    PROVE  \E d, idle, n :
              /\ d \in Conns
              /\ Becomes(n) /\ n = Wakes(Now, d, idle) /\ d = Head(callbacks)
              /\ callbacks # <<>> /\ callbacks' = Tail(callbacks)
  <1> DEFINE d == Head(callbacks)
  <1>1. PICK idle \in IdleSets : Becomes(Wakes(Now, d, idle))
    BY DEF CallbackReturns
  <1>2. /\ d \in Conns /\ d = Head(callbacks)
        /\ callbacks # <<>> /\ callbacks' = Tail(callbacks)
    BY DEF CallbackReturns
  <1> HIDE DEF d
  <1> QED
    BY <1>1, <1>2

(* The Database objects that may be new are unlike each other. *)
LEMMA FreshListSize ==
    ASSUME NEW s \in Strs, NEW k \in Nat, NEW f \in FreshLists(s, k)
    PROVE  /\ Elems(f) \subseteq Fresh(s)
           /\ IsFiniteSet(Elems(f)) /\ Cardinality(Elems(f)) = k
  <1>1. /\ f \in [1 .. k -> Fresh(s)] /\ DOMAIN f = 1 .. k
        /\ \A i, j \in 1 .. k : f[i] = f[j] => i = j
    BY DEF FreshLists
  <1>2. Uniq(f, s) /\ Elems(f) \subseteq Fresh(s)
    BY FreshListsUniq
  <1>3. f \in Bijection(1 .. k, Elems(f))
    <2>1. f \in [1 .. k -> Elems(f)]
      BY <1>1 DEF Elems
    <2>2. f \in Injection(1 .. k, Elems(f))
      BY <1>1, <2>1 DEF Injection, IsInjective
    <2>3. f \in Surjection(1 .. k, Elems(f))
      BY <1>1, <2>1 DEF Surjection, Elems
    <2> QED
      BY <2>2, <2>3 DEF Bijection
  <1>4. IsFiniteSet(1 .. k) /\ Cardinality(1 .. k) = k
    BY 1 \in Int, k \in Int, FS_Interval
  <1>5. ExistsBijection(1 .. k, Elems(f))
    BY <1>3 DEF ExistsBijection
  <1>6. IsFiniteSet(Elems(f)) /\ Cardinality(Elems(f)) = k
    BY <1>4, <1>5, FS_Bijection
  <1> QED
    BY <1>2, <1>6

(* Pool.init: the connections of D are open, and on offer. *)
LEMMA InitSyncEffect ==
    ASSUME IInv, NEW n \in InitCounts, NEW s \in Strs, InitSync(n, s)
    PROVE  \E q, D, k :
              /\ Becomes(q) /\ "init" \in Uses
              /\ D \subseteq Fresh(s) /\ k \in Nat
              /\ IsFiniteSet(D) /\ Cardinality(D) = k
              /\ \A t \in Strs : \A e \in Elems(q.avail[t]) :
                    e \in Elems(Now.avail[t]) \/ e \in D
              /\ q.used = Now.used /\ q.fifo = Now.fifo
              /\ q.pc = Now.pc /\ q.ref = Now.ref
              /\ SameOpens(Now, q) /\ q.tx = Now.tx /\ q.closing = Now.closing
              /\ q.live = Now.live \cup D
              /\ q.size = Now.size + k
  <1>1. PICK k \in 0 .. InitCount(n) : \E f \in FreshLists(s, k) :
           Becomes([Now EXCEPT !.avail[s] = f, !.size = @ + k,
                               !.live = @ \cup Elems(f),
                               !.stamped = @ \ Elems(f)])
    BY DEF InitSync
  <1>2. PICK f \in FreshLists(s, k) :
           Becomes([Now EXCEPT !.avail[s] = f, !.size = @ + k,
                               !.live = @ \cup Elems(f),
                               !.stamped = @ \ Elems(f)])
    BY <1>1
  <1>3. k \in Nat
    BY <1>1, InitCountNat
  <1> DEFINE D == Elems(f)
             a == [Now.avail EXCEPT ![s] = f]
             l == Now.live \cup D
             m == Now.size + k
             q == [Now EXCEPT !.avail = a, !.size = m, !.live = l,
                              !.stamped = Now.stamped \ D]
  <1>4. Now \in PoolStates
    BY DEF IInv, Good, Sane
  <1>5. Becomes(q)
    BY <1>2
  <1>6. D \subseteq Fresh(s) /\ IsFiniteSet(D) /\ Cardinality(D) = k
    BY <1>3, FreshListSize
  <1>7. D = Elems(f) /\ l = Now.live \cup D /\ m = Now.size + k
    OBVIOUS
  <1> HIDE DEF D, m, l
  <1>8. a[s] = f /\ \A t \in Strs \ {s} : a[t] = Now.avail[t]
    BY <1>4 DEF PoolStates
  <1> HIDE DEF a
  <1>9. /\ q.avail = a /\ q.size = m /\ q.live = l
        /\ q.used = Now.used /\ q.fifo = Now.fifo
        /\ q.pc = Now.pc /\ q.ref = Now.ref
        /\ SameOpens(Now, q) /\ q.tx = Now.tx /\ q.closing = Now.closing
    BY <1>4 DEF PoolStates, SameOpens
  <1> HIDE DEF q
  <1>10. \A t \in Strs : \A e \in Elems(q.avail[t]) :
            e \in Elems(Now.avail[t]) \/ e \in D
    BY <1>7, <1>8, <1>9
  <1>11. "init" \in Uses
    BY DEF InitSync
  <1> QED
    BY <1>3, <1>5, <1>6, <1>7, <1>9, <1>10, <1>11

(* Pool.initAsync: the connections of D are being opened. *)
LEMMA InitAsyncEffect ==
    ASSUME IInv, NEW n \in InitCounts, NEW s \in Strs, InitAsync(n, s)
    PROVE  \E q, D, k :
              /\ Becomes(q) /\ "initAsync" \in Uses
              /\ D \subseteq Fresh(s) /\ k \in Nat
              /\ IsFiniteSet(D) /\ Cardinality(D) = k
              /\ q.avail = Now.avail
              /\ q.used = Now.used /\ q.fifo = Now.fifo
              /\ q.pc = Now.pc /\ q.ref = Now.ref
              /\ q.opening = Now.opening /\ q.warming = Now.warming \cup D
              /\ q.live = Now.live /\ q.tx = Now.tx /\ q.closing = Now.closing
              /\ q.size = Now.size + k
  <1> DEFINE k == InitCount(n)
  <1>1. PICK f \in FreshLists(s, k) :
           Becomes([Now EXCEPT !.size = @ + k, !.warming = @ \cup Elems(f)])
    BY DEF InitAsync
  <1>2. k \in Nat
    BY InitCountNat
  <1> HIDE DEF k
  <1> DEFINE D == Elems(f)
             w == Now.warming \cup D
             m == Now.size + k
             q == [Now EXCEPT !.size = m, !.warming = w]
  <1>3. Now \in PoolStates /\ "initAsync" \in Uses
    BY DEF IInv, Good, Sane, InitAsync
  <1>4. Becomes(q)
    BY <1>1
  <1>5. D \subseteq Fresh(s) /\ IsFiniteSet(D) /\ Cardinality(D) = k
    BY <1>2, FreshListSize
  <1>6. w = Now.warming \cup D /\ m = Now.size + k
    OBVIOUS
  <1> HIDE DEF D, m, w
  <1>7. /\ q.avail = Now.avail /\ q.size = m /\ q.live = Now.live
        /\ q.used = Now.used /\ q.fifo = Now.fifo
        /\ q.pc = Now.pc /\ q.ref = Now.ref
        /\ q.opening = Now.opening /\ q.warming = w
        /\ q.tx = Now.tx /\ q.closing = Now.closing
    BY <1>3 DEF PoolStates
  <1> HIDE DEF q
  <1> QED
    BY <1>2, <1>3, <1>4, <1>5, <1>6, <1>7

(* An open that initAsync started has ended. *)
LEMMA InitAsyncDoneEffect ==
    ASSUME IInv, NEW d \in Conns, InitAsyncDone(d)
    PROVE  \E q :
              /\ Becomes(q) /\ d \in Now.warming
              /\ q.opening = Now.opening /\ q.warming = Now.warming \ {d}
              /\ q.used = Now.used /\ q.fifo = Now.fifo
              /\ q.pc = Now.pc /\ q.ref = Now.ref
              /\ q.tx = Now.tx /\ q.closing = Now.closing
              /\ \A t \in Strs : \A e \in Elems(q.avail[t]) :
                    e \in Elems(Now.avail[t]) \/ (e = d /\ d \in q.live)
              /\ \/ q.live = Now.live \cup {d} /\ q.size = Now.size
                 \/ /\ "open" \in Faults
                    /\ q.live = Now.live /\ q.size = Now.size - 1
  <1> DEFINE s == StrOf[d]
             w == Now.warming \ {d}
             l == Append(Now.avail[s], d)
             a == [Now.avail EXCEPT ![s] = l]
             v == Now.live \cup {d}
             y == Now.stamped \ {d}
             k == Now.size - 1
             q1 == [Now EXCEPT !.warming = w, !.avail = a, !.live = v,
                               !.stamped = y]
             q2 == [Now EXCEPT !.warming = w, !.size = k]
  <1>1. Now \in PoolStates /\ s \in Strs /\ d \in Now.warming
    BY NowFields, ConstantsAssumption DEF IInv, Good, Sane, InitAsyncDone
  <1>2. Becomes(q1) \/ ("open" \in Faults /\ Becomes(q2))
    <2> DEFINE p == [Now EXCEPT !.warming = @ \ {d}]
    <2>1. \/ Becomes([p EXCEPT !.avail[StrOf[d]] = Append(@, d),
                               !.live = @ \cup {d}, !.stamped = @ \ {d}])
          \/ "open" \in Faults /\ Becomes([p EXCEPT !.size = @ - 1])
      BY DEF InitAsyncDone
    <2>2. [p EXCEPT !.avail[StrOf[d]] = Append(@, d),
                    !.live = @ \cup {d}, !.stamped = @ \ {d}] = q1
      BY <1>1 DEF PoolStates
    <2>3. [p EXCEPT !.size = @ - 1] = q2
      BY <1>1 DEF PoolStates
    <2> HIDE DEF p, q1, q2
    <2> QED
      BY <2>1, <2>2, <2>3
  <1>3. \A t \in Strs : \A e \in Elems(a[t]) : e \in Elems(Now.avail[t]) \/ e = d
    <2>0. Now.avail[s] \in Seq(Conns)
      BY <1>1 DEF PoolStates
    <2>1. Elems(l) \subseteq Elems(Now.avail[s]) \cup {d}
      <3>1. DOMAIN l = 1 .. Len(Now.avail[s]) + 1
        BY <2>0
      <3>2. \A i \in DOMAIN l : l[i] = d \/ \E j \in DOMAIN Now.avail[s] :
                                               l[i] = Now.avail[s][j]
        BY <2>0, <3>1
      <3> HIDE DEF l
      <3> QED
        BY <3>2 DEF Elems
    <2> HIDE DEF l
    <2>2. a[s] = l /\ \A t \in Strs \ {s} : a[t] = Now.avail[t]
      BY <1>1 DEF PoolStates
    <2> HIDE DEF a, s
    <2> QED
      BY <2>1, <2>2
  <1>4. w = Now.warming \ {d} /\ v = Now.live \cup {d} /\ k = Now.size - 1
    OBVIOUS
  <1> HIDE DEF a, v, w, y, k, l, s
  <1>5. CASE Becomes(q1)
    <2>1. /\ q1.avail = a /\ q1.size = Now.size /\ q1.live = v
          /\ q1.used = Now.used /\ q1.fifo = Now.fifo
          /\ q1.pc = Now.pc /\ q1.ref = Now.ref
          /\ q1.opening = Now.opening /\ q1.warming = w
          /\ q1.tx = Now.tx /\ q1.closing = Now.closing
      BY <1>1 DEF PoolStates
    <2> HIDE DEF q1, q2
    <2>2. d \in q1.live
      BY <1>4, <2>1
    <2>3. \A t \in Strs : \A e \in Elems(q1.avail[t]) :
             e \in Elems(Now.avail[t]) \/ (e = d /\ d \in q1.live)
      BY <1>3, <2>1, <2>2
    <2> QED
      BY <1>1, <1>4, <1>5, <2>1, <2>3
  <1>6. CASE "open" \in Faults /\ Becomes(q2)
    <2>1. /\ q2.avail = Now.avail /\ q2.size = k /\ q2.live = Now.live
          /\ q2.used = Now.used /\ q2.fifo = Now.fifo
          /\ q2.pc = Now.pc /\ q2.ref = Now.ref
          /\ q2.opening = Now.opening /\ q2.warming = w
          /\ q2.tx = Now.tx /\ q2.closing = Now.closing
      BY <1>1 DEF PoolStates
    <2> HIDE DEF q1, q2
    <2>2. \A t \in Strs : \A e \in Elems(q2.avail[t]) :
             e \in Elems(Now.avail[t]) \/ (e = d /\ d \in q2.live)
      BY <2>1
    <2> QED
      BY <1>1, <1>4, <1>6, <2>1, <2>2
  <1> QED
    BY <1>2, <1>5, <1>6

LEMMA ConnectionLostEffect ==
    ASSUME IInv, NEW c \in Clients, ConnectionLost(c)
    PROVE  \E d, lost, idle, q :
              /\ d \in Conns
              /\ Becomes(q) /\ "lost" \in Faults
              /\ d \notin Starting(Now)
              /\ q = CheckConnectionError(Now, d, lost, idle)
  <1>1. PICK idle \in IdleSets, lost \in BOOLEAN :
           Becomes(CheckConnectionError(Now, ref[c], lost, idle))
    BY DEF ConnectionLost
  <1> DEFINE d == ref[c]
             q == CheckConnectionError(Now, d, lost, idle)
  <1>2. /\ Good(Now) /\ Now.pc[c] = "holding" /\ Now.ref[c] = d
        /\ "lost" \in Faults
    BY NowFields DEF IInv, ConnectionLost, MayLose
  <1>3. Becomes(q) /\ q = CheckConnectionError(Now, d, lost, idle)
    BY <1>1
  <1> HIDE DEF d, q
  <1>4. d \in Conns /\ d \notin Starting(Now)
    BY <1>2 DEF Good, Sane, Handles, Apart
  <1> QED
    BY <1>2, <1>3, <1>4

LEMMA BeginTransactionEffect ==
    ASSUME IInv, NEW c \in Clients, BeginTransaction(c)
    PROVE  \E d, q :
              /\ d \in Conns
              /\ Becomes(q)
              /\ Now.pc[c] = "holding" /\ d = Now.ref[c] /\ d \in Now.live
              /\ d \notin Starting(Now)
              /\ q.avail = Now.avail /\ q.used = Now.used /\ q.fifo = Now.fifo
              /\ q.pc = Now.pc /\ q.ref = Now.ref /\ q.size = Now.size
              /\ SameOpens(Now, q) /\ q.live = Now.live
              /\ q.closing = Now.closing /\ q.tx = Now.tx \cup {d}
  <1> DEFINE d == ref[c]
             t1 == Now.tx \cup {d}
             q == [Now EXCEPT !.tx = t1]
  <1>1. /\ Now \in PoolStates /\ Good(Now) /\ d = Now.ref[c]
        /\ Now.pc[c] = "holding" /\ d \in Now.live
    BY NowFields DEF IInv, Good, Sane, BeginTransaction
  <1>2. Becomes(q) /\ t1 = Now.tx \cup {d}
    BY DEF BeginTransaction
  <1> HIDE DEF t1, d
  <1>3. d \in Conns /\ d \notin Starting(Now)
    BY <1>1 DEF Good, Sane, Handles, Apart
  <1>4. /\ q.avail = Now.avail /\ q.used = Now.used /\ q.fifo = Now.fifo
        /\ q.pc = Now.pc /\ q.ref = Now.ref /\ q.size = Now.size
        /\ SameOpens(Now, q) /\ q.live = Now.live
        /\ q.closing = Now.closing /\ q.tx = t1
    BY <1>1 DEF PoolStates, SameOpens
  <1> HIDE DEF q
  <1> QED
    BY <1>1, <1>2, <1>3, <1>4

LEMMA RealCloseDoneEffect ==
    ASSUME IInv, NEW d \in Conns, RealCloseDone(d)
    PROVE  \E q :
              /\ Becomes(q) /\ d \in Now.closing
              /\ q.avail = Now.avail /\ q.used = Now.used /\ q.fifo = Now.fifo
              /\ q.pc = Now.pc /\ q.ref = Now.ref
              /\ SameOpens(Now, q)
              /\ q.closing = Now.closing \ {d} /\ q.live = Now.live \ {d}
              /\ q.tx = Now.tx \ {d}
              /\ q.size = Decremented(Now.size, 1)
  <1> DEFINE k == Decremented(Now.size, 1)
             v == Now.live \ {d}
             t1 == Now.tx \ {d}
             g == Now.closing \ {d}
             q == [Now EXCEPT !.closing = g, !.live = v, !.tx = t1, !.size = k]
  <1>1. Now \in PoolStates /\ d \in Now.closing
    BY NowFields DEF IInv, Good, Sane, RealCloseDone
  <1>2. Becomes(q)
    BY DEF RealCloseDone
  <1>3. /\ k = Decremented(Now.size, 1) /\ v = Now.live \ {d}
        /\ t1 = Now.tx \ {d} /\ g = Now.closing \ {d}
    OBVIOUS
  <1> HIDE DEF k, v, t1, g
  <1>4. /\ q.avail = Now.avail /\ q.used = Now.used /\ q.fifo = Now.fifo
        /\ q.pc = Now.pc /\ q.ref = Now.ref /\ SameOpens(Now, q)
        /\ q.closing = g /\ q.live = v /\ q.tx = t1 /\ q.size = k
    BY <1>1 DEF PoolStates, SameOpens
  <1> HIDE DEF q
  <1> QED
    BY <1>1, <1>2, <1>3, <1>4

-----------------------------------------------------------------------------
(* No request waits beside an idle connection; an idle connection has no    *)
(* transaction.                                                             *)

(* Prompt and Tidy depend on a part of the state. *)
LEMMA CalmFrame ==
    ASSUME NEW p, NEW q, q.avail = p.avail, q.fifo = p.fifo, q.tx = p.tx,
           q.live = p.live, q.opening = p.opening, q.warming = p.warming
    PROVE  /\ \A k : Prompt(p, k) => Prompt(q, k)
           /\ Tidy(p) => Tidy(q)
  BY DEF Prompt, Tidy, Starting

LEMMA CalmBecomes ==
    ASSUME NEW q, Becomes(q)
    PROVE  /\ \A k : Prompt(q, k) => Prompt(Now', k)
           /\ Tidy(q) => Tidy(Now')
  <1> DEFINE m == Now'
  <1>1. /\ m.avail = q.avail /\ m.fifo = q.fifo /\ m.tx = q.tx
        /\ m.live = q.live /\ m.opening = q.opening /\ m.warming = q.warming
    BY BecomesFields
  <1> HIDE DEF m
  <1>2. (\A k : Prompt(q, k) => Prompt(m, k)) /\ (Tidy(q) => Tidy(m))
    BY <1>1, CalmFrame
  <1> QED
    BY <1>2 DEF m

(* The inductive invariant of the two properties: while closes call back    *)
(* there may be as many connections idle as there are closes that have yet  *)
(* to run the queue.                                                        *)
CalmAt(k) ==
    /\ OneString /\ Uses \cap {"init", "initAsync"} = {} => Prompt(Now, k)
    /\ "reclose" \notin Uses => Tidy(Now)

CalmInv == CalmAt(Len(callbacks))

LEMMA CalmStep ==
    ASSUME NEW k \in Nat, CalmAt(k), NEW q, Becomes(q), Calm(Now, q)
    PROVE  CalmAt(k)'
  <1>1. (Prompt(q, k) => Prompt(Now', k)) /\ (Tidy(q) => Tidy(Now'))
    BY CalmBecomes
  <1> QED
    BY <1>1 DEF CalmAt, Calm, OneString

LEMMA BegunCalm ==
    ASSUME Sane(Now), NEW z, NEW c, NEW s, Begun(z, c, s)
    PROVE  Calm(Now, z)
  <1>1. ASSUME NEW k \in Nat, Prompt(Now, k)
        PROVE  Prompt(z, k)
    <2>1. ASSUME NEW t \in Strs
          PROVE  /\ Len(z.avail[t]) <= Len(Now.avail[t])
                 /\ Len(z.avail[t]) \in Nat /\ Len(Now.avail[t]) \in Nat
      <3>1. /\ Uniq(z.avail[t], t) /\ Uniq(Now.avail[t], t)
            /\ Elems(z.avail[t]) \subseteq Elems(Now.avail[t])
        BY DEF Begun, Sane, Lists
      <3>2. Len(z.avail[t]) <= Len(Now.avail[t])
        BY <3>1, ShorterList
      <3> QED
        BY <3>1, <3>2 DEF Uniq
    <2>2. z.fifo = Now.fifo
      BY DEF Begun
    <2> QED
      BY <1>1, <2>1, <2>2 DEF Prompt
  <1>2. Starting(z) = Starting(Now)
    BY DEF Begun, SameOpens, Starting
  <1>3. Tidy(Now) => Tidy(z)
    BY <1>2 DEF Begun, Tidy
  <1> QED
    BY <1>1, <1>3 DEF Calm

LEMMA ServedCalm ==
    ASSUME NEW z, NEW q, NEW c \in Clients, NEW s \in Strs, Sane(z),
           Served(z, q, c, s)
    PROVE  Calm(z, q)
  <1>1. /\ z.avail[s] # <<>> /\ Taken(z, q, s, Head(z.avail[s]))
        /\ SameRest(z, q) /\ q.fifo = z.fifo
    BY DEF Served
  <1>2. \A t \in Strs : Elems(q.avail[t]) \subseteq Elems(z.avail[t])
    BY <1>1, TakenElems
  <1>3. ASSUME NEW k \in Nat, Prompt(z, k)
        PROVE  Prompt(q, k)
    <2>1. /\ q.avail[s] = Tail(z.avail[s]) /\ z.avail[s] \in Seq(Conns)
          /\ \A t \in Strs \ {s} : q.avail[t] = z.avail[t]
      BY <1>1 DEF Taken, Sane, PoolStates
    <2>2. z.fifo # <<>> => Len(q.avail[s]) <= k
      BY <1>1, <1>3, <2>1 DEF Prompt
    <2> QED
      BY <1>1, <1>3, <2>1, <2>2 DEF Prompt
  <1>4. Starting(q) = Starting(z)
    BY <1>1 DEF SameRest, SameOpens, Starting
  <1>5. Tidy(z) => Tidy(q)
    BY <1>1, <1>2, <1>4 DEF SameRest, Tidy
  <1> QED
    BY <1>3, <1>5 DEF Calm

LEMMA ParkedCalm ==
    ASSUME NEW z, NEW q, NEW c, NEW s \in Strs,
           z.avail[s] = <<>>, Parked(z, q, c, s)
    PROVE  Calm(z, q)
  <1>1. ASSUME NEW k \in Nat, OneString
        PROVE  Prompt(q, k)
    <2>1. \A t \in Strs : q.avail[t] = <<>>
      BY <1>1 DEF OneString, Parked
    <2>2. Len(<<>>) = 0
      OBVIOUS
    <2> QED
      BY <2>1, <2>2 DEF Prompt
  <1>2. Tidy(z) => Tidy(q)
    BY DEF Parked, SameRest, SameOpens, Tidy, Starting
  <1> QED
    BY <1>1, <1>2 DEF Calm

LEMMA OpenedCalm ==
    ASSUME NEW z, NEW q, NEW c, NEW d, Opened(z, q, c, d)
    PROVE  Calm(z, q)
  <1>1. \A k : Prompt(z, k) => Prompt(q, k)
    BY DEF Opened, Prompt
  <1>2. Starting(q) = Starting(z)
    BY DEF Opened, SameOpens, Starting
  <1>3. Tidy(z) => Tidy(q)
    BY <1>2 DEF Opened, Tidy
  <1> QED
    BY <1>1, <1>3 DEF Calm

LEMMA OpenCalm ==
    ASSUME IInv, NEW k \in Nat, CalmAt(k), NEW c \in Clients, NEW s \in Strs, Open(c, s)
    PROVE  CalmAt(k)'
  <1>1. PICK z, q :
           /\ Now.pc[c] = "idle" /\ Begun(z, c, s) /\ Becomes(q)
           /\ \/ Served(z, q, c, s)
              \/ /\ z.avail[s] = <<>> /\ Full(z) /\ Parked(z, q, c, s)
                 /\ q.pc = [z.pc EXCEPT ![c] = "queued"]
              \/ /\ z.avail[s] = <<>> /\ ~Full(z)
                 /\ \E d \in Fresh(s) : Starts(z, q, c, d)
    BY OpenEffect
  <1>2. Calm(Now, z) /\ Sane(z) /\ z.live = Now.live
    BY <1>1, BegunCalm DEF Begun, IInv, Good
  <1>3. ASSUME Served(z, q, c, s)
        PROVE  Calm(z, q)
    BY <1>2, <1>3, ServedCalm
  <1>4. ASSUME z.avail[s] = <<>>, Parked(z, q, c, s)
        PROVE  Calm(z, q)
    BY <1>2, <1>4, ParkedCalm
  <1>5. ASSUME NEW d \in Fresh(s), Starts(z, q, c, d)
        PROVE  Calm(z, q)
    <2>1. Starts(z, q, c, d)
      BY <1>5
    <2>2. d \notin Now.live
      BY FreshUnknown
    <2>3. \A j : Prompt(z, j) => Prompt(q, j)
      BY <2>1 DEF Starts, Prompt
    <2>4. \A e \in Starting(q) : e \in Starting(z) \/ e = d
      BY <2>1 DEF Starts, Starting
    <2>5. Tidy(z) => Tidy(q)
      BY <1>2, <2>1, <2>2, <2>4 DEF Starts, Tidy
    <2> QED
      BY <2>3, <2>5 DEF Calm
  <1>6. Calm(z, q)
    BY <1>1, <1>3, <1>4, <1>5
  <1>7. Calm(Now, q)
    BY <1>2, <1>6 DEF Calm
  <1> QED
    BY <1>1, <1>7, CalmStep

LEMMA OpenSyncCalm ==
    ASSUME IInv, NEW k \in Nat, CalmAt(k), NEW c \in Clients, NEW s \in Strs, OpenSync(c, s)
    PROVE  CalmAt(k)'
  <1>1. PICK z, q :
           /\ Now.pc[c] = "idle" /\ Begun(z, c, s) /\ Becomes(q)
           /\ \/ Served(z, q, c, s)
              \/ /\ z.avail[s] = <<>> /\ Full(z) /\ Parked(z, q, Nobody, s)
                 /\ q.pc = z.pc
              \/ /\ z.avail[s] = <<>> /\ ~Full(z)
                 /\ \E d \in Fresh(s) : Opened(z, q, c, d)
                 /\ q.size = z.size + 1
              \/ q = z
    BY OpenSyncEffect
  <1>2. Calm(Now, z) /\ Sane(z)
    BY <1>1, BegunCalm DEF Begun, IInv, Good
  <1>3. Calm(z, z)
    BY DEF Calm
  <1>4. Calm(z, q)
    BY <1>1, <1>2, <1>3, ServedCalm, ParkedCalm, OpenedCalm
  <1>5. Calm(Now, q)
    BY <1>2, <1>4 DEF Calm
  <1> QED
    BY <1>1, <1>5, CalmStep

LEMMA OpenDoneCalm ==
    ASSUME IInv, NEW k \in Nat, CalmAt(k), NEW d \in Conns, OpenDone(d)
    PROVE  CalmAt(k)'
  <1>1. PICK c, z, q :
           /\ Ended(z, d, c) /\ Becomes(q)
           /\ \/ Opened(z, q, c, d) /\ q.size = z.size
              \/ /\ "open" \in Faults
                 /\ SameOpens(z, q) /\ q.live = z.live /\ q.tx = z.tx
                 /\ q.closing = z.closing /\ q.fifo = z.fifo
                 /\ q.avail = z.avail /\ q.used = z.used
                 /\ q.ref = z.ref /\ q.pc = [z.pc EXCEPT ![c] = "idle"]
                 /\ q.size = z.size - 1
    BY OpenDoneEffect
  <1>2. Calm(Now, z)
    <2>1. \A e \in Starting(z) : e \in Starting(Now)
      BY <1>1 DEF Ended, Starting
    <2>2. \A j : Prompt(Now, j) => Prompt(z, j)
      BY <1>1 DEF Ended, Prompt
    <2>3. Tidy(Now) => Tidy(z)
      BY <1>1, <2>1 DEF Ended, Tidy
    <2> QED
      BY <2>2, <2>3 DEF Calm
  <1>3. ASSUME Opened(z, q, c, d)
        PROVE  Calm(z, q)
    BY <1>3, OpenedCalm
  <1>4. ASSUME SameOpens(z, q), q.live = z.live, q.tx = z.tx,
               q.fifo = z.fifo, q.avail = z.avail
        PROVE  Calm(z, q)
    BY <1>4, CalmFrame DEF SameOpens, Calm
  <1>5. Calm(Now, q)
    BY <1>1, <1>2, <1>3, <1>4 DEF Calm
  <1> QED
    BY <1>1, <1>5, CalmStep

LEMMA LetsGoCalm ==
    ASSUME NEW z, NEW c, NEW d, LetsGo(z, c, d)
    PROVE  Calm(Now, z) /\ Sane(z) /\ d \in Conns /\ d \notin Starting(z)
  BY CalmFrame DEF LetsGo, SameRest, SameOpens, Calm

LEMMA CloseCalm ==
    ASSUME NEW k \in Nat, CalmAt(k), NEW z, NEW c, NEW d, NEW idle, NEW q, NEW lost,
           LetsGo(z, c, d), Becomes(q),
           \/ q = PoolClose(z, d, idle)
           \/ q = PoolCloseSync(z, d, lost, idle)
    PROVE  CalmAt(k)'
  <1>1. Calm(Now, z) /\ Sane(z) /\ d \in Conns /\ d \notin Starting(z)
    BY LetsGoCalm
  <1>2. CASE q = PoolClose(z, d, idle)
    <2>1. Calm(z, q)
      BY <1>1, <1>2, PoolCloseEffect DEF Calm
    <2> QED
      BY <1>1, <2>1, CalmStep DEF Calm
  <1>3. CASE q = PoolCloseSync(z, d, lost, idle)
    <2>1. Calm(z, q)
      BY <1>1, <1>3, PoolCloseSyncCalm
    <2> QED
      BY <1>1, <2>1, CalmStep DEF Calm
  <1> QED
    BY <1>2, <1>3

LEMMA ConnectionLostCalm ==
    ASSUME IInv, NEW k \in Nat, CalmAt(k), NEW c \in Clients, ConnectionLost(c)
    PROVE  CalmAt(k)'
  <1>1. PICK d, lost, idle, q :
           /\ d \in Conns
           /\ Becomes(q) /\ d \notin Starting(Now)
           /\ q = CheckConnectionError(Now, d, lost, idle)
    BY ConnectionLostEffect
  <1>2. Sane(Now)
    BY DEF IInv, Good
  <1>3. Calm(Now, q)
    BY <1>1, <1>2, CheckConnectionErrorCalm
  <1> QED
    BY <1>1, <1>3, CalmStep

LEMMA BeginTransactionCalm ==
    ASSUME IInv, NEW k \in Nat, CalmAt(k), NEW c \in Clients, BeginTransaction(c)
    PROVE  CalmAt(k)'
  <1>1. PICK d, q :
           /\ d \in Conns
           /\ Becomes(q)
           /\ Now.pc[c] = "holding" /\ d = Now.ref[c] /\ d \in Now.live
           /\ d \notin Starting(Now)
           /\ q.avail = Now.avail /\ q.used = Now.used /\ q.fifo = Now.fifo
           /\ q.pc = Now.pc /\ q.ref = Now.ref /\ q.size = Now.size
           /\ SameOpens(Now, q) /\ q.live = Now.live
           /\ q.closing = Now.closing /\ q.tx = Now.tx \cup {d}
    BY BeginTransactionEffect
  <1>2. \A j : Prompt(Now, j) => Prompt(q, j)
    BY <1>1 DEF Prompt
  <1>3. ASSUME "reclose" \notin Uses, Tidy(Now)
        PROVE  Tidy(q)
    <2>1. d \notin Elems(Now.avail[StrOf[d]])
      BY <1>1, <1>3 DEF IInv, Good, Exclusive
    <2>2. \A s \in Strs : Elems(Now.avail[s]) \subseteq {e \in Conns : StrOf[e] = s}
      BY ElemsTyped DEF IInv, Good, Sane, Lists
    <2>3. \A s \in Strs : d \notin Elems(Now.avail[s])
      BY <2>1, <2>2
    <2>4. Starting(q) = Starting(Now)
      BY <1>1 DEF SameOpens, Starting
    <2> QED
      BY <1>1, <1>3, <2>3, <2>4 DEF Tidy
  <1>4. (Prompt(q, k) => Prompt(Now', k)) /\ (Tidy(q) => Tidy(Now'))
    BY <1>1, CalmBecomes
  <1> QED
    BY <1>2, <1>3, <1>4 DEF CalmAt, OneString

LEMMA RealCloseDoneCalm ==
    ASSUME IInv, NEW k \in Nat, CalmAt(k), NEW d \in Conns, RealCloseDone(d)
    PROVE  CalmAt(k)'
  <1>1. PICK q :
           /\ Becomes(q) /\ d \in Now.closing
           /\ q.avail = Now.avail /\ q.used = Now.used /\ q.fifo = Now.fifo
           /\ q.pc = Now.pc /\ q.ref = Now.ref
           /\ SameOpens(Now, q)
           /\ q.closing = Now.closing \ {d} /\ q.live = Now.live \ {d}
           /\ q.tx = Now.tx \ {d}
           /\ q.size = Decremented(Now.size, 1)
    BY RealCloseDoneEffect
  <1>2. \A j : Prompt(Now, j) => Prompt(q, j)
    BY <1>1 DEF Prompt
  <1>3. Tidy(Now) => Tidy(q)
    BY <1>1 DEF Tidy, SameOpens, Starting
  <1> QED
    BY <1>1, <1>2, <1>3, CalmStep DEF Calm

LEMMA InitSyncCalm ==
    ASSUME IInv, NEW k \in Nat, CalmAt(k), NEW n \in InitCounts, NEW s \in Strs, InitSync(n, s)
    PROVE  CalmAt(k)'
  <1>1. PICK q, D, m :
           /\ Becomes(q) /\ "init" \in Uses
           /\ D \subseteq Fresh(s)
           /\ \A t \in Strs : \A e \in Elems(q.avail[t]) :
                 e \in Elems(Now.avail[t]) \/ e \in D
           /\ SameOpens(Now, q) /\ q.tx = Now.tx
           /\ q.live = Now.live \cup D
    BY InitSyncEffect
  <1>2. \A e \in D : e \notin Now.live
    BY <1>1, FreshUnknown
  <1>3. Starting(q) = Starting(Now)
    BY <1>1 DEF SameOpens, Starting
  <1>4. Tidy(Now) => Tidy(q)
    BY <1>1, <1>2, <1>3 DEF Tidy
  <1>5. Tidy(q) => Tidy(Now')
    BY <1>1, CalmBecomes
  <1> QED
    BY <1>1, <1>4, <1>5 DEF CalmAt, OneString

LEMMA InitAsyncCalm ==
    ASSUME IInv, NEW k \in Nat, CalmAt(k), NEW n \in InitCounts, NEW s \in Strs, InitAsync(n, s)
    PROVE  CalmAt(k)'
  <1>1. PICK q, D, m :
           /\ Becomes(q) /\ "initAsync" \in Uses
           /\ D \subseteq Fresh(s)
           /\ q.avail = Now.avail /\ q.tx = Now.tx /\ q.live = Now.live
           /\ q.opening = Now.opening /\ q.warming = Now.warming \cup D
    BY InitAsyncEffect
  <1>2. \A e \in D : e \notin Now.live
    BY <1>1, FreshUnknown
  <1>3. Starting(q) = Starting(Now) \cup D
    BY <1>1 DEF Starting
  <1>4. Tidy(Now) => Tidy(q)
    BY <1>1, <1>2, <1>3 DEF Tidy
  <1>5. Tidy(q) => Tidy(Now')
    BY <1>1, CalmBecomes
  <1> QED
    BY <1>1, <1>4, <1>5 DEF CalmAt, OneString

(* Only initAsync leaves opens of its own running. *)
LEMMA InitAsyncDoneCalm ==
    ASSUME IInv, NEW k \in Nat, CalmAt(k), NEW d \in Conns, InitAsyncDone(d),
           "initAsync" \notin Uses => Now.warming = {}
    PROVE  CalmAt(k)'
  <1>1. PICK q :
           /\ Becomes(q) /\ d \in Now.warming
           /\ q.opening = Now.opening /\ q.warming = Now.warming \ {d}
           /\ q.tx = Now.tx
           /\ \A t \in Strs : \A e \in Elems(q.avail[t]) :
                 e \in Elems(Now.avail[t]) \/ (e = d /\ d \in q.live)
           /\ q.live = Now.live \cup {d} \/ q.live = Now.live
    BY InitAsyncDoneEffect
  <1>2. d \in Starting(Now) /\ Starting(q) \subseteq Starting(Now)
    BY <1>1 DEF Starting
  <1>3. Tidy(Now) => Tidy(q)
    BY <1>1, <1>2 DEF Tidy
  <1>4. Tidy(q) => Tidy(Now')
    BY <1>1, CalmBecomes
  <1> QED
    BY <1>1, <1>3, <1>4 DEF CalmAt, OneString

(* Only initAsync opens connections that no client waits for. *)
NoneWarming == "initAsync" \notin Uses => Now.warming = {}

LEMMA NoneWarmingNext ==
    ASSUME CInv, NoneWarming, [Next]_vars
    PROVE  NoneWarming'
  <1> USE DEF CInv
  <1>0. ASSUME NEW q, Becomes(q), q.warming = Now.warming
        PROVE  NoneWarming'
    BY <1>0, BecomesFields DEF NoneWarming
  <1>1. ASSUME NEW c \in Clients, NEW s \in Strs, Open(c, s) PROVE NoneWarming'
    <2>1. PICK z, q : /\ Begun(z, c, s) /\ Becomes(q)
                      /\ \/ Served(z, q, c, s)
                         \/ Parked(z, q, c, s)
                         \/ \E d \in Fresh(s) : Starts(z, q, c, d)
      BY <1>1, OpenEffect
    <2>2. z.warming = Now.warming
      BY <2>1 DEF Begun, SameOpens
    <2>3. q.warming = z.warming
      BY <2>1 DEF Served, Parked, Starts, SameRest, SameOpens
    <2> QED
      BY <1>0, <2>1, <2>2, <2>3
  <1>2. ASSUME NEW c \in Clients, NEW s \in Strs, OpenSync(c, s)
        PROVE  NoneWarming'
    <2>1. PICK z, q : /\ Begun(z, c, s) /\ Becomes(q)
                      /\ \/ Served(z, q, c, s)
                         \/ Parked(z, q, Nobody, s)
                         \/ \E d \in Fresh(s) : Opened(z, q, c, d)
                         \/ q = z
      BY <1>2, OpenSyncEffect
    <2>2. z.warming = Now.warming
      BY <2>1 DEF Begun, SameOpens
    <2>3. q.warming = z.warming
      BY <2>1 DEF Served, Parked, Opened, SameRest, SameOpens
    <2> QED
      BY <1>0, <2>1, <2>2, <2>3
  <1>3. ASSUME NEW z, NEW c, NEW d, NEW idle, NEW q, NEW lost,
               LetsGo(z, c, d), Becomes(q),
               \/ q = PoolClose(z, d, idle)
               \/ q = PoolCloseSync(z, d, lost, idle)
        PROVE  NoneWarming'
    <2>1. z.warming = Now.warming /\ Sane(z) /\ d \in Conns /\ d \notin Starting(z)
      BY <1>3 DEF LetsGo, SameRest, SameOpens
    <2>2. SameOpens(z, q)
      <3>1. CASE q = PoolClose(z, d, idle)
        BY <2>1, <3>1, PoolCloseKeeps
      <3>2. CASE q = PoolCloseSync(z, d, lost, idle)
        BY <2>1, <3>2, PoolCloseSyncKeeps
      <3> QED
        BY <1>3, <3>1, <3>2
    <2> QED
      BY <1>0, <1>3, <2>1, <2>2 DEF SameOpens
  <1>4. ASSUME NEW c \in Clients, Close(c) PROVE NoneWarming'
    BY <1>3, <1>4, CloseEffect
  <1>5. ASSUME NEW c \in Clients, CloseSync(c) PROVE NoneWarming'
    BY <1>3, <1>5, CloseSyncEffect
  <1>6. ASSUME NEW c \in Clients, CloseAgain(c) PROVE NoneWarming'
    BY <1>3, <1>6, CloseAgainEffect
  <1>7. ASSUME NEW c \in Clients, ConnectionLost(c) PROVE NoneWarming'
    <2>1. PICK d, lost, idle, q :
             /\ d \in Conns
             /\ Becomes(q) /\ d \notin Starting(Now)
             /\ q = CheckConnectionError(Now, d, lost, idle)
      BY <1>7, ConnectionLostEffect
    <2> DEFINE r == PoolCloseSync(Now, d, lost, idle)
    <2>2. q = CloseAllNow(r, d) /\ r = PoolCloseSync(Now, d, lost, idle)
      BY <2>1 DEF CheckConnectionError
    <2> HIDE DEF r
    <2>3. Sane(r) /\ SameOpens(Now, r)
      BY <2>1, <2>2, PoolCloseSyncKeeps, Z3 DEF IInv, Good
    <2>4. q.warming = r.warming
      BY <2>2, <2>3 DEF CloseAllNow, Sane, PoolStates
    <2> QED
      BY <1>0, <2>1, <2>3, <2>4 DEF SameOpens
  <1>8. ASSUME NEW c \in Clients, BeginTransaction(c) PROVE NoneWarming'
    BY <1>0, <1>8, BeginTransactionEffect DEF SameOpens
  <1>9. ASSUME NEW d \in Conns, OpenDone(d) PROVE NoneWarming'
    <2>1. PICK c, z, q : /\ Ended(z, d, c) /\ Becomes(q)
                         /\ Opened(z, q, c, d) \/ SameOpens(z, q)
      BY <1>9, OpenDoneEffect
    <2>2. z.warming = Now.warming /\ q.warming = z.warming
      BY <2>1 DEF Ended, Opened, SameOpens
    <2> QED
      BY <1>0, <2>1, <2>2
  <1>10. ASSUME NEW d \in Conns, RealCloseDone(d) PROVE NoneWarming'
    BY <1>0, <1>10, RealCloseDoneEffect DEF SameOpens
  <1>11. ASSUME NEW d \in Conns, InitAsyncDone(d) PROVE NoneWarming'
    BY <1>11, InitAsyncDoneEffect, BecomesFields DEF NoneWarming
  <1>12. ASSUME NEW s \in Strs, NEW n \in InitCounts, InitSync(n, s)
         PROVE  NoneWarming'
    BY <1>0, <1>12, InitSyncEffect DEF SameOpens
  <1>13. ASSUME NEW s \in Strs, NEW n \in InitCounts, InitAsync(n, s)
         PROVE  NoneWarming'
    BY <1>13, InitAsyncEffect DEF NoneWarming
  <1>14. ASSUME NEW n \in NewSizes, SetMaxPoolSize(n) PROVE NoneWarming'
    BY <1>14 DEF SetMaxPoolSize, poolVars, Now, NoneWarming
  <1>15. CASE UNCHANGED vars
    BY <1>15 DEF vars, poolVars, Now, NoneWarming
  <1>16. ASSUME NEW c \in Clients, CloseCallsBack(c) \/ CloseAgainCallsBack(c)
         PROVE  NoneWarming'
    <2>1. PICK z, d, g : /\ LetsGo(z, c, d) /\ Becomes(g)
                         /\ BackOnOffer(z, g, d)
      BY <1>16, CloseCallsBackEffect
    <2>2. g.warming = z.warming /\ z.warming = Now.warming
      BY <2>1 DEF LetsGo, SameRest, SameOpens, BackOnOffer, Returned
    <2> QED
      BY <1>0, <2>1, <2>2
  <1>17. CASE CallbackReturns
    <2>1. PICK d, idle, n : /\ d \in Conns
                            /\ Becomes(n) /\ n = Wakes(Now, d, idle)
      BY <1>17, CallbackReturnsEffect
    <2>2. SameOpens(Now, n)
      BY <2>1, WakesEffect DEF IInv, Good
    <2> QED
      BY <1>0, <2>1, <2>2 DEF SameOpens
  <1> QED
    BY <1>1, <1>2, <1>4, <1>5, <1>6, <1>7, <1>8, <1>9, <1>10, <1>11, <1>12,
       <1>13, <1>14, <1>15, <1>16, <1>17 DEF Next, Calls, Delivers

LEMMA CalmCalls ==
    ASSUME IInv, NoneWarming, NEW k \in Nat, CalmAt(k),
           Calls \/ \E d \in Conns : Delivers(d)
    PROVE  CalmAt(k)'
  <1>1. ASSUME NEW c \in Clients, NEW s \in Strs, Open(c, s) PROVE CalmAt(k)'
    BY <1>1, OpenCalm
  <1>2. ASSUME NEW c \in Clients, NEW s \in Strs, OpenSync(c, s) PROVE CalmAt(k)'
    BY <1>2, OpenSyncCalm
  <1>3. ASSUME NEW c \in Clients, Close(c) PROVE CalmAt(k)'
    BY <1>3, CloseEffect, CloseCalm
  <1>4. ASSUME NEW c \in Clients, CloseSync(c) PROVE CalmAt(k)'
    BY <1>4, CloseSyncEffect, CloseCalm
  <1>5. ASSUME NEW c \in Clients, CloseAgain(c) PROVE CalmAt(k)'
    BY <1>5, CloseAgainEffect, CloseCalm
  <1>6. ASSUME NEW c \in Clients, ConnectionLost(c) PROVE CalmAt(k)'
    BY <1>6, ConnectionLostCalm
  <1>7. ASSUME NEW c \in Clients, BeginTransaction(c) PROVE CalmAt(k)'
    BY <1>7, BeginTransactionCalm
  <1>8. ASSUME NEW d \in Conns, OpenDone(d) PROVE CalmAt(k)'
    BY <1>8, OpenDoneCalm
  <1>9. ASSUME NEW d \in Conns, RealCloseDone(d) PROVE CalmAt(k)'
    BY <1>9, RealCloseDoneCalm
  <1>10. ASSUME NEW d \in Conns, InitAsyncDone(d) PROVE CalmAt(k)'
    BY <1>10, InitAsyncDoneCalm DEF NoneWarming
  <1>11. ASSUME NEW s \in Strs, NEW n \in InitCounts, InitSync(n, s)
         PROVE  CalmAt(k)'
    BY <1>11, InitSyncCalm
  <1>12. ASSUME NEW s \in Strs, NEW n \in InitCounts, InitAsync(n, s)
         PROVE  CalmAt(k)'
    BY <1>12, InitAsyncCalm
  <1>13. CASE Now' = Now
    BY <1>13 DEF CalmAt, OneString
  <1>14. ASSUME NEW n \in NewSizes, SetMaxPoolSize(n) PROVE CalmAt(k)'
    BY <1>13, <1>14 DEF SetMaxPoolSize, poolVars, Now
  <1> QED
    BY <1>1, <1>2, <1>3, <1>4, <1>5, <1>6, <1>7, <1>8, <1>9, <1>10, <1>11,
       <1>12, <1>14 DEF Calls, Delivers

LEMMA BackOnOfferCalm ==
    ASSUME NEW z, NEW g, NEW d \in Conns, Sane(z), BackOnOffer(z, g, d)
    PROVE  /\ \A k \in Nat : Prompt(z, k) => Prompt(g, k + 1)
           /\ Tidy(z) => Tidy(g)
  <1>1. /\ \A t \in Strs : Elems(g.avail[t])
              \subseteq Elems(z.avail[t]) \cup ({d} \cap z.live)
        /\ \A k \in Nat : Prompt(z, k) => Prompt(g, k + 1)
    BY ReturnedGives DEF BackOnOffer
  <1>2. g.live = z.live /\ g.tx = z.tx \ {d} /\ SameOpens(z, g)
    BY DEF BackOnOffer, Returned
  <1>3. Starting(g) = Starting(z)
    BY <1>2 DEF SameOpens, Starting
  <1>4. ASSUME Tidy(z), NEW t \in Strs
        PROVE  Elems(g.avail[t]) \cap g.tx = {}
    BY <1>1, <1>2, <1>4 DEF Tidy
  <1>5. Tidy(z) => g.tx \subseteq g.live /\ Starting(g) \cap g.tx = {}
    BY <1>2, <1>3 DEF Tidy
  <1> QED
    BY <1>1, <1>4, <1>5 DEF Tidy

LEMMA CalmNext ==
    ASSUME CInv, NoneWarming, CalmInv, [Next]_vars
    PROVE  CalmInv'
  <1>0. Len(callbacks) \in Nat
    BY DEF CInv
  <1>2. PICK k \in Nat : k = Len(callbacks)
    BY <1>0
  <1>1. IInv /\ callbacks \in Seq(Conns) /\ k \in Nat /\ CalmAt(k)
    BY <1>2 DEF CInv, CalmInv
  <1>3. ASSUME Calls \/ \E d \in Conns : Delivers(d), UNCHANGED callbacks
        PROVE  CalmInv'
    <2>1. CalmAt(k)'
      BY <1>1, <1>3, CalmCalls
    <2>2. Len(callbacks') = k
      BY <1>2, <1>3
    <2> QED
      BY <2>1, <2>2 DEF CalmInv
  <1>4. ASSUME NEW c \in Clients, CloseCallsBack(c) \/ CloseAgainCallsBack(c)
        PROVE  CalmInv'
    <2>1. PICK z, d, g : /\ LetsGo(z, c, d) /\ Becomes(g)
                         /\ BackOnOffer(z, g, d)
                         /\ callbacks' = <<d>> \o callbacks
      BY <1>1, <1>4, CloseCallsBackEffect
    <2>2. Calm(Now, z) /\ Sane(z) /\ d \in Conns
      BY <2>1, LetsGoCalm
    <2>3. (Prompt(z, k) => Prompt(g, k + 1)) /\ (Tidy(z) => Tidy(g))
      BY <1>1, <2>1, <2>2, BackOnOfferCalm
    <2>4. Len(callbacks') = k + 1
      BY <1>1, <1>2, <2>1, <2>2
    <2>5. (Prompt(g, k + 1) => Prompt(Now', k + 1)) /\ (Tidy(g) => Tidy(Now'))
      BY <2>1, CalmBecomes
    <2> QED
      BY <1>1, <2>2, <2>3, <2>4, <2>5 DEF CalmInv, CalmAt, Calm, OneString
  <1>5. CASE CallbackReturns
    <2>1. PICK d, idle, n :
             /\ d \in Conns
             /\ Becomes(n) /\ n = Wakes(Now, d, idle)
             /\ callbacks # <<>> /\ callbacks' = Tail(callbacks)
      BY <1>1, <1>5, CallbackReturnsEffect
    <2>2. Sane(Now)
      BY <1>1 DEF IInv, Good
    <2>3. /\ n.live = Now.live /\ n.tx = Now.tx /\ SameOpens(Now, n)
          /\ Given(Now, n, Nobody)
          /\ \A j \in Nat : OneString /\ Prompt(Now, j + 1) => Prompt(n, j)
      BY <2>1, <2>2, WakesEffect
    <2>4. PICK j \in Nat : k = j + 1 /\ Len(callbacks') = j
      <3>1. Len(Tail(callbacks)) = k - 1 /\ k - 1 \in Nat
        BY <1>1, <1>2, <2>1
      <3> QED
        BY <1>1, <2>1, <3>1
    <2>5. Tidy(Now) => Tidy(n)
      <3>1. Starting(n) = Starting(Now)
        BY <2>3 DEF SameOpens, Starting
      <3>2. \A t \in Strs : Elems(n.avail[t]) \subseteq Elems(Now.avail[t])
                \cup ({Nobody} \cap Now.live)
        BY <2>3 DEF Given
      <3>3. Nobody \notin Now.live
        BY <2>2, ConstantsAssumption DEF Sane, PoolStates
      <3> QED
        BY <2>3, <3>1, <3>2, <3>3 DEF Tidy
    <2>6. (Prompt(n, j) => Prompt(Now', j)) /\ (Tidy(n) => Tidy(Now'))
      BY <2>1, CalmBecomes
    <2> QED
      BY <1>1, <2>3, <2>4, <2>5, <2>6 DEF CalmInv, CalmAt, OneString
  <1>6. CASE UNCHANGED vars
    <2>1. Now' = Now /\ callbacks' = callbacks
      BY <1>6 DEF vars, poolVars, Now
    <2> QED
      BY <2>1 DEF CalmInv, CalmAt, OneString
  <1> QED
    BY <1>3, <1>4, <1>5, <1>6 DEF Next

LEMMA InitCalm == Init => NoneWarming /\ CalmInv
  <1> SUFFICES ASSUME Init PROVE NoneWarming /\ CalmInv
    OBVIOUS
  <1>1. /\ Now.fifo = <<>> /\ Now.tx = {} /\ Now.warming = {}
    BY NowFields DEF Init
  <1> QED
    BY <1>1 DEF NoneWarming, CalmInv, CalmAt, Prompt, Tidy

LEMMA SpecCalm == Spec => [](NoneWarming /\ CalmInv)
  <1>1. CInv /\ (NoneWarming /\ CalmInv) /\ [Next]_vars
           => (NoneWarming /\ CalmInv)'
    BY NoneWarmingNext, CalmNext
  <1> QED
    BY <1>1, InitCalm, SpecCInv, PTL DEF Spec

(* An application with one connection string that does not use init or      *)
(* initAsync, which put connections on offer without running the queue:     *)
(* whatever fails, and with every option, no request waits while a          *)
(* connection it could use is idle.                                         *)
THEOREM NobodyWaitsBesideAnIdleConnection ==
    ASSUME \A s, t \in Strs : s = t,
           Uses \cap {"init", "initAsync"} = {}
    PROVE  Spec => []NoIdleWhileWaiting
  <1>1. IInv /\ CalmInv => NoIdleWhileWaiting
    <2> SUFFICES ASSUME IInv, CalmInv, callbacks = <<>>, NEW i \in DOMAIN fifo
                 PROVE  availablePool[fifo[i].str] = <<>>
      BY DEF NoIdleWhileWaiting
    <2>1. Prompt(Now, 0)
      BY DEF CalmInv, CalmAt, OneString
    <2>2. fifo \in Seq(Requests) /\ availablePool \in [Strs -> Seq(Conns)]
      BY NowFields DEF IInv, Good, Sane, PoolStates
    <2>3. fifo[i] \in Requests /\ fifo # <<>>
      BY <2>2
    <2>4. fifo[i].str \in Strs
      BY <2>3 DEF Requests
    <2>5. Len(availablePool[fifo[i].str]) <= 0
      BY <2>1, <2>3, <2>4, NowFields DEF Prompt
    <2> QED
      BY <2>2, <2>4, <2>5
  <1> QED
    BY <1>1, SpecIInv, SpecCalm, PTL

(* As long as no application closes a connection it has closed before, a    *)
(* connection on offer never has a transaction open, whatever fails.        *)
THEOREM IdleConnectionsAreClean ==
    ASSUME "reclose" \notin Uses
    PROVE  Spec => []IdleHasNoTransaction
  <1>1. CalmInv => IdleHasNoTransaction
    <2> SUFFICES ASSUME CalmInv PROVE IdleHasNoTransaction
      OBVIOUS
    <2>1. \A s \in Strs : Elems(availablePool[s]) \cap inTransaction = {}
      BY NowFields DEF CalmInv, CalmAt, Tidy
    <2> QED
      BY <2>1 DEF IdleHasNoTransaction, AllOf
  <1> QED
    BY <1>1, SpecCalm, PTL

-----------------------------------------------------------------------------
(* poolSize is exact, and stays within maxPoolSize: the pool of an          *)
(* application that closes every connection once, or has not set            *)
(* autoCleanIdle, on a server that never drops one.                         *)

NoneDropped == "lost" \notin Faults /\ ("reclose" \notin Uses \/ ~AutoClean)

Known(p) == p.live \cup Starting(p)

(* What a client refers to works. *)
Owned(p) == \A c \in Clients : p.ref[c] \in p.live \cup {Nobody}

(* All connections the pool and its clients have work, and are counted.     *)
Alive(p) ==
    /\ \A s \in Strs : \A e \in Elems(p.avail[s]) : e \in p.live
    /\ p.closing \subseteq p.live
    /\ Starting(p) \cap p.live = {}
    /\ \A c \in Clients : p.pc[c] = "holding" => p.ref[c] \in p.live
    /\ ~AutoClean => p.closing = {} /\ Owned(p)
    /\ IsFiniteSet(Known(p)) /\ p.size = Cardinality(Known(p))

(* What a step does to poolSize and to the queue.                           *)
Counts(p, q) ==
    /\ Alive(q)
    /\ \/ q.size <= p.size
       \/ ~Full(p) /\ q.size = p.size + 1
       \/ Uses \cap {"init", "initAsync"} # {}
    /\ q.size >= p.size \/ AutoClean \/ "open" \in Faults
    /\ q.fifo = <<>> \/ p.fifo # <<>> \/ Full(p)

(* Connections change hands, or wait for cleanUp.                           *)
LEMMA AliveFrame ==
    ASSUME NEW p, NEW q, Alive(p), q.live = p.live, q.size = p.size,
           SameOpens(p, q), q.closing \subseteq p.live,
           ~AutoClean => q.closing = p.closing,
           \A s \in Strs : \A e \in Elems(q.avail[s]) : e \in p.live,
           \A c \in Clients : q.pc[c] = "holding" => q.ref[c] \in p.live,
           ~AutoClean => Owned(q)
    PROVE  Alive(q)
  <1>1. Starting(q) = Starting(p)
    BY DEF Starting, SameOpens
  <1>2. Known(q) = Known(p)
    BY <1>1 DEF Known
  <1> QED
    BY <1>1, <1>2 DEF Alive

LEMMA AliveBecomes ==
    ASSUME NEW q, Becomes(q), Alive(q)
    PROVE  Alive(Now')
  <1> DEFINE m == Now'
  <1>1. /\ m.avail = q.avail /\ m.size = q.size /\ m.live = q.live
        /\ m.closing = q.closing /\ m.pc = q.pc /\ m.ref = q.ref
        /\ m.opening = q.opening /\ m.warming = q.warming
    BY BecomesFields
  <1> HIDE DEF m
  <1>2. Alive(m)
    BY <1>1, AliveFrame DEF SameOpens, Alive, Owned
  <1> QED
    BY <1>2 DEF m

(* The inductive invariant of the three properties. *)
CountInv ==
    /\ Alive(Now)
    /\ Uses \cap {"init", "initAsync"} = {} /\ NewSizes = {} /\ maxPoolSize > 0
       => poolSize <= maxPoolSize
    /\ ~AutoClean /\ "open" \notin Faults /\ NewSizes = {} /\ fifo # <<>>
       => maxPoolSize > 0 /\ poolSize >= maxPoolSize

LEMMA CountStep ==
    ASSUME IInv, CountInv, NEW q, Becomes(q), Counts(Now, q)
    PROVE  CountInv'
  <1>1. Alive(Now')
    BY AliveBecomes DEF Counts
  <1>2. /\ poolSize' = q.size /\ fifo' = q.fifo /\ maxPoolSize' = maxPoolSize
        /\ Now.size = poolSize /\ Now.fifo = fifo
    BY NowFields DEF Becomes
  <1>3. poolSize \in Int /\ maxPoolSize \in Nat
    BY NowFields DEF IInv, Good, Sane, PoolStates
  <1>4. q.size \in Int
    BY FS_CardinalityType DEF Counts, Alive
  <1>5. Full(Now) <=> maxPoolSize > 0 /\ poolSize >= maxPoolSize
    BY <1>2 DEF Full
  <1> HIDE DEF Full
  <1>6. Uses \cap {"init", "initAsync"} = {} /\ NewSizes = {} /\ maxPoolSize > 0
        => q.size <= maxPoolSize
    BY <1>2, <1>3, <1>4, <1>5 DEF CountInv, Counts
  <1>7. ~AutoClean /\ "open" \notin Faults /\ NewSizes = {} /\ q.fifo # <<>>
        => maxPoolSize > 0 /\ q.size >= maxPoolSize
    BY <1>2, <1>3, <1>4, <1>5 DEF CountInv, Counts
  <1> QED
    BY <1>1, <1>2, <1>6, <1>7 DEF CountInv

LEMMA BegunAlive ==
    ASSUME Alive(Now), NEW z, NEW c \in Clients, NEW s \in Strs,
           Now.pc[c] = "idle", Begun(z, c, s)
    PROVE  Alive(z) /\ z.size = Now.size /\ (Full(z) <=> Full(Now))
  <1>1. \A t \in Strs : Elems(Now.avail[t]) \subseteq Now.live
    BY DEF Alive
  <1>2. z.size = Now.size
    BY <1>1 DEF Begun
  <1>3. \A t \in Strs : \A e \in Elems(z.avail[t]) : e \in Now.live
    BY <1>1 DEF Begun
  <1>4. \A e \in Clients : z.pc[e] = "holding" => z.ref[e] \in Now.live
    BY DEF Begun, Alive
  <1>5. /\ z.live = Now.live /\ SameOpens(Now, z) /\ z.closing = Now.closing
    BY DEF Begun
  <1>6. Alive(z)
    <2>1. ~AutoClean => Owned(z)
      BY <1>5 DEF Begun, Alive, Owned
    <2> QED
      BY <1>2, <1>3, <1>4, <1>5, <2>1, AliveFrame DEF Alive
  <1> QED
    BY <1>2, <1>6 DEF Full

LEMMA ServedAlive ==
    ASSUME NEW z, NEW q, NEW c \in Clients, NEW s \in Strs, Sane(z), Alive(z),
           Served(z, q, c, s)
    PROVE  Alive(q)
  <1> DEFINE d == Head(z.avail[s])
  <1>1. /\ z.avail[s] # <<>> /\ Taken(z, q, s, d) /\ Handed(z, q, c, d)
        /\ SameRest(z, q)
    BY DEF Served
  <1>2. \A t \in Strs : Elems(q.avail[t]) \subseteq Elems(z.avail[t])
    BY <1>1, TakenElems
  <1>3. d \in z.live
    BY <1>1 DEF Taken, Alive
  <1> HIDE DEF d
  <1>4. z.pc \in [Clients -> {"idle", "queued", "opening", "holding"}]
        /\ z.ref \in [Clients -> Conns \cup {Nobody}]
    BY DEF Sane, PoolStates
  <1>5. \A e \in Clients : q.pc[e] = "holding" => q.ref[e] \in z.live
    BY <1>1, <1>3, <1>4 DEF Handed, Alive
  <1>6. /\ q.live = z.live /\ q.size = z.size /\ SameOpens(z, q)
        /\ q.closing = z.closing
    BY <1>1 DEF SameRest
  <1>7. \A t \in Strs : \A e \in Elems(q.avail[t]) : e \in z.live
    BY <1>2 DEF Alive
  <1>8. ~AutoClean => Owned(q)
    BY <1>1, <1>3, <1>4, <1>6 DEF Handed, Alive, Owned
  <1> QED
    BY <1>5, <1>6, <1>7, <1>8, AliveFrame DEF Alive

LEMMA OpenAlive ==
    ASSUME NoneDropped, IInv, CountInv, NEW c \in Clients, NEW s \in Strs,
           Open(c, s)
    PROVE  CountInv'
  <1>1. PICK z, q :
           /\ Now.pc[c] = "idle" /\ Begun(z, c, s) /\ Becomes(q)
           /\ \/ Served(z, q, c, s)
              \/ /\ z.avail[s] = <<>> /\ Full(z) /\ Parked(z, q, c, s)
                 /\ q.pc = [z.pc EXCEPT ![c] = "queued"]
              \/ /\ z.avail[s] = <<>> /\ ~Full(z)
                 /\ \E d \in Fresh(s) : Starts(z, q, c, d)
    BY OpenEffect
  <1>2. Alive(z) /\ z.size = Now.size /\ (Full(z) <=> Full(Now)) /\ Sane(z)
    BY <1>1, BegunAlive DEF CountInv, Begun
  <1>3. z.fifo = Now.fifo /\ z.live = Now.live /\ SameOpens(Now, z)
    BY <1>1 DEF Begun
  <1>4. z.size \in Int
    BY <1>2 DEF Sane, PoolStates
  <1> HIDE DEF Full
  <1>5. ASSUME Served(z, q, c, s)
        PROVE  Counts(Now, q)
    <2>1. Alive(q) /\ q.size = z.size /\ q.fifo = z.fifo
      BY <1>2, <1>5, ServedAlive DEF Served, SameRest
    <2> QED
      BY <1>2, <1>3, <1>4, <2>1 DEF Counts
  <1>6. ASSUME Full(z), Parked(z, q, c, s), q.pc = [z.pc EXCEPT ![c] = "queued"]
        PROVE  Counts(Now, q)
    <2>1. /\ q.live = z.live /\ q.size = z.size /\ SameOpens(z, q)
          /\ q.closing = z.closing /\ q.avail = z.avail /\ q.ref = z.ref
      BY <1>6 DEF Parked, SameRest
    <2>2. \A e \in Clients : q.pc[e] = "holding" => q.ref[e] \in z.live
      BY <1>2, <1>6, <2>1 DEF Alive, Sane, PoolStates
    <2>3. Alive(q)
      BY <1>2, <2>1, <2>2, AliveFrame DEF Alive, Owned
    <2> QED
      BY <1>2, <1>4, <1>6, <2>1, <2>3 DEF Counts
  <1>7. ASSUME ~Full(z), NEW d \in Fresh(s), Starts(z, q, c, d)
        PROVE  Counts(Now, q)
    <2>1. /\ d \in Conns /\ d \notin Starting(z) /\ d \notin z.live
      BY <1>3, FreshUnknown DEF Starting, SameOpens
    <2>2. Starting(q) = Starting(z) \cup {d}
      <3>1. c # Nobody
        BY ConstantsAssumption
      <3> QED
        BY <1>7, <2>1, <3>1 DEF Starts, Starting
    <2>3. q.live = z.live /\ q.size = z.size + 1 /\ q.fifo = z.fifo
          /\ q.closing = z.closing /\ q.avail = z.avail
      BY <1>7 DEF Starts
    <2>4. Known(q) = Known(z) \cup {d} /\ d \notin Known(z)
      BY <2>1, <2>2, <2>3 DEF Known
    <2>5. IsFiniteSet(Known(q)) /\ Cardinality(Known(q)) = Cardinality(Known(z)) + 1
      <3>1. /\ IsFiniteSet(Known(z) \cup {d})
            /\ Cardinality(Known(z) \cup {d}) = Cardinality(Known(z)) + 1
        BY <1>2, <2>4, FS_AddElement DEF Alive
      <3> QED
        BY <2>4, <3>1
    <2>6. \A e \in Clients : q.pc[e] = "holding" => q.ref[e] \in z.live
      BY <1>2, <1>7 DEF Starts, Alive
    <2>7. ~AutoClean => Owned(q)
      BY <1>2, <1>7 DEF Starts, Alive, Owned
    <2>8. Alive(q)
      BY <1>2, <2>1, <2>2, <2>3, <2>5, <2>6, <2>7 DEF Alive
    <2> QED
      BY <1>2, <1>3, <1>4, <1>7, <2>3, <2>8 DEF Counts
  <1>8. Counts(Now, q)
    BY <1>1, <1>5, <1>6, <1>7
  <1> QED
    BY <1>1, <1>8, CountStep

(* A connection was just opened for a client. *)
LEMMA OpenedAlive ==
    ASSUME NEW z, NEW q, NEW c \in Clients, NEW d \in Conns, z \in PoolStates,
           Opened(z, q, c, d), d \notin Starting(z),
           \A s \in Strs : \A e \in Elems(z.avail[s]) : e \in z.live,
           z.closing \subseteq z.live, Starting(z) \cap z.live = {},
           \A e \in Clients : z.pc[e] = "holding" => z.ref[e] \in z.live,
           ~AutoClean => z.closing = {} /\ Owned(z),
           IsFiniteSet(Known(z) \cup {d}),
           q.size = Cardinality(Known(z) \cup {d})
    PROVE  Alive(q)
  <1>1. /\ q.avail = z.avail /\ q.live = z.live \cup {d}
        /\ q.closing = z.closing /\ SameOpens(z, q) /\ Handed(z, q, c, d)
    BY DEF Opened
  <1>2. Starting(q) = Starting(z)
    BY <1>1 DEF Starting, SameOpens
  <1>3. Known(q) = Known(z) \cup {d}
    BY <1>1, <1>2 DEF Known
  <1>4. \A e \in Clients : q.pc[e] = "holding" => q.ref[e] \in q.live
    BY <1>1 DEF Handed, PoolStates
  <1>5. ~AutoClean => Owned(q)
    BY <1>1 DEF Handed, PoolStates, Owned
  <1> QED
    BY <1>1, <1>2, <1>3, <1>4, <1>5 DEF Alive

LEMMA OpenSyncAlive ==
    ASSUME NoneDropped, IInv, CountInv, NEW c \in Clients, NEW s \in Strs,
           OpenSync(c, s)
    PROVE  CountInv'
  <1>1. PICK z, q :
           /\ Now.pc[c] = "idle" /\ Begun(z, c, s) /\ Becomes(q)
           /\ \/ Served(z, q, c, s)
              \/ /\ z.avail[s] = <<>> /\ Full(z) /\ Parked(z, q, Nobody, s)
                 /\ q.pc = z.pc
              \/ /\ z.avail[s] = <<>> /\ ~Full(z)
                 /\ \E d \in Fresh(s) : Opened(z, q, c, d)
                 /\ q.size = z.size + 1
              \/ q = z
    BY OpenSyncEffect
  <1>2. Alive(z) /\ z.size = Now.size /\ (Full(z) <=> Full(Now)) /\ Sane(z)
    BY <1>1, BegunAlive DEF CountInv, Begun
  <1>3. z.fifo = Now.fifo /\ z.live = Now.live /\ SameOpens(Now, z)
    BY <1>1 DEF Begun
  <1>4. z.size \in Int
    BY <1>2 DEF Sane, PoolStates
  <1> HIDE DEF Full
  <1>5. ASSUME Served(z, q, c, s)
        PROVE  Counts(Now, q)
    <2>1. Alive(q) /\ q.size = z.size /\ q.fifo = z.fifo
      BY <1>2, <1>5, ServedAlive DEF Served, SameRest
    <2> QED
      BY <1>2, <1>3, <1>4, <2>1 DEF Counts
  <1>6. ASSUME Full(z), Parked(z, q, Nobody, s), q.pc = z.pc
        PROVE  Counts(Now, q)
    <2>1. /\ q.live = z.live /\ q.size = z.size /\ SameOpens(z, q)
          /\ q.closing = z.closing /\ q.avail = z.avail /\ q.ref = z.ref
      BY <1>6 DEF Parked, SameRest
    <2>2. Alive(q)
      BY <1>2, <1>6, <2>1, AliveFrame DEF Alive, Owned
    <2> QED
      BY <1>2, <1>4, <1>6, <2>1, <2>2 DEF Counts
  <1>7. ASSUME ~Full(z), NEW d \in Fresh(s), Opened(z, q, c, d),
               q.size = z.size + 1
        PROVE  Counts(Now, q)
    <2>1. d \in Conns /\ d \notin Starting(z) /\ d \notin z.live
      BY <1>3, FreshUnknown DEF Starting, SameOpens
    <2>2. d \notin Known(z)
      BY <2>1 DEF Known
    <2>3. /\ IsFiniteSet(Known(z) \cup {d})
          /\ Cardinality(Known(z) \cup {d}) = Cardinality(Known(z)) + 1
      BY <1>2, <2>2, FS_AddElement DEF Alive
    <2>4. q.size = Cardinality(Known(z) \cup {d})
      BY <1>2, <1>7, <2>3 DEF Alive
    <2>5. Alive(q)
      BY <1>2, <1>7, <2>1, <2>3, <2>4, OpenedAlive DEF Alive, Sane
    <2>6. q.fifo = z.fifo
      BY <1>7 DEF Opened
    <2> QED
      BY <1>2, <1>3, <1>4, <1>7, <2>5, <2>6 DEF Counts
  <1>8. ASSUME q = z
        PROVE  Counts(Now, q)
    BY <1>2, <1>3, <1>4, <1>8 DEF Counts
  <1>9. Counts(Now, q)
    BY <1>1, <1>5, <1>6, <1>7, <1>8
  <1> QED
    BY <1>1, <1>9, CountStep

LEMMA OpenDoneAlive ==
    ASSUME NoneDropped, IInv, CountInv, NEW d \in Conns, OpenDone(d)
    PROVE  CountInv'
  <1>1. PICK c, z, q :
           /\ Ended(z, d, c) /\ Becomes(q)
           /\ \/ Opened(z, q, c, d) /\ q.size = z.size
              \/ /\ "open" \in Faults
                 /\ SameOpens(z, q) /\ q.live = z.live /\ q.tx = z.tx
                 /\ q.closing = z.closing /\ q.fifo = z.fifo
                 /\ q.avail = z.avail /\ q.used = z.used
                 /\ q.ref = z.ref /\ q.pc = [z.pc EXCEPT ![c] = "idle"]
                 /\ q.size = z.size - 1
    BY OpenDoneEffect
  <1>2. /\ z.avail = Now.avail /\ z.live = Now.live /\ z.size = Now.size
        /\ z.fifo = Now.fifo /\ z.closing = Now.closing
        /\ z.pc = Now.pc /\ z.ref = Now.ref
        /\ c \in Clients /\ z \in PoolStates
    BY <1>1 DEF Ended
  <1>3. d \in Starting(Now) /\ Now.opening[d] # Nobody /\ d \notin Now.warming
    <2>1. Now.opening[d] # Nobody
      BY <1>1, <1>2, ConstantsAssumption DEF Ended
    <2> QED
      BY <2>1 DEF Starting, IInv, Good, Sane, Handles
  <1>4. Starting(z) = Starting(Now) \ {d}
    BY <1>1, <1>3 DEF Ended, Starting
  <1>5. Alive(Now) /\ Now.size \in Int
    BY DEF CountInv, IInv, Good, Sane, PoolStates
  <1>6. d \notin Now.live /\ d \in Known(Now)
    BY <1>3, <1>5 DEF Alive, Known
  <1>7. Known(z) = Known(Now) \ {d}
    BY <1>2, <1>4, <1>6 DEF Known
  <1>8. Starting(z) \cap z.live = {} /\ d \notin Starting(z)
    BY <1>2, <1>4, <1>5 DEF Alive
  <1> HIDE DEF Full
  <1>9. ASSUME Opened(z, q, c, d), q.size = z.size
        PROVE  Counts(Now, q)
    <2>1. Known(z) \cup {d} = Known(Now)
      BY <1>6, <1>7
    <2>2. /\ \A s \in Strs : \A e \in Elems(z.avail[s]) : e \in z.live
          /\ z.closing \subseteq z.live
          /\ \A e \in Clients : z.pc[e] = "holding" => z.ref[e] \in z.live
          /\ ~AutoClean => z.closing = {} /\ Owned(z)
      BY <1>2, <1>5 DEF Alive, Owned
    <2>3. IsFiniteSet(Known(z) \cup {d}) /\ q.size = Cardinality(Known(z) \cup {d})
      BY <1>2, <1>5, <1>9, <2>1 DEF Alive
    <2>4. Alive(q)
      BY <1>2, <1>8, <1>9, <2>2, <2>3, OpenedAlive
    <2>5. q.fifo = z.fifo
      BY <1>9 DEF Opened
    <2> QED
      BY <1>2, <1>5, <1>9, <2>4, <2>5 DEF Counts
  <1>10. ASSUME "open" \in Faults, SameOpens(z, q), q.live = z.live,
                q.closing = z.closing, q.fifo = z.fifo, q.avail = z.avail,
                q.ref = z.ref, q.pc = [z.pc EXCEPT ![c] = "idle"],
                q.size = z.size - 1
         PROVE  Counts(Now, q)
    <2>1. Starting(q) = Starting(z)
      BY <1>10 DEF Starting, SameOpens
    <2>2. Known(q) = Known(Now) \ {d}
      BY <1>7, <1>10, <2>1 DEF Known
    <2>3. /\ IsFiniteSet(Known(Now) \ {d})
          /\ Cardinality(Known(Now) \ {d}) = Cardinality(Known(Now)) - 1
      BY <1>5, <1>6, FS_RemoveElement DEF Alive
    <2>4. IsFiniteSet(Known(q)) /\ q.size = Cardinality(Known(q))
      BY <1>2, <1>5, <1>10, <2>2, <2>3 DEF Alive
    <2>5. \A e \in Clients : q.pc[e] = "holding" => q.ref[e] \in q.live
      BY <1>2, <1>5, <1>10 DEF Alive, PoolStates
    <2>6. ~AutoClean => Owned(q)
      BY <1>2, <1>5, <1>10 DEF Alive, Owned
    <2>7. Alive(q)
      BY <1>2, <1>5, <1>8, <1>10, <2>1, <2>4, <2>5, <2>6 DEF Alive
    <2> QED
      BY <1>2, <1>5, <1>10, <2>7 DEF Counts
  <1>11. Counts(Now, q)
    BY <1>1, <1>9, <1>10
  <1> QED
    BY <1>1, <1>11, CountStep

(* The connection that a client lets go works.                              *)
LEMMA LetsGoAlive ==
    ASSUME NoneDropped, Alive(Now), NEW z, NEW c \in Clients, NEW d, LetsGo(z, c, d)
    PROVE  /\ Alive(z) /\ d \in z.live /\ z.size = Now.size
           /\ z.fifo = Now.fifo /\ Sane(z) /\ d \in Conns /\ d \notin Starting(z)
  <1>1. /\ Sane(z) /\ SameRest(Now, z)
        /\ d \in Conns /\ d \notin Starting(z) /\ d = Now.ref[c]
        /\ z.avail = Now.avail /\ z.fifo = Now.fifo
        /\ z.pc[c] = "idle" /\ \A e \in Clients \ {c} : z.pc[e] = Now.pc[e]
        /\ z.ref[c] \in {Now.ref[c], Nobody}
        /\ \A e \in Clients \ {c} : z.ref[e] = Now.ref[e]
        /\ Now.pc[c] = "holding" \/ ~AutoClean
    BY DEF LetsGo, NoneDropped
  <1>2. /\ z.live = Now.live /\ z.size = Now.size /\ z.closing = Now.closing
        /\ SameOpens(Now, z)
    BY <1>1 DEF SameRest
  <1>3. d \in z.live
    BY <1>1, <1>2, ConstantsAssumption DEF Alive, Owned
  <1>4. \A s \in Strs : \A e \in Elems(z.avail[s]) : e \in z.live
    BY <1>1, <1>2 DEF Alive
  <1>5. ~AutoClean => Owned(z)
    BY <1>1, <1>2 DEF Alive, Owned
  <1>6. Alive(z)
    BY <1>1, <1>2, <1>4, <1>5, AliveFrame DEF Alive
  <1> QED
    BY <1>1, <1>2, <1>3, <1>6

(* A close on a server that drops no connection. *)
LEMMA CloseAlive ==
    ASSUME NoneDropped, IInv, CountInv, NEW z, NEW c \in Clients, NEW d,
           NEW idle, NEW q,
           LetsGo(z, c, d), Becomes(q), q = PoolClose(z, d, idle)
    PROVE  CountInv'
  <1>1. Alive(Now) /\ Now.size \in Int
    BY DEF CountInv, IInv, Good, Sane, PoolStates
  <1>2. /\ Alive(z) /\ d \in z.live /\ z.size = Now.size
        /\ z.fifo = Now.fifo /\ Sane(z) /\ d \in Conns /\ d \notin Starting(z)
    BY <1>1, LetsGoAlive
  <1>5. \A s \in Strs : \A e \in Elems(z.avail[s]) : e \in z.live
    BY <1>2 DEF Alive
  <1>7. /\ q.live = z.live /\ SameOpens(z, q) /\ Given(z, q, d)
        /\ z.fifo = <<>> => q.fifo = <<>>
        /\ q.closing \subseteq z.closing \cup z.live
        /\ ~AutoClean => q.closing = z.closing
        /\ q.size = z.size
    BY <1>2, <1>5, PoolCloseEffect
  <1>8. \A s \in Strs : \A e \in Elems(q.avail[s]) : e \in z.live
    BY <1>2, <1>5, <1>7 DEF Given
  <1>9. \A e \in Clients : q.pc[e] = "holding" => q.ref[e] \in z.live
    BY <1>2, <1>5, <1>7 DEF Given, Alive
  <1>10. q.closing \subseteq z.live
    BY <1>2, <1>7 DEF Alive
  <1>11. ~AutoClean => Owned(q)
    BY <1>2, <1>5, <1>7 DEF Given, Alive, Owned
  <1>12. Alive(q)
    BY <1>2, <1>7, <1>8, <1>9, <1>10, <1>11, AliveFrame
  <1> HIDE DEF Full
  <1>13. Counts(Now, q)
    BY <1>1, <1>2, <1>7, <1>12 DEF Counts
  <1> QED
    BY <1>13, CountStep

(* A close up to its callback, and from there on.                           *)
LEMMA BackOnOfferAlive ==
    ASSUME NoneDropped, IInv, CountInv, NEW z, NEW c \in Clients, NEW d, NEW g,
           LetsGo(z, c, d), Becomes(g), BackOnOffer(z, g, d)
    PROVE  CountInv'
  <1>1. Alive(Now) /\ Now.size \in Int
    BY DEF CountInv, IInv, Good, Sane, PoolStates
  <1>2. /\ Alive(z) /\ d \in z.live /\ z.size = Now.size
        /\ z.fifo = Now.fifo /\ Sane(z) /\ d \in Conns /\ d \notin Starting(z)
    BY <1>1, LetsGoAlive
  <1>3. /\ Returned(z, g, d) /\ SameOpens(z, g) /\ g.live = z.live
        /\ g.closing = z.closing /\ g.fifo = z.fifo
        /\ g.pc = z.pc /\ g.ref = z.ref /\ g.size = z.size
        /\ d \notin Elems(z.avail[StrOf[d]])
    BY <1>2 DEF BackOnOffer, Returned
  <1>4. \A s \in Strs : Elems(g.avail[s]) \subseteq
                            Elems(z.avail[s]) \cup ({d} \cap z.live)
    BY <1>2, <1>3, ReturnedGives
  <1>5. \A s \in Strs : \A e \in Elems(g.avail[s]) : e \in z.live
    BY <1>2, <1>4 DEF Alive
  <1>6. /\ g.closing \subseteq z.live
        /\ \A e \in Clients : g.pc[e] = "holding" => g.ref[e] \in z.live
    BY <1>2, <1>3 DEF Alive
  <1>7. ~AutoClean => Owned(g)
    BY <1>2, <1>3 DEF Alive, Owned
  <1>8. Alive(g)
    BY <1>2, <1>3, <1>5, <1>6, <1>7, AliveFrame
  <1> HIDE DEF Full
  <1>9. Counts(Now, g)
    BY <1>1, <1>2, <1>3, <1>8 DEF Counts
  <1> QED
    BY <1>9, CountStep

LEMMA WakesAlive ==
    ASSUME IInv, CountInv, NEW d \in Conns, NEW idle, NEW n,
           Becomes(n), n = Wakes(Now, d, idle)
    PROVE  CountInv'
  <1>1. Alive(Now) /\ Now.size \in Int /\ Sane(Now)
    BY DEF CountInv, IInv, Good, Sane, PoolStates
  <1>2. \A s \in Strs : \A e \in Elems(Now.avail[s]) : e \in Now.live
    BY <1>1 DEF Alive
  <1>3. StrOf[d] \in Strs /\ Nobody \notin Now.live
    BY <1>1, ConstantsAssumption DEF Sane, PoolStates
  <1>4. /\ n.live = Now.live /\ SameOpens(Now, n) /\ Given(Now, n, Nobody)
        /\ Now.fifo = <<>> => n.fifo = <<>>
        /\ n.closing \subseteq Now.closing \cup Now.live
        /\ ~AutoClean => n.closing = Now.closing
        /\ n.size = Now.size
    BY <1>1, <1>2, <1>3, WakesEffect
  <1>5. \A s \in Strs : \A e \in Elems(n.avail[s]) : e \in Now.live
    BY <1>2, <1>3, <1>4 DEF Given
  <1>6. \A e \in Clients : n.pc[e] = "holding" => n.ref[e] \in Now.live
    BY <1>1, <1>2, <1>3, <1>4 DEF Given, Alive
  <1>7. n.closing \subseteq Now.live
    BY <1>1, <1>4 DEF Alive
  <1>8. ~AutoClean => Owned(n)
    BY <1>1, <1>2, <1>3, <1>4 DEF Given, Alive, Owned
  <1>9. Alive(n)
    BY <1>1, <1>4, <1>5, <1>6, <1>7, <1>8, AliveFrame
  <1> HIDE DEF Full
  <1>10. Counts(Now, n)
    BY <1>1, <1>4, <1>9 DEF Counts
  <1> QED
    BY <1>10, CountStep

LEMMA RealCloseDoneAlive ==
    ASSUME NoneDropped, IInv, CountInv, NEW d \in Conns, RealCloseDone(d)
    PROVE  CountInv'
  <1>1. PICK q :
           /\ Becomes(q) /\ d \in Now.closing
           /\ q.avail = Now.avail /\ q.used = Now.used /\ q.fifo = Now.fifo
           /\ q.pc = Now.pc /\ q.ref = Now.ref
           /\ SameOpens(Now, q)
           /\ q.closing = Now.closing \ {d} /\ q.live = Now.live \ {d}
           /\ q.tx = Now.tx \ {d}
           /\ q.size = Decremented(Now.size, 1)
    BY RealCloseDoneEffect
  <1>2. Alive(Now) /\ Now.size \in Int
    BY DEF CountInv, IInv, Good, Sane, PoolStates
  <1>3. d \in Now.live /\ AutoClean
    BY <1>1, <1>2 DEF Alive
  <1>0. Exclusive(Now, {})
    BY <1>3 DEF NoneDropped, IInv, Good
  <1>4. Starting(q) = Starting(Now) /\ d \notin Starting(Now)
    BY <1>0, <1>1, <1>2 DEF Starting, SameOpens, Exclusive
  <1>5. Known(q) = Known(Now) \ {d} /\ d \in Known(Now)
    BY <1>1, <1>3, <1>4 DEF Known
  <1>6. /\ IsFiniteSet(Known(Now) \ {d})
        /\ Cardinality(Known(Now) \ {d}) = Cardinality(Known(Now)) - 1
        /\ Cardinality(Known(Now) \ {d}) \in Nat
    BY <1>2, <1>5, FS_RemoveElement, FS_CardinalityType DEF Alive
  <1>7. Now.size >= 1 /\ q.size = Now.size - 1
    BY <1>1, <1>2, <1>6 DEF Alive, Decremented
  <1>8. \A s \in Strs : \A e \in Elems(q.avail[s]) : e \in q.live
    BY <1>0, <1>1, <1>2 DEF Alive, Exclusive
  <1>9. \A e \in Clients : q.pc[e] = "holding" => q.ref[e] \in q.live
    BY <1>0, <1>1, <1>2 DEF Alive, Exclusive
  <1>10. Alive(q)
    BY <1>1, <1>2, <1>3, <1>4, <1>5, <1>6, <1>7, <1>8, <1>9 DEF Alive
  <1> HIDE DEF Full
  <1>11. Counts(Now, q)
    BY <1>1, <1>2, <1>3, <1>7, <1>10 DEF Counts
  <1> QED
    BY <1>1, <1>11, CountStep

(* k new connections are opened, or begin to open. *)
LEMMA KnownGrows ==
    ASSUME Alive(Now), NEW s \in Strs, NEW D, D \subseteq Fresh(s),
           IsFiniteSet(D), NEW k, Cardinality(D) = k
    PROVE  /\ IsFiniteSet(Known(Now) \cup D)
           /\ Cardinality(Known(Now) \cup D) = Now.size + k
  <1>1. Known(Now) \cap D = {}
    BY FreshUnknown DEF Known
  <1>2. IsFiniteSet(Known(Now)) /\ Now.size = Cardinality(Known(Now))
    BY DEF Alive
  <1>3. /\ IsFiniteSet(Known(Now) \cup D)
        /\ Cardinality(Known(Now) \cup D) =
              Cardinality(Known(Now)) + Cardinality(D)
              - Cardinality(Known(Now) \cap D)
    BY <1>2, FS_Union
  <1>4. Cardinality(Known(Now)) \in Nat /\ Cardinality(D) \in Nat
    BY <1>2, FS_CardinalityType
  <1>5. Cardinality(Known(Now) \cap D) = 0
    BY <1>1, FS_EmptySet
  <1> QED
    BY <1>2, <1>3, <1>4, <1>5

LEMMA InitSyncAlive ==
    ASSUME NoneDropped, IInv, CountInv, NEW n \in InitCounts, NEW s \in Strs,
           InitSync(n, s)
    PROVE  CountInv'
  <1>1. PICK q, D, k :
           /\ Becomes(q) /\ "init" \in Uses
           /\ D \subseteq Fresh(s) /\ k \in Nat
           /\ IsFiniteSet(D) /\ Cardinality(D) = k
           /\ \A t \in Strs : \A e \in Elems(q.avail[t]) :
                 e \in Elems(Now.avail[t]) \/ e \in D
           /\ q.used = Now.used /\ q.fifo = Now.fifo
           /\ q.pc = Now.pc /\ q.ref = Now.ref
           /\ SameOpens(Now, q) /\ q.tx = Now.tx /\ q.closing = Now.closing
           /\ q.live = Now.live \cup D
           /\ q.size = Now.size + k
    BY InitSyncEffect
  <1>2. Alive(Now) /\ Now.size \in Int
    BY DEF CountInv, IInv, Good, Sane, PoolStates
  <1>3. Starting(q) = Starting(Now)
    BY <1>1 DEF Starting, SameOpens
  <1>4. Known(q) = Known(Now) \cup D
    BY <1>1, <1>3 DEF Known
  <1>5. IsFiniteSet(Known(q)) /\ Cardinality(Known(q)) = q.size
    BY <1>1, <1>2, <1>4, KnownGrows
  <1>6. Starting(q) \cap q.live = {}
    BY <1>1, <1>2, <1>3, FreshUnknown DEF Alive
  <1>7. Alive(q)
    BY <1>1, <1>2, <1>5, <1>6 DEF Alive, Owned
  <1> HIDE DEF Full
  <1>8. Counts(Now, q)
    BY <1>1, <1>2, <1>7 DEF Counts
  <1> QED
    BY <1>1, <1>8, CountStep

LEMMA InitAsyncAlive ==
    ASSUME NoneDropped, IInv, CountInv, NEW n \in InitCounts, NEW s \in Strs,
           InitAsync(n, s)
    PROVE  CountInv'
  <1>1. PICK q, D, k :
           /\ Becomes(q) /\ "initAsync" \in Uses
           /\ D \subseteq Fresh(s) /\ k \in Nat
           /\ IsFiniteSet(D) /\ Cardinality(D) = k
           /\ q.avail = Now.avail
           /\ q.used = Now.used /\ q.fifo = Now.fifo
           /\ q.pc = Now.pc /\ q.ref = Now.ref
           /\ q.opening = Now.opening /\ q.warming = Now.warming \cup D
           /\ q.live = Now.live /\ q.tx = Now.tx /\ q.closing = Now.closing
           /\ q.size = Now.size + k
    BY InitAsyncEffect
  <1>2. Alive(Now) /\ Now.size \in Int
    BY DEF CountInv, IInv, Good, Sane, PoolStates
  <1>3. Starting(q) = Starting(Now) \cup D
    BY <1>1 DEF Starting
  <1>4. Known(q) = Known(Now) \cup D
    BY <1>1, <1>3 DEF Known
  <1>5. IsFiniteSet(Known(q)) /\ Cardinality(Known(q)) = q.size
    BY <1>1, <1>2, <1>4, KnownGrows
  <1>6. Starting(q) \cap q.live = {}
    BY <1>1, <1>2, <1>3, FreshUnknown DEF Alive
  <1>7. Alive(q)
    BY <1>1, <1>2, <1>5, <1>6 DEF Alive, Owned
  <1> HIDE DEF Full
  <1>8. Counts(Now, q)
    BY <1>1, <1>2, <1>7 DEF Counts
  <1> QED
    BY <1>1, <1>8, CountStep

LEMMA InitAsyncDoneAlive ==
    ASSUME NoneDropped, IInv, CountInv, NoneWarming, NEW d \in Conns,
           InitAsyncDone(d)
    PROVE  CountInv'
  <1>1. PICK q :
           /\ Becomes(q) /\ d \in Now.warming
           /\ q.opening = Now.opening /\ q.warming = Now.warming \ {d}
           /\ q.used = Now.used /\ q.fifo = Now.fifo
           /\ q.pc = Now.pc /\ q.ref = Now.ref
           /\ q.tx = Now.tx /\ q.closing = Now.closing
           /\ \A t \in Strs : \A e \in Elems(q.avail[t]) :
                 e \in Elems(Now.avail[t]) \/ (e = d /\ d \in q.live)
           /\ \/ q.live = Now.live \cup {d} /\ q.size = Now.size
              \/ /\ "open" \in Faults
                 /\ q.live = Now.live /\ q.size = Now.size - 1
    BY InitAsyncDoneEffect
  <1>2. Alive(Now) /\ Now.size \in Int
    BY DEF CountInv, IInv, Good, Sane, PoolStates
  <1>3. d \in Starting(Now) /\ Now.opening[d] = Nobody
    BY <1>1 DEF Starting, IInv, Good, Sane, Handles
  <1>4. Starting(q) = Starting(Now) \ {d}
    BY <1>1, <1>3 DEF Starting
  <1>5. d \notin Now.live /\ d \in Known(Now)
    BY <1>2, <1>3 DEF Alive, Known
  <1>6. Starting(q) \cap q.live = {}
    BY <1>1, <1>2, <1>4 DEF Alive
  <1>7. IsFiniteSet(Known(q)) /\ q.size = Cardinality(Known(q))
    <2>1. CASE q.live = Now.live \cup {d} /\ q.size = Now.size
      <3>1. Known(q) = Known(Now)
        BY <1>3, <1>4, <2>1 DEF Known
      <3> QED
        BY <1>2, <2>1, <3>1 DEF Alive
    <2>2. CASE q.live = Now.live /\ q.size = Now.size - 1
      <3>1. Known(q) = Known(Now) \ {d}
        BY <1>4, <1>5, <2>2 DEF Known
      <3>2. /\ IsFiniteSet(Known(Now) \ {d})
            /\ Cardinality(Known(Now) \ {d}) = Cardinality(Known(Now)) - 1
        BY <1>2, <1>5, FS_RemoveElement DEF Alive
      <3> QED
        BY <1>2, <2>2, <3>1, <3>2 DEF Alive
    <2> QED
      BY <1>1, <2>1, <2>2
  <1>8. Alive(q)
    BY <1>1, <1>2, <1>6, <1>7 DEF Alive, Owned
  <1> HIDE DEF Full
  <1>9. Counts(Now, q)
    BY <1>1, <1>2, <1>8 DEF Counts
  <1> QED
    BY <1>1, <1>9, CountStep

LEMMA CountNext ==
    ASSUME NoneDropped, CInv, NoneWarming, CountInv, [Next]_vars
    PROVE  CountInv'
  <1> USE DEF CInv
  <1>1. ASSUME NEW c \in Clients, NEW s \in Strs, Open(c, s) PROVE CountInv'
    BY <1>1, OpenAlive
  <1>2. ASSUME NEW c \in Clients, NEW s \in Strs, OpenSync(c, s) PROVE CountInv'
    BY <1>2, OpenSyncAlive
  <1>3. ASSUME NEW c \in Clients, Close(c) PROVE CountInv'
    <2>1. PICK z, d, idle, q : /\ LetsGo(z, c, d) /\ Becomes(q)
                               /\ q = PoolClose(z, d, idle)
      BY <1>3, CloseEffect
    <2> QED
      BY <2>1, CloseAlive
  <1>4. ASSUME NEW c \in Clients, CloseSync(c) PROVE CountInv'
    <2>1. PICK z, d, idle, q, lost :
             /\ LetsGo(z, c, d) /\ Becomes(q)
             /\ q = PoolCloseSync(z, d, lost, idle)
             /\ lost # FALSE => "lost" \in Faults
      BY <1>4, CloseSyncEffect
    <2>2. lost = FALSE
      BY <2>1 DEF NoneDropped
    <2>3. q = PoolClose(z, d, idle)
      BY <2>1, <2>2, CloseSyncIsClose DEF LetsGo, Sane
    <2> QED
      BY <2>1, <2>3, CloseAlive
  <1>5. ASSUME NEW c \in Clients, CloseAgain(c) PROVE CountInv'
    <2>1. PICK z, d, idle, q : /\ LetsGo(z, c, d) /\ Becomes(q)
                               /\ q = PoolClose(z, d, idle)
      BY <1>5, CloseAgainEffect
    <2> QED
      BY <2>1, CloseAlive
  <1>6. ASSUME NEW c \in Clients, ConnectionLost(c) PROVE CountInv'
    BY <1>6 DEF ConnectionLost, MayLose, NoneDropped
  <1>7. ASSUME NEW c \in Clients, BeginTransaction(c) PROVE CountInv'
    <2>1. PICK d, q :
             /\ d \in Conns
             /\ Becomes(q)
             /\ q.avail = Now.avail /\ q.fifo = Now.fifo
             /\ q.pc = Now.pc /\ q.ref = Now.ref /\ q.size = Now.size
             /\ SameOpens(Now, q) /\ q.live = Now.live
             /\ q.closing = Now.closing
      BY <1>7, BeginTransactionEffect
    <2>2. Alive(q) /\ Now.size \in Int
      BY <2>1, AliveFrame DEF CountInv, Alive, Owned, IInv, Good, Sane, PoolStates
    <2> HIDE DEF Full
    <2>3. Counts(Now, q)
      BY <2>1, <2>2 DEF Counts
    <2> QED
      BY <2>1, <2>3, CountStep
  <1>8. ASSUME NEW d \in Conns, OpenDone(d) PROVE CountInv'
    BY <1>8, OpenDoneAlive
  <1>9. ASSUME NEW d \in Conns, RealCloseDone(d) PROVE CountInv'
    BY <1>9, RealCloseDoneAlive
  <1>10. ASSUME NEW d \in Conns, InitAsyncDone(d) PROVE CountInv'
    BY <1>10, InitAsyncDoneAlive
  <1>11. ASSUME NEW s \in Strs, NEW n \in InitCounts, InitSync(n, s)
         PROVE  CountInv'
    BY <1>11, InitSyncAlive
  <1>12. ASSUME NEW s \in Strs, NEW n \in InitCounts, InitAsync(n, s)
         PROVE  CountInv'
    BY <1>12, InitAsyncAlive
  <1>13. ASSUME NEW n \in NewSizes, SetMaxPoolSize(n) PROVE CountInv'
    <2>1. Now' = Now
      BY <1>13 DEF SetMaxPoolSize, poolVars, Now
    <2>2. Alive(Now') /\ NewSizes # {}
      BY <1>13, <2>1 DEF CountInv
    <2> QED
      BY <2>2 DEF CountInv
  <1>14. CASE UNCHANGED vars
    <2>1. /\ Now' = Now /\ maxPoolSize' = maxPoolSize /\ fifo' = fifo
          /\ poolSize' = poolSize
      BY <1>14 DEF vars, poolVars, Now
    <2>2. Alive(Now')
      BY <2>1 DEF CountInv
    <2> QED
      BY <2>1, <2>2 DEF CountInv
  <1>15. ASSUME NEW c \in Clients, CloseCallsBack(c) \/ CloseAgainCallsBack(c)
         PROVE  CountInv'
    <2>1. PICK z, d, g : /\ LetsGo(z, c, d) /\ Becomes(g)
                         /\ BackOnOffer(z, g, d)
      BY <1>15, CloseCallsBackEffect
    <2> QED
      BY <2>1, BackOnOfferAlive
  <1>16. CASE CallbackReturns
    <2>1. PICK d, idle, n : /\ d \in Conns
                            /\ Becomes(n) /\ n = Wakes(Now, d, idle)
      BY <1>16, CallbackReturnsEffect
    <2> QED
      BY <2>1, WakesAlive
  <1> QED
    BY <1>1, <1>2, <1>3, <1>4, <1>5, <1>6, <1>7, <1>8, <1>9, <1>10, <1>11,
       <1>12, <1>13, <1>14, <1>15, <1>16 DEF Next, Calls, Delivers

LEMMA InitCountInv == Init => CountInv
  <1> SUFFICES ASSUME Init PROVE CountInv
    OBVIOUS
  <1>1. /\ Now.avail = [s \in Strs |-> <<>>] /\ Now.live = {}
        /\ Now.closing = {} /\ Now.opening = [d \in Conns |-> Nobody]
        /\ Now.warming = {} /\ Now.pc = [c \in Clients |-> "idle"]
        /\ Now.ref = [c \in Clients |-> Nobody]
        /\ Now.size = 0 /\ fifo = <<>> /\ poolSize = 0 /\ maxPoolSize = MaxSize
    BY NowFields DEF Init
  <1>2. Starting(Now) = {} /\ Known(Now) = {}
    BY <1>1 DEF Starting, Known
  <1>3. \A s \in Strs : Elems(Now.avail[s]) = {}
    BY <1>1 DEF Elems
  <1>4. Alive(Now)
    BY <1>1, <1>2, <1>3, FS_EmptySet DEF Alive, Owned
  <1> QED
    BY <1>1, <1>4, ConstantsAssumption DEF CountInv

LEMMA SpecCount ==
    ASSUME NoneDropped
    PROVE  Spec => []CountInv
  <1>1. CInv /\ NoneWarming /\ CountInv /\ [Next]_vars => CountInv'
    BY CountNext
  <1> QED
    BY <1>1, InitCountInv, SpecCInv, SpecCalm, PTL DEF Spec

LEMMA ExistingKnown ==
    ASSUME Alive(Now)
    PROVE  Existing = Known(Now)
  BY NowFields DEF Alive, Existing, Known, Starting

(* As long as the server drops no connection, and autoCleanIdle is off or   *)
(* no application closes a connection twice: poolSize counts exactly the    *)
(* connections that exist, whichever opens fail, and init and initAsync     *)
(* included.                                                                *)
THEOREM PoolSizeIsExact ==
    ASSUME "lost" \notin Faults, "reclose" \notin Uses \/ ~AutoClean
    PROVE  Spec => []SizeIsExact
  <1>1. NoneDropped
    BY DEF NoneDropped
  <1>2. CountInv => SizeIsExact
    BY ExistingKnown, NowFields DEF CountInv, Alive, SizeIsExact
  <1> QED
    BY <1>1, <1>2, SpecCount, PTL

(* Under the same conditions a client that gets a connection, be it from    *)
(* Pool.open, from openSync or from the queue, gets one that is connected.  *)
THEOREM ConnectedWhenHandedOut ==
    ASSUME "lost" \notin Faults, "reclose" \notin Uses \/ ~AutoClean
    PROVE  Spec => HandsOutConnected
  <1> DEFINE Connected ==
                \A c \in Clients :
                   pc[c] # "holding" /\ pc'[c] = "holding" => ref'[c] \in live'
  <1>1. NoneDropped
    BY DEF NoneDropped
  <1>2. CountInv' => Connected
    BY DEF CountInv, Alive, Now
  <1>3. HandsOutConnected <=> [][Connected]_vars
    BY DEF HandsOutConnected
  <1> QED
    BY <1>1, <1>2, <1>3, SpecCount, PTL

(* When in addition the limit is set once and init is not used, the number  *)
(* of connections never exceeds maxPoolSize, even if opens fail and cleanUp *)
(* closes connections meanwhile.                                            *)
THEOREM NeverMoreThanMaxPoolSize ==
    ASSUME "lost" \notin Faults, "reclose" \notin Uses \/ ~AutoClean,
           Uses \cap {"init", "initAsync"} = {}, NewSizes = {}
    PROVE  Spec => []NeverAboveMax
  <1>1. NoneDropped
    BY DEF NoneDropped
  <1>2. CountInv => NeverAboveMax
    BY ExistingKnown, NowFields DEF CountInv, Alive, NeverAboveMax
  <1> QED
    BY <1>1, <1>2, SpecCount, PTL

(* When every open succeeds, the limit is set once and autoCleanIdle is off,*)
(* a request waits only while the pool is full.                             *)
THEOREM WaitsOnlyForAFullPool ==
    ASSUME "lost" \notin Faults, "open" \notin Faults, ~AutoClean, NewSizes = {}
    PROVE  Spec => []WaitOnlyWhenFull
  <1>1. NoneDropped
    BY DEF NoneDropped
  <1>2. CountInv => WaitOnlyWhenFull
    BY DEF CountInv, WaitOnlyWhenFull
  <1> QED
    BY <1>1, <1>2, SpecCount, PTL

-----------------------------------------------------------------------------
(* usedPool lists what the clients hold.                                    *)

(* The requests of a queue are those of different clients, all of them      *)
(* waiting.                                                                 *)
Line(f, state) ==
    /\ \A i \in DOMAIN f : f[i].client \in Clients /\ state[f[i].client] = "queued"
    /\ \A i, j \in DOMAIN f : f[i].client = f[j].client => i = j

LEMMA LineTail ==
    ASSUME NEW f \in Seq(Requests), f # <<>>, NEW state, Line(f, state)
    PROVE  /\ Line(Tail(f), state)
           /\ \A i \in DOMAIN Tail(f) : Tail(f)[i].client # Head(f).client
  <1>1. /\ Len(f) \in Nat \ {0} /\ DOMAIN f = 1 .. Len(f)
        /\ Tail(f) \in Seq(Requests) /\ Len(Tail(f)) = Len(f) - 1
        /\ \A i \in 1 .. Len(Tail(f)) : Tail(f)[i] = f[i + 1]
        /\ Head(f) = f[1]
    BY HeadTailProperties
  <1>2. DOMAIN Tail(f) = 1 .. Len(f) - 1
    BY <1>1
  <1> QED
    BY <1>1, <1>2 DEF Line

LEMMA LineAppend ==
    ASSUME NEW f \in Seq(Requests), NEW state, Line(f, state),
           NEW w, w.client \in Clients, state[w.client] = "queued",
           \A i \in DOMAIN f : f[i].client # w.client
    PROVE  Line(Append(f, w), state)
  <1> DEFINE g == Append(f, w)
  <1>1. /\ DOMAIN f = 1 .. Len(f) /\ Len(f) \in Nat
        /\ DOMAIN g = 1 .. Len(f) + 1
        /\ \A i \in 1 .. Len(f) : g[i] = f[i]
        /\ g[Len(f) + 1] = w
    OBVIOUS
  <1> HIDE DEF g
  <1>2. \A i \in DOMAIN g : \/ i \in DOMAIN f /\ g[i] = f[i]
                            \/ i = Len(f) + 1 /\ g[i] = w
    BY <1>1
  <1>3. Line(g, state)
    BY <1>2 DEF Line
  <1> QED
    BY <1>3 DEF g

LEMMA LineFrame ==
    ASSUME NEW f, NEW one, NEW two, Line(f, one),
           \A c \in Clients : one[c] = "queued" =>
              two[c] = "queued" \/ \A i \in DOMAIN f : f[i].client # c
    PROVE  Line(f, two)
  BY DEF Line

(* What the clients hold is in usedPool, and the other way round; a client  *)
(* does one thing at a time.                                                *)
Held(p) ==
    /\ \A s \in Strs : \A d \in Elems(p.used[s]) :
          \E c \in Clients : p.pc[c] = "holding" /\ p.ref[c] = d
    /\ \A c \in Clients :
          p.pc[c] = "holding" => p.ref[c] \in Elems(p.used[StrOf[p.ref[c]]])

Waiting(p) ==
    /\ Line(p.fifo, p.pc)
    /\ \A d \in Conns : p.opening[d] # Nobody => p.pc[p.opening[d]] = "opening"
    /\ \A d, e \in Conns :
          p.opening[d] # Nobody /\ p.opening[d] = p.opening[e] => d = e

(* Client c, which held nothing, gets d.                                    *)
LEMMA HeldMore ==
    ASSUME NEW p, NEW q, NEW c \in Clients, NEW d \in Conns,
           p \in PoolStates, Held(p), p.pc[c] # "holding", Handed(p, q, c, d),
           Elems(q.used[StrOf[d]]) = Elems(p.used[StrOf[d]]) \cup {d},
           \A t \in Strs \ {StrOf[d]} : q.used[t] = p.used[t],
           \A e \in Clients : p.pc[e] = "holding" => p.ref[e] \in Conns
    PROVE  Held(q)
  <1>1. /\ q.pc[c] = "holding" /\ q.ref[c] = d
        /\ \A e \in Clients \ {c} : q.pc[e] = p.pc[e] /\ q.ref[e] = p.ref[e]
    BY DEF Handed, PoolStates
  <1>2. StrOf[d] \in Strs /\ \A e \in Conns : StrOf[e] \in Strs
    BY ConstantsAssumption
  <1>3. \A t \in Strs : \A e \in Elems(q.used[t]) :
           e \in Elems(p.used[t]) \/ e = d
    BY <1>2
  <1>4. \A t \in Strs : \A e \in Elems(p.used[t]) : e \in Elems(q.used[t])
    BY <1>2
  <1>5. ASSUME NEW t \in Strs, NEW e \in Elems(q.used[t])
        PROVE  \E k \in Clients : q.pc[k] = "holding" /\ q.ref[k] = e
    <2>1. CASE e = d
      BY <1>1, <2>1
    <2>2. CASE e \in Elems(p.used[t])
      <3>1. PICK k \in Clients : p.pc[k] = "holding" /\ p.ref[k] = e
        BY <2>2 DEF Held
      <3> QED
        BY <1>1, <3>1
    <2> QED
      BY <1>3, <1>5, <2>1, <2>2
  <1>6. ASSUME NEW e \in Clients, q.pc[e] = "holding"
        PROVE  q.ref[e] \in Elems(q.used[StrOf[q.ref[e]]])
    <2>1. CASE e = c
      BY <1>1, <2>1
    <2>2. CASE e # c
      <3>1. p.pc[e] = "holding" /\ q.ref[e] = p.ref[e]
        BY <1>1, <1>6, <2>2
      <3>2. p.ref[e] \in Elems(p.used[StrOf[p.ref[e]]]) /\ p.ref[e] \in Conns
        BY <3>1 DEF Held
      <3> QED
        BY <1>2, <1>4, <3>1, <3>2
    <2> QED
      BY <2>1, <2>2
  <1> QED
    BY <1>5, <1>6 DEF Held

LEMMA HeldFrame ==
    ASSUME NEW p, NEW q, q.used = p.used, q.ref = p.ref, Held(p),
           \A c \in Clients : q.pc[c] = "holding" <=> p.pc[c] = "holding"
    PROVE  Held(q)
  BY DEF Held

(* splice takes out the element it found, and only it.                      *)
LEMMA SpliceExact ==
    ASSUME NEW s, NEW list, Uniq(list, s), NEW d \in Elems(list)
    PROVE  Elems(SpliceOut(list, d)) = Elems(list) \ {d}
  <1> DEFINE i == CHOOSE k \in DOMAIN list : list[k] = d
             out == Without(list, i)
  <1>1. /\ DOMAIN list = 1 .. Len(list) /\ Len(list) \in Nat
        /\ \A j, k \in DOMAIN list : list[j] = list[k] => j = k
    BY DEF Uniq
  <1>2. i \in DOMAIN list /\ list[i] = d
    BY DEF Elems
  <1>3. SpliceOut(list, d) = out
    BY DEF SpliceOut
  <1> HIDE DEF i
  <1>4. /\ DOMAIN out = 1 .. Len(list) - 1
        /\ \A j \in 1 .. Len(list) - 1 :
              out[j] = IF j < i THEN list[j] ELSE list[j + 1]
    BY DEF Without
  <1> HIDE DEF out
  <1>5. ASSUME NEW e \in Elems(list), e # d
        PROVE  e \in Elems(out)
    <2>1. PICK k \in DOMAIN list : list[k] = e
      BY <1>5 DEF Elems
    <2>2. k # i /\ k \in 1 .. Len(list) /\ i \in 1 .. Len(list)
      BY <1>1, <1>2, <1>5, <2>1
    <2>3. CASE k < i
      <3>1. k \in DOMAIN out /\ out[k] = list[k]
        BY <1>1, <1>4, <2>2, <2>3
      <3> QED
        BY <2>1, <3>1 DEF Elems
    <2>4. CASE k > i
      <3>1. k - 1 \in DOMAIN out /\ out[k - 1] = list[k]
        BY <1>1, <1>4, <2>2, <2>4
      <3> QED
        BY <2>1, <3>1 DEF Elems
    <2> QED
      BY <1>1, <2>2, <2>3, <2>4
  <1>6. Elems(out) \subseteq Elems(list) \ {d}
    BY <1>3, SpliceList
  <1> QED
    BY <1>3, <1>5, <1>6

(* A client that neither waits nor opens changes what it does. *)
LEMMA WaitingFrame ==
    ASSUME NEW p, NEW q, NEW c \in Clients, p \in PoolStates, Waiting(p),
           q.fifo = p.fifo, q.opening = p.opening,
           p.pc[c] # "queued", \A d \in Conns : p.opening[d] # c,
           \A e \in Clients \ {c} : q.pc[e] = p.pc[e]
    PROVE  Waiting(q)
  <1>1. Line(q.fifo, q.pc)
    BY LineFrame DEF Waiting
  <1>2. \A d \in Conns : q.opening[d] # Nobody => q.opening[d] \in Clients \ {c}
    BY DEF PoolStates
  <1>3. \A d \in Conns : q.opening[d] # Nobody => q.pc[q.opening[d]] = "opening"
    BY <1>2 DEF Waiting
  <1> QED
    BY <1>1, <1>3 DEF Waiting

LEMMA RunNextHeld ==
    ASSUME NEW p, Sane(p), Waiting(p), NEW n, n = RunNext(p)
    PROVE  Waiting(n) /\ (Held(p) => Held(n))
  <1> DEFINE w == Head(p.fifo)
             d == Head(p.avail[w.str])
  <1>1. p \in PoolStates /\ p.fifo \in Seq(Requests)
    BY DEF Sane, PoolStates
  <1>2. CASE p.fifo = <<>>
    BY <1>2, RunNextEffect
  <1>3. CASE p.fifo # <<>>
    <2>1. /\ w \in Requests /\ Next1(p, n, w) /\ SameRest(p, n)
      BY <1>3, RunNextEffect
    <2>2. w.client \in Clients /\ p.pc[w.client] = "queued"
      <3>1. 1 \in DOMAIN p.fifo /\ w = p.fifo[1]
        BY <1>1, <1>3
      <3> HIDE DEF w
      <3> QED
        BY <3>1 DEF Waiting, Line
    <2>3. w.str \in Strs
      BY <2>1 DEF Requests
    <2>4. /\ Line(Tail(p.fifo), p.pc) /\ Tail(p.fifo) \in Seq(Requests)
          /\ \A i \in DOMAIN Tail(p.fifo) : Tail(p.fifo)[i].client # w.client
      BY <1>1, <1>3, LineTail DEF Waiting
    <2>5. w.client # Nobody
      BY <2>2, ConstantsAssumption
    <2> HIDE DEF w
    <2>6. CASE /\ p.avail[w.str] = <<>>
               /\ n.fifo = Append(Tail(p.fifo), w)
               /\ n.avail = p.avail /\ n.used = p.used
               /\ n.pc = p.pc /\ n.ref = p.ref
      <3>0. Line(Append(Tail(p.fifo), w), p.pc)
        BY <2>2, <2>4, LineAppend
      <3>1. Line(n.fifo, n.pc)
        BY <2>6, <3>0
      <3>2. Waiting(n)
        BY <2>1, <2>6, <3>1 DEF Waiting, SameRest, SameOpens
      <3>3. Held(p) => Held(n)
        BY <2>6, HeldFrame
      <3> QED
        BY <3>2, <3>3
    <2>7. CASE /\ p.avail[w.str] # <<>>
               /\ n.fifo = Tail(p.fifo)
               /\ Taken(p, n, w.str, d)
               /\ Handed(p, n, w.client, d)
      <3>0. Elems(n.used[w.str]) = Elems(p.used[w.str]) \cup {d}
        <4>1. p.avail[w.str] # <<>> /\ Taken(p, n, w.str, d)
          BY <2>7
        <4> QED
          BY <2>3, <4>1, TakenElems
      <3> HIDE DEF d
      <3>1. /\ d \in Conns /\ StrOf[d] = w.str
            /\ \A t \in Strs \ {w.str} : n.used[t] = p.used[t]
        BY <2>7 DEF Taken
      <3>2. ASSUME Held(p)
            PROVE  Held(n)
        <4>1. /\ Elems(n.used[StrOf[d]]) = Elems(p.used[StrOf[d]]) \cup {d}
              /\ \A t \in Strs \ {StrOf[d]} : n.used[t] = p.used[t]
          BY <3>0, <3>1
        <4>2. \A e \in Clients : p.pc[e] = "holding" => p.ref[e] \in Conns
          BY DEF Sane, Handles
        <4> DEFINE c == w.client
        <4>3. c \in Clients /\ p.pc[c] # "holding" /\ Handed(p, n, c, d)
          BY <2>2, <2>7
        <4> HIDE DEF c
        <4> QED
          BY <1>1, <3>1, <3>2, <4>1, <4>2, <4>3, HeldMore
      <3>3. \A e \in Clients \ {w.client} : n.pc[e] = p.pc[e]
        BY <1>1, <2>7 DEF Handed, PoolStates
      <3>4. Line(n.fifo, n.pc)
        <4>1. \A e \in Clients : p.pc[e] = "queued" =>
                 \/ n.pc[e] = "queued"
                 \/ \A i \in DOMAIN Tail(p.fifo) : Tail(p.fifo)[i].client # e
          BY <2>4, <3>3
        <4>2. Line(Tail(p.fifo), n.pc)
          BY <2>4, <4>1, LineFrame
        <4> QED
          BY <2>7, <4>2
      <3>5. n.opening = p.opening
        BY <2>1 DEF SameRest, SameOpens
      <3>6. \A e \in Conns : n.opening[e] # Nobody =>
               n.opening[e] \in Clients \ {w.client}
        BY <1>1, <2>2, <3>5 DEF PoolStates, Waiting
      <3>7. \A e \in Conns : n.opening[e] # Nobody =>
               n.pc[n.opening[e]] = "opening"
        BY <3>3, <3>5, <3>6 DEF Waiting
      <3>8. Waiting(n)
        BY <3>4, <3>5, <3>7 DEF Waiting
      <3> QED
        BY <3>2, <3>8
    <2> QED
      BY <2>1, <2>5, <2>6, <2>7 DEF Next1
  <1> QED
    BY <1>2, <1>3

(* A client let go of d, the pool has not yet taken it back. *)
HeldBut(p, d) ==
    /\ \A s \in Strs : \A e \in Elems(p.used[s]) \ {d} :
          \E c \in Clients : p.pc[c] = "holding" /\ p.ref[c] = e
    /\ \A c \in Clients : p.pc[c] = "holding" =>
          p.ref[c] \in Elems(p.used[StrOf[p.ref[c]]]) \ {d}
    /\ d \in Elems(p.used[StrOf[d]])

(* The pool takes d back, and has yet to run the queue.                     *)
LEMMA ReturnedHeld ==
    ASSUME NEW p, NEW d \in Conns, Sane(p), Waiting(p),
           NEW r, Returned(p, r, d)
    PROVE  Waiting(r) /\ (HeldBut(p, d) => Held(r))
  <1> DEFINE s == StrOf[d]
  <1>1. /\ s \in Strs /\ s = StrOf[d]
        /\ \A e \in Conns : StrOf[e] \in Strs
    BY ConstantsAssumption
  <1> HIDE DEF s
  <1>2. /\ SameOpens(p, r) /\ r.fifo = p.fifo
        /\ r.pc = p.pc /\ r.ref = p.ref
        /\ r.used[s] = SpliceOut(p.used[s], d)
        /\ \A t \in Strs \ {s} : r.used[t] = p.used[t]
    BY <1>1 DEF Returned
  <1>3. ASSUME HeldBut(p, d)
        PROVE  \A t \in Strs : Elems(r.used[t]) = Elems(p.used[t]) \ {d}
    <2>1. \A t \in Strs : Uniq(p.used[t], t)
      BY DEF Sane, Lists
    <2>2. Elems(r.used[s]) = Elems(p.used[s]) \ {d}
      BY <1>1, <1>2, <1>3, <2>1, SpliceExact DEF HeldBut
    <2>3. \A t \in Strs \ {s} : d \notin Elems(p.used[t])
      BY <1>1, <2>1, ElemsTyped
    <2> QED
      BY <1>2, <2>2, <2>3
  <1>4. ASSUME HeldBut(p, d)
        PROVE  Held(r)
    <2>1. \A c \in Clients : p.pc[c] = "holding" => p.ref[c] \in Conns
      BY DEF Sane, Handles
    <2>2. \A t \in Strs : \A e \in Elems(r.used[t]) :
             \E c \in Clients : r.pc[c] = "holding" /\ r.ref[c] = e
      BY <1>2, <1>3, <1>4 DEF HeldBut
    <2>3. ASSUME NEW c \in Clients, r.pc[c] = "holding"
          PROVE  r.ref[c] \in Elems(r.used[StrOf[r.ref[c]]])
      <3>1. p.pc[c] = "holding" /\ r.ref[c] = p.ref[c]
        BY <1>2, <2>3
      <3>2. /\ p.ref[c] \in Elems(p.used[StrOf[p.ref[c]]]) \ {d}
            /\ StrOf[p.ref[c]] \in Strs
        BY <1>1, <1>4, <2>1, <3>1 DEF HeldBut
      <3> QED
        BY <1>3, <1>4, <3>1, <3>2
    <2> QED
      BY <2>2, <2>3 DEF Held
  <1>5. Waiting(r)
    BY <1>2 DEF Waiting, SameOpens
  <1> QED
    BY <1>4, <1>5

(* cleanUp and the queue.                                                   *)
LEMMA CleanUpRunNextHeld ==
    ASSUME NEW r, NEW s \in Strs, NEW idle, Sane(r), Waiting(r),
           NEW n, n = RunNext(CleanUp(r, s, idle))
    PROVE  Waiting(n) /\ (Held(r) => Held(n))
  <1> DEFINE v == CleanUp(r, s, idle)
  <1>1. v = CleanUp(r, s, idle) /\ n = RunNext(v)
    OBVIOUS
  <1> HIDE DEF v
  <1>2. Sane(v)
    BY <1>1, CleanUpKeeps, Z3
  <1>3. /\ SameOpens(r, v) /\ v.fifo = r.fifo /\ v.used = r.used
        /\ v.pc = r.pc /\ v.ref = r.ref
    BY <1>1, CleanUpEffect
  <1>4. Waiting(v) /\ (Held(r) => Held(v))
    BY <1>3 DEF Held, Waiting, SameOpens
  <1> QED
    BY <1>1, <1>2, <1>4, RunNextHeld

LEMMA WakesHeld ==
    ASSUME NEW p, NEW idle, NEW d \in Conns, Sane(p), Waiting(p),
           NEW n, n = Wakes(p, d, idle)
    PROVE  Waiting(n) /\ (Held(p) => Held(n))
  <1>1. StrOf[d] \in Strs
    BY ConstantsAssumption
  <1>2. CASE d \in p.live /\ AutoClean
    <2>1. n = RunNext(CleanUp(p, StrOf[d], idle))
      BY <1>2 DEF Wakes
    <2> QED
      BY <1>1, <2>1, CleanUpRunNextHeld
  <1>3. CASE ~(d \in p.live /\ AutoClean)
    <2>1. n = RunNext(p)
      BY <1>3 DEF Wakes
    <2> QED
      BY <2>1, RunNextHeld
  <1> QED
    BY <1>2, <1>3

LEMMA ReleaseHeld ==
    ASSUME NEW p, NEW idle, NEW d \in Conns, Sane(p), d \notin Starting(p),
           d \notin Elems(p.avail[StrOf[d]]),
           Waiting(p),
           NEW n, n = Release(p, d, idle)
    PROVE  Waiting(n) /\ (HeldBut(p, d) => Held(n))
  <1> DEFINE s == StrOf[d]
             rest == idle \ {d}
  <1>1. PICK r : /\ Returned(p, r, d)
                 /\ n = IF d \in p.live /\ AutoClean
                        THEN RunNext(CleanUp(r, s, rest))
                        ELSE RunNext(r)
    BY ReleaseReturns
  <1>2. s \in Strs
    BY ConstantsAssumption
  <1> HIDE DEF s, rest
  <1>3. Sane(r)
    BY <1>1 DEF Returned
  <1>4. Waiting(r) /\ (HeldBut(p, d) => Held(r))
    BY <1>1, ReturnedHeld
  <1>5. CASE n = RunNext(r)
    BY <1>3, <1>4, <1>5, RunNextHeld
  <1>6. CASE n = RunNext(CleanUp(r, s, rest))
    BY <1>2, <1>3, <1>4, <1>6, CleanUpRunNextHeld
  <1> QED
    BY <1>1, <1>5, <1>6

LEMMA PoolCloseHeld ==
    ASSUME NEW p, NEW idle, NEW d \in Conns, Sane(p), d \notin Starting(p),
           Waiting(p), d \notin Elems(p.avail[StrOf[d]]),
           NEW n, n = PoolClose(p, d, idle)
    PROVE  Waiting(n) /\ (HeldBut(p, d) => Held(n))
  <1> DEFINE q == [Stamp(p, d) EXCEPT !.tx = @ \ {d}]
             t1 == p.tx \ {d}
             z == [p EXCEPT !.stamped = p.stamped \cup {d}, !.tx = t1]
  <1>1. p \in PoolStates
    BY DEF Sane
  <1>2. n = Release(q, d, idle)
    BY DEF PoolClose
  <1>3. q = z
    BY <1>1 DEF Stamp, PoolStates
  <1>4. t1 \subseteq Conns
    BY <1>1 DEF PoolStates
  <1> HIDE DEF q, t1
  <1>5. SameHandles(p, z) /\ z.fifo = p.fifo
    BY <1>1, <1>4 DEF PoolStates, SameHandles, SameOpens
  <1> HIDE DEF z
  <1>6. Sane(z)
    BY <1>5, SameHandlesKeeps
  <1>7. /\ z.avail = p.avail /\ z.used = p.used
        /\ z.pc = p.pc /\ z.ref = p.ref /\ SameOpens(p, z)
    BY <1>5 DEF SameHandles
  <1>8. d \notin Starting(z) /\ Waiting(z) /\ (HeldBut(p, d) => HeldBut(z, d))
    BY <1>5, <1>7 DEF SameOpens, Starting, HeldBut, Waiting
  <1> QED
    BY <1>2, <1>3, <1>6, <1>7, <1>8, ReleaseHeld

(* What a step does to the two: a client that closes a connection it has    *)
(* given back already can break the first one, never the second.            *)
HeldStep ==
    /\ Waiting(Now')
    /\ "reclose" \notin Uses /\ Alive(Now) /\ Held(Now) => Held(Now')

LEMMA HeldBecomes ==
    ASSUME NEW q, Becomes(q), Waiting(q),
           "reclose" \notin Uses /\ Alive(Now) /\ Held(Now) => Held(q)
    PROVE  HeldStep
  <1> DEFINE m == Now'
  <1>1. /\ m.used = q.used /\ m.fifo = q.fifo /\ m.opening = q.opening
        /\ m.pc = q.pc /\ m.ref = q.ref
    BY BecomesFields
  <1> HIDE DEF m
  <1>2. Waiting(m)
    BY <1>1 DEF Waiting
  <1>3. Held(q) <=> Held(m)
    BY <1>1 DEF Held
  <1> QED
    BY <1>2, <1>3 DEF m, HeldStep

LEMMA HeldSame ==
    ASSUME Waiting(Now), NEW q, Becomes(q), q.used = Now.used, q.fifo = Now.fifo,
           q.opening = Now.opening, q.pc = Now.pc, q.ref = Now.ref
    PROVE  HeldStep
  <1>1. Waiting(q) /\ (Held(Now) => Held(q))
    BY DEF Held, Waiting
  <1> QED
    BY <1>1, HeldBecomes

LEMMA OpenHeld ==
    ASSUME IInv, Waiting(Now), NEW c \in Clients, NEW s \in Strs, Open(c, s)
    PROVE  HeldStep
  <1>1. PICK z, q :
           /\ Now.pc[c] = "idle" /\ Begun(z, c, s) /\ Becomes(q)
           /\ \/ Served(z, q, c, s)
              \/ /\ z.avail[s] = <<>> /\ Full(z) /\ Parked(z, q, c, s)
                 /\ q.pc = [z.pc EXCEPT ![c] = "queued"]
              \/ /\ z.avail[s] = <<>> /\ ~Full(z)
                 /\ \E d \in Fresh(s) : Starts(z, q, c, d)
    BY OpenEffect
  <1>2. /\ Sane(z) /\ z \in PoolStates /\ z.fifo \in Seq(Requests)
        /\ z.opening = Now.opening /\ z.fifo = Now.fifo /\ z.pc = Now.pc
        /\ z.used = Now.used
        /\ \A e \in Clients \ {c} : z.ref[e] = Now.ref[e]
    BY <1>1 DEF Begun, SameOpens, Sane, PoolStates
  <1>3. Waiting(z) /\ z.pc[c] = "idle" /\ (Held(Now) => Held(z))
    <2>1. Waiting(z) /\ z.pc[c] = "idle"
      BY <1>1, <1>2 DEF Waiting
    <2>2. \A e \in Clients : z.pc[e] = "holding" =>
             Now.pc[e] = "holding" /\ z.ref[e] = Now.ref[e]
      BY <1>1, <1>2
    <2>3. \A e \in Clients : Now.pc[e] = "holding" =>
             z.pc[e] = "holding" /\ z.ref[e] = Now.ref[e]
      BY <1>1, <1>2
    <2>4. Held(Now) => Held(z)
      BY <1>2, <2>2, <2>3 DEF Held
    <2> QED
      BY <2>1, <2>4
  <1>4. \A d \in Conns : z.opening[d] # c
    BY <1>3, ConstantsAssumption DEF Waiting
  <1>5. \A e \in Clients : z.pc[e] = "holding" => z.ref[e] \in Conns
    BY <1>2 DEF Sane, Handles
  <1>6. ASSUME Served(z, q, c, s)
        PROVE  Waiting(q) /\ (Held(z) => Held(q))
    <2> DEFINE d == Head(z.avail[s])
    <2>1. /\ z.avail[s] # <<>> /\ Taken(z, q, s, d) /\ Handed(z, q, c, d)
          /\ SameRest(z, q) /\ q.fifo = z.fifo
      BY <1>6 DEF Served
    <2>2. Elems(q.used[s]) = Elems(z.used[s]) \cup {d}
      <3>1. z.avail[s] # <<>> /\ Taken(z, q, s, d) /\ Sane(z)
        BY <1>2, <2>1
      <3> QED
        BY <3>1, TakenElems
    <2> HIDE DEF d
    <2>3. /\ d \in Conns /\ StrOf[d] = s
          /\ \A t \in Strs \ {s} : q.used[t] = z.used[t]
      BY <2>1 DEF Taken
    <2>4. Elems(q.used[StrOf[d]]) = Elems(z.used[StrOf[d]]) \cup {d}
          /\ \A t \in Strs \ {StrOf[d]} : q.used[t] = z.used[t]
      BY <2>2, <2>3
    <2>5. Held(z) => Held(q)
      BY <1>2, <1>3, <1>5, <2>1, <2>3, <2>4, HeldMore
    <2>6. q.opening = z.opening /\ \A e \in Clients \ {c} : q.pc[e] = z.pc[e]
      BY <1>2, <2>1 DEF Handed, PoolStates, SameRest, SameOpens
    <2>7. Waiting(q)
      BY <1>2, <1>3, <1>4, <2>1, <2>6, WaitingFrame
    <2> QED
      BY <2>5, <2>7
  <1>7. ASSUME Parked(z, q, c, s), q.pc = [z.pc EXCEPT ![c] = "queued"]
        PROVE  Waiting(q) /\ (Held(z) => Held(q))
    <2> DEFINE w == [client |-> c, str |-> s]
    <2>1. /\ q.used = z.used /\ q.ref = z.ref /\ q.opening = z.opening
          /\ q.fifo = Append(z.fifo, w) /\ w.client = c
      BY <1>7 DEF Parked, SameRest, SameOpens
    <2> HIDE DEF w
    <2>2. q.pc[c] = "queued" /\ \A e \in Clients \ {c} : q.pc[e] = z.pc[e]
      BY <1>2, <1>7 DEF PoolStates
    <2>3. Held(z) => Held(q)
      <3>1. \A e \in Clients : q.pc[e] = "holding" <=> z.pc[e] = "holding"
        BY <1>3, <2>2
      <3> QED
        BY <2>1, <3>1, HeldFrame
    <2>4. Line(z.fifo, z.pc) /\ \A i \in DOMAIN z.fifo : z.fifo[i].client # c
      BY <1>3 DEF Waiting, Line
    <2>5. Line(z.fifo, q.pc)
      BY <2>2, <2>4, LineFrame
    <2>6. Line(Append(z.fifo, w), q.pc)
      BY <1>2, <2>1, <2>2, <2>4, <2>5, LineAppend
    <2>7. \A d \in Conns : q.opening[d] # Nobody => q.pc[q.opening[d]] = "opening"
      BY <1>2, <1>3, <1>4, <2>1, <2>2 DEF Waiting, PoolStates
    <2>8. Waiting(q)
      BY <1>3, <2>1, <2>6, <2>7 DEF Waiting
    <2> QED
      BY <2>3, <2>8
  <1>8. ASSUME NEW d \in Fresh(s), Starts(z, q, c, d)
        PROVE  Waiting(q) /\ (Held(z) => Held(q))
    <2>1. /\ q.used = z.used /\ q.ref = z.ref /\ q.fifo = z.fifo
          /\ q.pc[c] = "opening" /\ \A e \in Clients \ {c} : q.pc[e] = z.pc[e]
          /\ q.opening[d] = c /\ \A e \in Conns \ {d} : q.opening[e] = z.opening[e]
      BY <1>8 DEF Starts
    <2>2. Held(z) => Held(q)
      <3>1. \A e \in Clients : q.pc[e] = "holding" <=> z.pc[e] = "holding"
        BY <1>3, <2>1
      <3> QED
        BY <2>1, <3>1, HeldFrame
    <2>3. \A e \in Clients : z.pc[e] = "queued" => q.pc[e] = "queued"
      BY <1>3, <2>1
    <2>4. Line(q.fifo, q.pc)
      <3>1. Line(z.fifo, q.pc)
        BY <1>3, <2>3, LineFrame DEF Waiting
      <3> QED
        BY <2>1, <3>1
    <2>5. \A e \in Conns : q.opening[e] # Nobody => q.pc[q.opening[e]] = "opening"
      <3>1. \A e \in Conns \ {d} :
               z.opening[e] # Nobody => z.opening[e] \in Clients \ {c}
        BY <1>2, <1>4 DEF PoolStates
      <3> QED
        BY <1>3, <2>1, <3>1 DEF Waiting
    <2>6. \A e, f \in Conns :
             q.opening[e] # Nobody /\ q.opening[e] = q.opening[f] => e = f
      BY <1>3, <1>4, <2>1 DEF Waiting
    <2>7. Waiting(q)
      BY <2>4, <2>5, <2>6 DEF Waiting
    <2> QED
      BY <2>2, <2>7
  <1>9. Waiting(q) /\ (Held(z) => Held(q))
    BY <1>1, <1>6, <1>7, <1>8
  <1> QED
    BY <1>1, <1>3, <1>9, HeldBecomes

LEMMA OpenDoneHeld ==
    ASSUME IInv, Waiting(Now), NEW d \in Conns, OpenDone(d)
    PROVE  HeldStep
  <1>1. PICK c, z, q :
           /\ Ended(z, d, c) /\ Becomes(q)
           /\ \/ Opened(z, q, c, d) /\ q.size = z.size
              \/ /\ "open" \in Faults
                 /\ SameOpens(z, q) /\ q.live = z.live /\ q.tx = z.tx
                 /\ q.closing = z.closing /\ q.fifo = z.fifo
                 /\ q.avail = z.avail /\ q.used = z.used
                 /\ q.ref = z.ref /\ q.pc = [z.pc EXCEPT ![c] = "idle"]
                 /\ q.size = z.size - 1
    BY OpenDoneEffect
  <1>2. /\ c = Now.opening[d] /\ c \in Clients /\ z \in PoolStates
        /\ z.used = Now.used /\ z.fifo = Now.fifo
        /\ z.pc = Now.pc /\ z.ref = Now.ref
        /\ z.opening[d] = Nobody
        /\ \A e \in Conns \ {d} : z.opening[e] = Now.opening[e]
    BY <1>1 DEF Ended
  <1>3. c # Nobody /\ Now.pc[c] = "opening"
    BY <1>2, ConstantsAssumption DEF Waiting
  <1>4. Waiting(z) /\ (Held(Now) => Held(z))
    BY <1>2 DEF Held, Waiting
  <1>5. \A e \in Conns : z.opening[e] # c
    BY <1>2, <1>3 DEF Waiting
  <1>6. \A e \in Clients : z.pc[e] = "holding" => z.ref[e] \in Conns
    BY <1>2 DEF IInv, Good, Sane, Handles
  <1>7. ASSUME Opened(z, q, c, d)
        PROVE  Waiting(q) /\ (Held(z) => Held(q))
    <2>1. /\ q.used[StrOf[d]] = Append(z.used[StrOf[d]], d)
          /\ \A t \in Strs \ {StrOf[d]} : q.used[t] = z.used[t]
          /\ q.fifo = z.fifo /\ q.opening = z.opening /\ Handed(z, q, c, d)
      BY <1>7 DEF Opened, SameOpens
    <2>2. Uniq(z.used[StrOf[d]], StrOf[d]) /\ d \notin Elems(z.used[StrOf[d]])
      <3>1. StrOf[d] \in Strs /\ d \in Starting(Now)
        BY <1>2, <1>3, ConstantsAssumption DEF Starting
      <3> QED
        BY <1>2, <3>1 DEF IInv, Good, Sane, Lists, Apart
    <2>3. Elems(q.used[StrOf[d]]) = Elems(z.used[StrOf[d]]) \cup {d}
      BY <2>1, <2>2, PushList
    <2>4. z.pc[c] # "holding" /\ z.pc[c] # "queued"
      BY <1>2, <1>3
    <2>5. Held(z) => Held(q)
      BY <1>2, <1>6, <2>1, <2>3, <2>4, HeldMore
    <2>6. \A e \in Clients \ {c} : q.pc[e] = z.pc[e]
      BY <1>2, <2>1 DEF Handed, PoolStates
    <2>7. Waiting(q)
      BY <1>2, <1>4, <1>5, <2>1, <2>4, <2>6, WaitingFrame
    <2> QED
      BY <2>5, <2>7
  <1>8. ASSUME SameOpens(z, q), q.fifo = z.fifo, q.used = z.used, q.ref = z.ref,
               q.pc = [z.pc EXCEPT ![c] = "idle"]
        PROVE  Waiting(q) /\ (Held(z) => Held(q))
    <2>1. /\ q.pc[c] = "idle" /\ z.pc[c] = "opening"
          /\ \A e \in Clients \ {c} : q.pc[e] = z.pc[e]
      BY <1>2, <1>3, <1>8 DEF PoolStates
    <2>2. Held(z) => Held(q)
      <3>1. \A e \in Clients : q.pc[e] = "holding" <=> z.pc[e] = "holding"
        BY <2>1
      <3> QED
        BY <1>8, <3>1, HeldFrame
    <2>3. q.opening = z.opening /\ z.pc[c] # "queued"
      BY <1>8, <2>1 DEF SameOpens
    <2>4. Waiting(q)
      BY <1>2, <1>4, <1>5, <1>8, <2>1, <2>3, WaitingFrame
    <2> QED
      BY <2>2, <2>4
  <1>9. Waiting(q) /\ (Held(z) => Held(q))
    BY <1>1, <1>7, <1>8
  <1> QED
    BY <1>1, <1>4, <1>9, HeldBecomes

LEMMA LetsGoHeld ==
    ASSUME IInv, Waiting(Now), NEW z, NEW c \in Clients, NEW d, LetsGo(z, c, d)
    PROVE  /\ Waiting(z)
           /\ "reclose" \notin Uses /\ Alive(Now) /\ Held(Now) =>
                 HeldBut(z, d) /\ d \notin Elems(z.avail[StrOf[d]])
  <1>1. /\ Sane(z) /\ SameRest(Now, z)
        /\ d \in Conns /\ d \notin Starting(z) /\ d = Now.ref[c]
        /\ z.avail = Now.avail /\ z.used = Now.used /\ z.fifo = Now.fifo
        /\ z.pc[c] = "idle" /\ \A e \in Clients \ {c} : z.pc[e] = Now.pc[e]
        /\ \A e \in Clients \ {c} : z.ref[e] = Now.ref[e]
        /\ Now.pc[c] \in {"holding", "idle"}
        /\ "reclose" \in Uses \/ Now.pc[c] = "holding"
    BY DEF LetsGo
  <1>2. Waiting(z)
    <2>1. Now.pc[c] # "queued" /\ \A e \in Conns : Now.opening[e] # c
      BY <1>1, ConstantsAssumption DEF Waiting
    <2>2. z.opening = Now.opening /\ Now \in PoolStates
      BY <1>1 DEF SameRest, SameOpens, IInv, Good, Sane
    <2> QED
      BY <1>1, <2>1, <2>2, WaitingFrame
  <1>3. ASSUME "reclose" \notin Uses, Alive(Now), Held(Now)
        PROVE  HeldBut(z, d) /\ d \notin Elems(z.avail[StrOf[d]])
    <2>1. /\ Exclusive(Now, {}) /\ Now.pc[c] = "holding" /\ d \in Now.live
      BY <1>1, <1>3 DEF IInv, Good, Alive
    <2>2. /\ d \notin Elems(Now.avail[StrOf[d]])
          /\ \A e \in Clients \ {c} : Now.pc[e] = "holding" => Now.ref[e] # d
      BY <1>1, <2>1 DEF Exclusive
    <2>3. \A e \in Clients : z.pc[e] = "holding" =>
             e # c /\ Now.pc[e] = "holding" /\ z.ref[e] = Now.ref[e]
      BY <1>1
    <2>4. ASSUME NEW s \in Strs, NEW e \in Elems(z.used[s]) \ {d}
          PROVE  \E k \in Clients : z.pc[k] = "holding" /\ z.ref[k] = e
      <3>1. PICK k \in Clients : Now.pc[k] = "holding" /\ Now.ref[k] = e
        BY <1>1, <1>3, <2>4 DEF Held
      <3>2. k # c
        BY <1>1, <2>4, <3>1
      <3> QED
        BY <1>1, <3>1, <3>2
    <2>5. ASSUME NEW e \in Clients, z.pc[e] = "holding"
          PROVE  z.ref[e] \in Elems(z.used[StrOf[z.ref[e]]]) \ {d}
      BY <1>1, <1>3, <2>2, <2>3, <2>5 DEF Held
    <2>6. d \in Elems(z.used[StrOf[d]])
      BY <1>1, <1>3, <2>1 DEF Held
    <2>7. HeldBut(z, d)
      BY <2>4, <2>5, <2>6 DEF HeldBut
    <2> QED
      BY <1>1, <2>2, <2>7
  <1> QED
    BY <1>2, <1>3

LEMMA CloseHeld ==
    ASSUME IInv, Waiting(Now),
           NEW z, NEW c \in Clients, NEW d, NEW idle, NEW q,
           LetsGo(z, c, d), Becomes(q), q = PoolClose(z, d, idle)
    PROVE  HeldStep
  <1>1. Sane(z) /\ d \in Conns /\ d \notin Starting(z)
    BY DEF LetsGo
  <1>2. /\ Waiting(z)
        /\ "reclose" \notin Uses /\ Alive(Now) /\ Held(Now) =>
              HeldBut(z, d) /\ d \notin Elems(z.avail[StrOf[d]])
    BY LetsGoHeld
  <1>3. CASE d \in Elems(z.avail[StrOf[d]])
    <2>1. q = z
      BY <1>3 DEF PoolClose
    <2> QED
      BY <1>2, <1>3, <2>1, HeldBecomes
  <1>4. CASE d \notin Elems(z.avail[StrOf[d]])
    <2>1. Waiting(q) /\ (HeldBut(z, d) => Held(q))
      BY <1>1, <1>2, <1>4, PoolCloseHeld
    <2> QED
      BY <1>2, <2>1, HeldBecomes
  <1> QED
    BY <1>3, <1>4

LEMMA HeldNext ==
    ASSUME "lost" \notin Faults, "openSync" \notin Uses,
           CInv, Waiting(Now), [Next]_vars
    PROVE  HeldStep
  <1> USE DEF CInv
  <1>1. ASSUME NEW c \in Clients, NEW s \in Strs, Open(c, s) PROVE HeldStep
    BY <1>1, OpenHeld
  <1>2. ASSUME NEW c \in Clients, NEW s \in Strs, OpenSync(c, s) PROVE HeldStep
    BY <1>2 DEF OpenSync
  <1>3. ASSUME NEW c \in Clients, Close(c) PROVE HeldStep
    <2>1. PICK z, d, idle, q : /\ LetsGo(z, c, d) /\ Becomes(q)
                               /\ q = PoolClose(z, d, idle)
      BY <1>3, CloseEffect
    <2> QED
      BY <2>1, CloseHeld
  <1>4. ASSUME NEW c \in Clients, CloseSync(c) PROVE HeldStep
    <2>1. PICK z, d, idle, q, lost :
             /\ LetsGo(z, c, d) /\ Becomes(q)
             /\ q = PoolCloseSync(z, d, lost, idle)
             /\ lost # FALSE => "lost" \in Faults
      BY <1>4, CloseSyncEffect
    <2>2. q = PoolCloseSync(z, d, FALSE, idle)
      BY <2>1
    <2>3. q = PoolClose(z, d, idle)
      BY <2>1, <2>2, CloseSyncIsClose DEF LetsGo, Sane
    <2> QED
      BY <2>1, <2>3, CloseHeld
  <1>5. ASSUME NEW c \in Clients, CloseAgain(c) PROVE HeldStep
    <2>1. PICK z, d, idle, q : /\ LetsGo(z, c, d) /\ Becomes(q)
                               /\ q = PoolClose(z, d, idle)
      BY <1>5, CloseAgainEffect
    <2> QED
      BY <2>1, CloseHeld
  <1>6. ASSUME NEW c \in Clients, ConnectionLost(c) PROVE HeldStep
    BY <1>6 DEF ConnectionLost, MayLose
  <1>7. ASSUME NEW c \in Clients, BeginTransaction(c) PROVE HeldStep
    BY <1>7, BeginTransactionEffect, HeldSame DEF SameOpens
  <1>8. ASSUME NEW d \in Conns, OpenDone(d) PROVE HeldStep
    BY <1>8, OpenDoneHeld
  <1>9. ASSUME NEW d \in Conns, RealCloseDone(d) PROVE HeldStep
    BY <1>9, RealCloseDoneEffect, HeldSame DEF SameOpens
  <1>10. ASSUME NEW d \in Conns, InitAsyncDone(d) PROVE HeldStep
    BY <1>10, InitAsyncDoneEffect, HeldSame
  <1>11. ASSUME NEW s \in Strs, NEW n \in InitCounts, InitSync(n, s)
         PROVE  HeldStep
    BY <1>11, InitSyncEffect, HeldSame DEF SameOpens
  <1>12. ASSUME NEW s \in Strs, NEW n \in InitCounts, InitAsync(n, s)
         PROVE  HeldStep
    BY <1>12, InitAsyncEffect, HeldSame
  <1>13. CASE Now' = Now
    BY <1>13 DEF HeldStep
  <1>14. ASSUME NEW n \in NewSizes, SetMaxPoolSize(n) PROVE HeldStep
    BY <1>13, <1>14 DEF SetMaxPoolSize, poolVars, Now
  <1>15. CASE UNCHANGED vars
    BY <1>13, <1>15 DEF vars, poolVars, Now
  <1>16. ASSUME NEW c \in Clients, CloseCallsBack(c) \/ CloseAgainCallsBack(c)
         PROVE  HeldStep
    <2>1. PICK z, d, g : /\ LetsGo(z, c, d) /\ Becomes(g)
                         /\ BackOnOffer(z, g, d)
      BY <1>16, CloseCallsBackEffect
    <2>2. Returned(z, g, d) /\ Sane(z) /\ d \in Conns
      BY <2>1 DEF BackOnOffer, LetsGo
    <2>3. /\ Waiting(z)
          /\ "reclose" \notin Uses /\ Alive(Now) /\ Held(Now) => HeldBut(z, d)
      BY <2>1, LetsGoHeld
    <2>4. Waiting(g) /\ (HeldBut(z, d) => Held(g))
      BY <2>2, <2>3, ReturnedHeld
    <2> QED
      BY <2>1, <2>3, <2>4, HeldBecomes
  <1>17. ASSUME CallbackReturns PROVE HeldStep
    <2>1. PICK d, idle, n : /\ d \in Conns
                            /\ Becomes(n) /\ n = Wakes(Now, d, idle)
      BY <1>17, CallbackReturnsEffect
    <2>2. Sane(Now)
      BY DEF IInv, Good
    <2>3. Waiting(n) /\ (Held(Now) => Held(n))
      BY <2>1, <2>2, WakesHeld
    <2> QED
      BY <2>1, <2>3, HeldBecomes
  <1> QED
    BY <1>1, <1>2, <1>3, <1>4, <1>5, <1>6, <1>7, <1>8, <1>9, <1>10, <1>11,
       <1>12, <1>14, <1>15, <1>16, <1>17 DEF Next, Calls, Delivers

LEMMA InitHeld == Init => Waiting(Now) /\ Held(Now)
  <1> SUFFICES ASSUME Init PROVE Waiting(Now) /\ Held(Now)
    OBVIOUS
  <1>1. /\ Now.used = [s \in Strs |-> <<>>] /\ Now.fifo = <<>>
        /\ Now.opening = [d \in Conns |-> Nobody]
        /\ Now.pc = [c \in Clients |-> "idle"]
    BY NowFields DEF Init
  <1>2. \A s \in Strs : Elems(Now.used[s]) = {}
    BY <1>1 DEF Elems
  <1>3. Line(Now.fifo, Now.pc)
    BY <1>1 DEF Line
  <1> QED
    BY <1>1, <1>2, <1>3 DEF Held, Waiting

(* The two inductive invariants; the second one needs more assumptions.     *)
WaitingInv == Waiting(Now)
HeldInv    == Held(Now)

LEMMA SpecWaiting ==
    ASSUME "lost" \notin Faults, "openSync" \notin Uses
    PROVE  Spec => []WaitingInv
  <1>1. CInv /\ WaitingInv /\ [Next]_vars => WaitingInv'
    <2> SUFFICES ASSUME CInv, WaitingInv, [Next]_vars PROVE WaitingInv'
      OBVIOUS
    <2>1. HeldStep
      BY HeldNext DEF WaitingInv
    <2> QED
      BY <2>1 DEF HeldStep, WaitingInv
  <1>2. Init => WaitingInv
    BY InitHeld DEF WaitingInv
  <1> QED
    BY <1>1, <1>2, SpecCInv, PTL DEF Spec

LEMMA HeldFields ==
    ASSUME IInv, HeldInv
    PROVE  UsedIsHeld
  <1>1. \A c \in Clients : pc[c] = "holding" => StrOf[ref[c]] \in Strs
    BY NowFields, ConstantsAssumption DEF IInv, Good, Sane, Handles
  <1>2. /\ \A s \in Strs : \A d \in Elems(usedPool[s]) :
              \E c \in Clients : pc[c] = "holding" /\ ref[c] = d
        /\ \A c \in Clients :
              pc[c] = "holding" => ref[c] \in Elems(usedPool[StrOf[ref[c]]])
    BY NowFields DEF HeldInv, Held
  <1> QED
    BY <1>1, <1>2 DEF UsedIsHeld, AllOf

(* As long as the server drops no connection, no application closes one     *)
(* twice and none uses openSync, whose parked requests take connections for *)
(* nobody: usedPool lists exactly the connections the clients hold.         *)
THEOREM UsedConnectionsAreHeld ==
    ASSUME "lost" \notin Faults, Uses \cap {"reclose", "openSync"} = {}
    PROVE  Spec => []UsedIsHeld
  <1>1. NoneDropped /\ "openSync" \notin Uses
    BY DEF NoneDropped
  <1>2. CInv /\ CountInv /\ WaitingInv /\ HeldInv /\ [Next]_vars => HeldInv'
    <2> SUFFICES ASSUME CInv, CountInv, WaitingInv, HeldInv, [Next]_vars
                 PROVE  HeldInv'
      OBVIOUS
    <2>1. HeldStep
      BY HeldNext DEF WaitingInv
    <2>2. Alive(Now)
      BY <1>1 DEF CountInv
    <2> QED
      BY <2>1, <2>2 DEF HeldStep, HeldInv
  <1>3. Init => HeldInv
    BY InitHeld DEF HeldInv
  <1>4. IInv /\ HeldInv => UsedIsHeld
    BY HeldFields
  <1>5. (Spec => []CountInv) /\ (Spec => []WaitingInv)
    BY <1>1, SpecCount, SpecWaiting
  <1> QED
    BY <1>2, <1>3, <1>4, <1>5, SpecCInv, SpecIInv, PTL DEF Spec

-----------------------------------------------------------------------------
(* Requests are served in the order in which they came.                     *)

(* The queue is as it was, or has one more request, or its first one was    *)
(* served; while somebody waits, who asks now waits as well.                *)
Ordered(p, q) ==
    /\ \/ q.fifo = p.fifo
       \/ \E w \in Requests : q.fifo = Append(p.fifo, w)
       \/ /\ p.fifo # <<>> /\ q.fifo = Tail(p.fifo)
          /\ q.pc[Head(p.fifo).client] = "holding"
    /\ p.fifo # <<>> =>
          \A c \in Clients : p.pc[c] = "idle" => q.pc[c] \in {"idle", "queued"}

LEMMA OrderedFrame ==
    ASSUME NEW p, NEW z, NEW q, z.fifo = p.fifo, Ordered(z, q),
           \A c \in Clients : p.pc[c] = "idle" => z.pc[c] = "idle"
    PROVE  Ordered(p, q)
  BY DEF Ordered

(* queue.next serves the first request if it finds a connection.            *)
LEMMA RunNextServes ==
    ASSUME NEW p, Sane(p), Waiting(p), \A s \in Strs : p.avail[s] # <<>>,
           NEW n, n = RunNext(p)
    PROVE  Ordered(p, n)
  <1> DEFINE w == Head(p.fifo)
  <1>1. p \in PoolStates /\ p.fifo \in Seq(Requests)
    BY DEF Sane, PoolStates
  <1>2. CASE p.fifo = <<>>
    BY <1>2, RunNextEffect DEF Ordered
  <1>3. CASE p.fifo # <<>>
    <2>1. w \in Requests /\ Next1(p, n, w) /\ w = Head(p.fifo)
      BY <1>3, RunNextEffect
    <2>2. w.client \in Clients /\ p.pc[w.client] = "queued"
      <3>1. 1 \in DOMAIN p.fifo /\ w = p.fifo[1]
        BY <1>1, <1>3
      <3> HIDE DEF w
      <3> QED
        BY <3>1 DEF Waiting, Line
    <2>3. w.str \in Strs /\ w.client # Nobody
      BY <2>1, <2>2, ConstantsAssumption DEF Requests
    <2> HIDE DEF w
    <2>4. n.fifo = Tail(p.fifo) /\ Handed(p, n, w.client, Head(p.avail[w.str]))
      BY <2>1, <2>3 DEF Next1
    <2>5. /\ n.pc[w.client] = "holding"
          /\ \A c \in Clients \ {w.client} : n.pc[c] = p.pc[c]
      BY <1>1, <2>2, <2>4 DEF Handed, PoolStates
    <2> QED
      BY <1>3, <2>1, <2>2, <2>4, <2>5 DEF Ordered
  <1> QED
    BY <1>2, <1>3

(* A close serves the first request with the connection it returns.         *)
LEMMA ReleaseServes ==
    ASSUME NEW p, NEW idle, NEW d \in Conns, Sane(p), d \notin Starting(p),
           d \notin Elems(p.avail[StrOf[d]]), d \in p.live,
           Waiting(p), OneString, ~AutoClean,
           NEW n, n = Release(p, d, idle)
    PROVE  Ordered(p, n)
  <1>1. PICK r : Returned(p, r, d) /\ n = RunNext(r)
    BY ReleaseReturns
  <1>2. /\ Sane(r) /\ SameOpens(p, r) /\ r.fifo = p.fifo /\ r.pc = p.pc
        /\ r.avail[StrOf[d]] = Append(p.avail[StrOf[d]], d)
    BY <1>1 DEF Returned
  <1>3. StrOf[d] \in Strs /\ p.avail[StrOf[d]] \in Seq(Conns)
    BY ConstantsAssumption DEF Sane, PoolStates
  <1>4. r.avail[StrOf[d]] # <<>>
    BY <1>2, <1>3
  <1>5. \A s \in Strs : r.avail[s] # <<>>
    BY <1>3, <1>4 DEF OneString
  <1>6. Waiting(r)
    BY <1>2 DEF Waiting, SameOpens
  <1>7. Ordered(r, n)
    BY <1>1, <1>2, <1>5, <1>6, RunNextServes
  <1> QED
    BY <1>2, <1>7, OrderedFrame

LEMMA PoolCloseServes ==
    ASSUME NEW p, NEW idle, NEW d \in Conns, Sane(p), d \notin Starting(p),
           d \in p.live, Waiting(p), OneString, ~AutoClean,
           NEW n, n = PoolClose(p, d, idle)
    PROVE  Ordered(p, n)
  <1>1. CASE d \in Elems(p.avail[StrOf[d]])
    BY <1>1 DEF PoolClose, Ordered
  <1>2. CASE d \notin Elems(p.avail[StrOf[d]])
    <2> DEFINE q == [Stamp(p, d) EXCEPT !.tx = @ \ {d}]
               t1 == p.tx \ {d}
               z == [p EXCEPT !.stamped = p.stamped \cup {d}, !.tx = t1]
    <2>1. p \in PoolStates
      BY DEF Sane
    <2>2. n = Release(q, d, idle)
      BY <1>2 DEF PoolClose
    <2>3. q = z
      BY <2>1 DEF Stamp, PoolStates
    <2>4. t1 \subseteq Conns
      BY <2>1 DEF PoolStates
    <2> HIDE DEF q, t1
    <2>5. SameHandles(p, z) /\ z.fifo = p.fifo /\ z.live = p.live
      BY <2>1, <2>4 DEF PoolStates, SameHandles, SameOpens
    <2> HIDE DEF z
    <2>6. Sane(z)
      BY <2>5, SameHandlesKeeps
    <2>7. z.avail = p.avail /\ z.pc = p.pc /\ SameOpens(p, z)
      BY <2>5 DEF SameHandles
    <2>8. d \notin Starting(z) /\ Waiting(z)
      BY <2>5, <2>7 DEF SameOpens, Starting, Waiting
    <2>9. Ordered(z, n)
      BY <1>2, <2>2, <2>3, <2>5, <2>6, <2>7, <2>8, ReleaseServes
    <2> QED
      BY <2>5, <2>7, <2>9, OrderedFrame
  <1> QED
    BY <1>1, <1>2

OrderedStep == Ordered(Now, Now')

LEMMA OrderedBecomes ==
    ASSUME NEW q, Becomes(q), Ordered(Now, q)
    PROVE  OrderedStep
  <1> DEFINE m == Now'
  <1>1. m.fifo = q.fifo /\ m.pc = q.pc
    BY BecomesFields
  <1> HIDE DEF m
  <1>2. Ordered(Now, m)
    BY <1>1 DEF Ordered
  <1> QED
    BY <1>2 DEF m, OrderedStep

LEMMA OrderedSame ==
    ASSUME NEW q, Becomes(q), q.fifo = Now.fifo,
           \A c \in Clients : Now.pc[c] = "idle" => q.pc[c] = "idle"
    PROVE  OrderedStep
  <1>1. Ordered(Now, q)
    BY DEF Ordered
  <1> QED
    BY <1>1, OrderedBecomes

(* With no callback running nobody waits beside an idle connection.         *)
LEMMA PromptEmpty ==
    ASSUME NEW p, Sane(p), Prompt(p, 0), p.fifo # <<>>, NEW s \in Strs
    PROVE  p.avail[s] = <<>>
  <1>1. p.avail[s] \in Seq(Conns) /\ Len(p.avail[s]) <= 0
    BY DEF Sane, PoolStates, Prompt
  <1> QED
    BY <1>1

LEMMA OpenOrdered ==
    ASSUME IInv, Alive(Now), Prompt(Now, 0), Now.fifo # <<>> => Full(Now),
           NEW c \in Clients, NEW s \in Strs, Open(c, s)
    PROVE  OrderedStep
  <1>1. PICK z, q :
           /\ Now.pc[c] = "idle" /\ Begun(z, c, s) /\ Becomes(q)
           /\ \/ Served(z, q, c, s)
              \/ /\ z.avail[s] = <<>> /\ Full(z) /\ Parked(z, q, c, s)
                 /\ q.pc = [z.pc EXCEPT ![c] = "queued"]
              \/ /\ z.avail[s] = <<>> /\ ~Full(z)
                 /\ \E d \in Fresh(s) : Starts(z, q, c, d)
    BY OpenEffect
  <1>2. /\ z.fifo = Now.fifo /\ z.pc = Now.pc /\ z \in PoolStates
        /\ Now.avail[s] = <<>> => z.avail[s] = <<>>
    BY <1>1 DEF Begun, Sane
  <1>8. Now.fifo # <<>> => Now.avail[s] = <<>>
    BY PromptEmpty DEF IInv, Good
  <1>3. Full(z) <=> Full(Now)
    BY <1>1, BegunAlive
  <1> HIDE DEF Full
  <1>4. CASE Now.fifo = <<>> /\ q.fifo = Now.fifo
    <2>1. Ordered(Now, q)
      BY <1>4 DEF Ordered
    <2> QED
      BY <1>1, <2>1, OrderedBecomes
  <1>5. CASE Served(z, q, c, s)
    <2>1. q.fifo = Now.fifo /\ z.avail[s] # <<>>
      BY <1>2, <1>5 DEF Served
    <2>2. Now.fifo = <<>>
      BY <1>2, <1>8, <2>1
    <2> QED
      BY <1>4, <2>1, <2>2
  <1>6. CASE /\ z.avail[s] = <<>> /\ Full(z) /\ Parked(z, q, c, s)
             /\ q.pc = [z.pc EXCEPT ![c] = "queued"]
    <2>1. /\ [client |-> c, str |-> s] \in Requests
          /\ q.fifo = Append(Now.fifo, [client |-> c, str |-> s])
      BY <1>2, <1>6 DEF Parked, Requests
    <2>2. \A e \in Clients : Now.pc[e] = "idle" => q.pc[e] \in {"idle", "queued"}
      BY <1>2, <1>6 DEF PoolStates
    <2>3. Ordered(Now, q)
      BY <2>1, <2>2 DEF Ordered
    <2> QED
      BY <1>1, <2>3, OrderedBecomes
  <1>7. ASSUME ~Full(z), NEW d \in Fresh(s), Starts(z, q, c, d)
        PROVE  OrderedStep
    <2>1. q.fifo = Now.fifo
      BY <1>2, <1>7 DEF Starts
    <2> QED
      BY <1>3, <1>4, <1>7, <2>1
  <1> QED
    BY <1>1, <1>5, <1>6, <1>7

LEMMA CloseOrdered ==
    ASSUME IInv, Alive(Now), Waiting(Now), OneString, ~AutoClean,
           NEW z, NEW c \in Clients, NEW d, NEW idle, NEW q,
           LetsGo(z, c, d), Becomes(q), q = PoolClose(z, d, idle)
    PROVE  OrderedStep
  <1>1. /\ Sane(z) /\ SameRest(Now, z)
        /\ d \in Conns /\ d \notin Starting(z) /\ d = Now.ref[c]
        /\ z.fifo = Now.fifo /\ z.live = Now.live
        /\ z.pc[c] = "idle" /\ \A e \in Clients \ {c} : z.pc[e] = Now.pc[e]
        /\ Now.pc[c] \in {"holding", "idle"}
    BY DEF LetsGo, SameRest
  <1>2. Waiting(z)
    <2>1. Now.pc[c] # "queued" /\ \A e \in Conns : Now.opening[e] # c
      BY <1>1, ConstantsAssumption DEF Waiting
    <2>2. z.opening = Now.opening /\ Now \in PoolStates
      BY <1>1 DEF SameRest, SameOpens, IInv, Good, Sane
    <2> QED
      BY <1>1, <2>1, <2>2, WaitingFrame
  <1>3. d \in z.live
    BY <1>1, ConstantsAssumption DEF Alive, Owned
  <1>4. Ordered(z, q)
    BY <1>1, <1>2, <1>3, PoolCloseServes
  <1>5. Ordered(Now, q)
    BY <1>1, <1>4, OrderedFrame
  <1> QED
    BY <1>5, OrderedBecomes

LEMMA OrderedNext ==
    ASSUME "lost" \notin Faults, "open" \notin Faults, ~AutoClean,
           Uses \cap {"init", "initAsync", "openSync"} = {}, NewSizes = {},
           OneString,
           CInv, CalmInv, CountInv, WaitingInv, callbacks = <<>>, [Next]_vars
    PROVE  OrderedStep
  <1> USE DEF CInv
  <1>0. /\ Alive(Now) /\ Prompt(Now, 0) /\ Waiting(Now)
        /\ Now.fifo # <<>> => Full(Now)
    BY NowFields DEF CalmInv, CalmAt, CountInv, WaitingInv, Full
  <1>1. ASSUME NEW c \in Clients, NEW s \in Strs, Open(c, s) PROVE OrderedStep
    BY <1>0, <1>1, OpenOrdered
  <1>2. ASSUME NEW c \in Clients, NEW s \in Strs, OpenSync(c, s)
        PROVE  OrderedStep
    BY <1>2 DEF OpenSync
  <1>3. ASSUME NEW c \in Clients, Close(c) PROVE OrderedStep
    <2>1. PICK z, d, idle, q : /\ LetsGo(z, c, d) /\ Becomes(q)
                               /\ q = PoolClose(z, d, idle)
      BY <1>3, CloseEffect
    <2> QED
      BY <1>0, <2>1, CloseOrdered
  <1>4. ASSUME NEW c \in Clients, CloseSync(c) PROVE OrderedStep
    <2>1. PICK z, d, idle, q, lost :
             /\ LetsGo(z, c, d) /\ Becomes(q)
             /\ q = PoolCloseSync(z, d, lost, idle)
             /\ lost # FALSE => "lost" \in Faults
      BY <1>4, CloseSyncEffect
    <2>2. q = PoolCloseSync(z, d, FALSE, idle)
      BY <2>1
    <2>3. q = PoolClose(z, d, idle)
      BY <2>1, <2>2, CloseSyncIsClose DEF LetsGo, Sane
    <2> QED
      BY <1>0, <2>1, <2>3, CloseOrdered
  <1>5. ASSUME NEW c \in Clients, CloseAgain(c) PROVE OrderedStep
    <2>1. PICK z, d, idle, q : /\ LetsGo(z, c, d) /\ Becomes(q)
                               /\ q = PoolClose(z, d, idle)
      BY <1>5, CloseAgainEffect
    <2> QED
      BY <1>0, <2>1, CloseOrdered
  <1>6. ASSUME NEW c \in Clients, ConnectionLost(c) PROVE OrderedStep
    BY <1>6 DEF ConnectionLost, MayLose
  <1>7. ASSUME NEW c \in Clients, BeginTransaction(c) PROVE OrderedStep
    BY <1>7, BeginTransactionEffect, OrderedSame
  <1>8. ASSUME NEW d \in Conns, OpenDone(d) PROVE OrderedStep
    <2>1. PICK c, z, q :
             /\ Ended(z, d, c) /\ Becomes(q)
             /\ Opened(z, q, c, d)
      BY <1>8, OpenDoneEffect
    <2>2. /\ c = Now.opening[d] /\ c \in Clients /\ z \in PoolStates
          /\ q.fifo = Now.fifo /\ Handed(z, q, c, d) /\ z.pc = Now.pc
      BY <2>1 DEF Ended, Opened
    <2>3. Now.pc[c] = "opening"
      BY <1>0, <2>2, ConstantsAssumption DEF Waiting
    <2>4. \A e \in Clients : Now.pc[e] = "idle" => q.pc[e] = "idle"
      BY <2>2, <2>3 DEF Handed, PoolStates
    <2> QED
      BY <2>1, <2>2, <2>4, OrderedSame
  <1>9. ASSUME NEW d \in Conns, RealCloseDone(d) PROVE OrderedStep
    BY <1>9, RealCloseDoneEffect, OrderedSame
  <1>10. ASSUME NEW d \in Conns, InitAsyncDone(d) PROVE OrderedStep
    BY <1>10, InitAsyncDoneEffect, OrderedSame
  <1>11. ASSUME NEW s \in Strs, NEW n \in InitCounts, InitSync(n, s)
         PROVE  OrderedStep
    BY <1>11 DEF InitSync
  <1>12. ASSUME NEW s \in Strs, NEW n \in InitCounts, InitAsync(n, s)
         PROVE  OrderedStep
    BY <1>12 DEF InitAsync
  <1>13. CASE Now' = Now
    BY <1>13 DEF OrderedStep, Ordered
  <1>14. ASSUME NEW n \in NewSizes, SetMaxPoolSize(n) PROVE OrderedStep
    BY <1>14
  <1>15. CASE UNCHANGED vars
    BY <1>13, <1>15 DEF vars, poolVars, Now
  <1>16. ASSUME NEW c \in Clients, CloseCallsBack(c) \/ CloseAgainCallsBack(c)
         PROVE  OrderedStep
    <2>1. PICK z, d, g : /\ LetsGo(z, c, d) /\ Becomes(g)
                         /\ BackOnOffer(z, g, d)
      BY <1>16, CloseCallsBackEffect
    <2>2. /\ g.fifo = Now.fifo /\ g.pc = z.pc
          /\ z.pc[c] = "idle" /\ \A e \in Clients \ {c} : z.pc[e] = Now.pc[e]
      BY <2>1 DEF BackOnOffer, Returned, LetsGo
    <2>3. \A e \in Clients : Now.pc[e] = "idle" => g.pc[e] = "idle"
      BY <2>2
    <2> QED
      BY <2>1, <2>2, <2>3, OrderedSame
  <1>17. ~CallbackReturns
    BY DEF CallbackReturns
  <1> QED
    BY <1>1, <1>2, <1>3, <1>4, <1>5, <1>6, <1>7, <1>8, <1>9, <1>10, <1>11,
       <1>12, <1>14, <1>15, <1>16, <1>17 DEF Next, Calls, Delivers

(* One connection string, nothing fails, no autoCleanIdle, one limit, and   *)
(* neither init nor openSync; connections may be closed twice: while no     *)
(* callback of a close runs, requests are served in the order in which they *)
(* came, and no later one overtakes.  A close can call back whenever it     *)
(* likes, and its callback may call the pool.                               *)
THEOREM ServedInOrder ==
    ASSUME "lost" \notin Faults, "open" \notin Faults, ~AutoClean,
           Uses \cap {"init", "initAsync", "openSync"} = {}, NewSizes = {},
           \A s, t \in Strs : s = t
    PROVE  Spec => FirstComeFirstServed
  <1> DEFINE InTurn == callbacks = <<>> =>
                /\ \/ Len(fifo') >= Len(fifo) /\ SubSeq(fifo', 1, Len(fifo)) = fifo
                   \/ fifo' = Tail(fifo) /\ pc'[Head(fifo).client] = "holding"
                /\ fifo # <<>> =>
                      \A c \in Clients :
                         pc[c] = "idle" => pc'[c] \in {"idle", "queued"}
  <1>1. NoneDropped /\ "openSync" \notin Uses /\ OneString
    BY DEF NoneDropped, OneString
  <1>2. CInv /\ CalmInv /\ CountInv /\ WaitingInv /\ [Next]_vars => [InTurn]_vars
    <2> SUFFICES ASSUME CInv, CalmInv, CountInv, WaitingInv, [Next]_vars,
                        callbacks = <<>>
                 PROVE  /\ \/ /\ Len(fifo') >= Len(fifo)
                              /\ SubSeq(fifo', 1, Len(fifo)) = fifo
                           \/ /\ fifo' = Tail(fifo)
                              /\ pc'[Head(fifo).client] = "holding"
                        /\ fifo # <<>> =>
                              \A c \in Clients :
                                 pc[c] = "idle" => pc'[c] \in {"idle", "queued"}
      OBVIOUS
    <2>1. Ordered(Now, Now')
      BY <1>1, OrderedNext DEF OrderedStep
    <2>2. /\ Now.fifo = fifo /\ Now.pc = pc
          /\ (Now').fifo = fifo' /\ (Now').pc = pc'
      BY DEF Now
    <2>3. fifo \in Seq(Requests)
      BY <2>2 DEF CInv, IInv, Good, Sane, PoolStates
    <2>4. ASSUME NEW w \in Requests, fifo' = Append(fifo, w)
          PROVE  Len(fifo') >= Len(fifo) /\ SubSeq(fifo', 1, Len(fifo)) = fifo
      BY <2>3, <2>4
    <2>5. SubSeq(fifo, 1, Len(fifo)) = fifo /\ Len(fifo) >= Len(fifo)
      BY <2>3
    <2> QED
      BY <2>1, <2>2, <2>4, <2>5 DEF Ordered
  <1>3. /\ Spec => []CountInv
        /\ Spec => []WaitingInv
        /\ Spec => []CalmInv
    BY <1>1, SpecCount, SpecWaiting, SpecCalm, PTL
  <1>4. FirstComeFirstServed <=> [][InTurn]_vars
    BY DEF FirstComeFirstServed
  <1> QED
    BY <1>2, <1>3, <1>4, SpecCInv, PTL DEF Spec
=============================================================================
