--------------------------- MODULE FairPool_proofs ---------------------------
(***************************************************************************)
(* ConnectionPool implements FairPool, its liveness apart: every step of   *)
(* the pool is a step of FairPool, or leaves who waits and who is inside   *)
(* as it was.  What the proof needs beyond the invariants of               *)
(* PoolLimits_proofs is how the pool's count and the clients are related:  *)
(* poolSize is the number of clients inside and of connections on offer.   *)
(* From the same relation: while anyone waits, someone is inside.          *)
(***************************************************************************)
EXTENDS PoolLimits_proofs, FiniteSetTheorems

-----------------------------------------------------------------------------
(* The state of FairPool, and its steps, for a pool state.                  *)

(* Who has a connection, or gets a new one. *)
In(p) == {c \in Clients : p.pc[c] \in {"opening", "holding"}}

Out(p, c) == c \notin In(p) /\ \A i \in DOMAIN p.fifo : p.fifo[i].client # c

HasRoom(p) == MaxSize = 0 \/ Cardinality(In(p)) < MaxSize

Enters(p, q, c) ==
    /\ Out(p, c) /\ p.fifo = <<>> /\ HasRoom(p)
    /\ In(q) = In(p) \cup {c} /\ q.fifo = p.fifo

Waits(p, q, c) ==
    /\ Out(p, c) /\ ~HasRoom(p)
    /\ In(q) = In(p)
    /\ \E w \in Requests : w.client = c /\ q.fifo = Append(p.fifo, w)

Leaves(p, q, c) ==
    /\ c \in In(p) /\ p.fifo = <<>>
    /\ In(q) = In(p) \ {c} /\ q.fifo = p.fifo

MakesWay(p, q, c) ==
    /\ c \in In(p) /\ p.fifo # <<>>
    /\ In(q) = (In(p) \ {c}) \cup {Head(p.fifo).client}
    /\ q.fifo = Tail(p.fifo)

Serves(p, q) ==
    \/ q.fifo = p.fifo /\ In(q) = In(p)
    \/ \E c \in Clients : \/ Enters(p, q, c) \/ Waits(p, q, c)
                          \/ Leaves(p, q, c) \/ MakesWay(p, q, c)

(* The clients inside and the connections on offer are what the pool counts.*)
Places(p) ==
    /\ IsFiniteSet(In(p))
    /\ \A s \in Strs : p.size = Cardinality(In(p)) + Len(p.avail[s])

Names(f) == [i \in DOMAIN f |-> f[i].client]

LEMMA NamesAppend ==
    ASSUME NEW f \in Seq(Requests), NEW w \in Requests
    PROVE  Names(Append(f, w)) = Append(Names(f), w.client)
  <1> DEFINE g == Append(f, w)
             m == Names(f)
  <1>1. /\ Len(f) \in Nat /\ DOMAIN f = 1 .. Len(f) /\ DOMAIN g = 1 .. Len(f) + 1
        /\ \A i \in 1 .. Len(f) : g[i] = f[i] /\ g[Len(f) + 1] = w
        /\ g[Len(f) + 1] = w
    OBVIOUS
  <1> HIDE DEF g
  <1>2. m = [i \in 1 .. Len(f) |-> f[i].client]
    BY <1>1 DEF Names
  <1>3. \A i \in 1 .. Len(f) : f[i].client \in Clients \cup {Nobody}
    <2>1. \A v \in Requests : v.client \in Clients \cup {Nobody}
      BY DEF Requests
    <2>2. \A i \in 1 .. Len(f) : f[i] \in Requests
      OBVIOUS
    <2> QED
      BY <2>1, <2>2
  <1>4. m \in Seq(Clients \cup {Nobody}) /\ Len(m) = Len(f)
    BY <1>1, <1>2, <1>3
  <1>5. w.client \in Clients \cup {Nobody}
    BY DEF Requests
  <1>6. Names(g) = [i \in 1 .. Len(f) + 1 |-> g[i].client]
    BY <1>1 DEF Names
  <1>7. Append(m, w.client) =
           [i \in 1 .. Len(f) + 1 |-> IF i = Len(f) + 1 THEN w.client ELSE m[i]]
    BY <1>4, <1>5
  <1>8. \A i \in 1 .. Len(f) + 1 :
           g[i].client = IF i = Len(f) + 1 THEN w.client ELSE m[i]
    <2> TAKE i \in 1 .. Len(f) + 1
    <2>1. i = Len(f) + 1 \/ i \in 1 .. Len(f)
      BY <1>1
    <2> QED
      BY <1>1, <1>2, <2>1
  <1>9. Names(g) = Append(m, w.client)
    BY <1>6, <1>7, <1>8
  <1> QED
    BY <1>9 DEF g

LEMMA NamesTail ==
    ASSUME NEW f \in Seq(Requests), f # <<>>
    PROVE  /\ Names(f) # <<>>
           /\ Names(Tail(f)) = Tail(Names(f))
           /\ Head(Names(f)) = Head(f).client
  <1> DEFINE g == Tail(f)
             m == Names(f)
  <1>1. /\ Len(f) \in Nat \ {0} /\ DOMAIN f = 1 .. Len(f)
        /\ g \in Seq(Requests) /\ Len(g) = Len(f) - 1
        /\ \A i \in 1 .. Len(g) : g[i] = f[i + 1]
        /\ Head(f) = f[1]
    BY HeadTailProperties
  <1>2. DOMAIN g = 1 .. Len(f) - 1
    BY <1>1
  <1> HIDE DEF g
  <1>3. m = [i \in 1 .. Len(f) |-> f[i].client]
    BY <1>1 DEF Names
  <1>4. \A i \in 1 .. Len(f) : f[i].client \in Clients \cup {Nobody}
    <2>1. \A v \in Requests : v.client \in Clients \cup {Nobody}
      BY DEF Requests
    <2>2. \A i \in 1 .. Len(f) : f[i] \in Requests
      OBVIOUS
    <2> QED
      BY <2>1, <2>2
  <1>5. m \in Seq(Clients \cup {Nobody}) /\ Len(m) = Len(f) /\ m # <<>>
    BY <1>1, <1>3, <1>4
  <1>6. Names(g) = [i \in 1 .. Len(f) - 1 |-> g[i].client]
    BY <1>2 DEF Names
  <1>8. \A i \in 1 .. Len(f) - 1 : g[i].client = m[i + 1]
    BY <1>1, <1>3
  <1> DEFINE S == Clients \cup {Nobody}
             n == Names(g)
  <1>7. /\ Tail(m) \in Seq(S) /\ Len(Tail(m)) = Len(f) - 1
        /\ \A i \in 1 .. Len(f) - 1 : Tail(m)[i] = m[i + 1]
    <2> HIDE DEF m
    <2> QED
      BY <1>5, HeadTailProperties
  <1>11. /\ n \in Seq(S) /\ Len(n) = Len(f) - 1
         /\ \A i \in 1 .. Len(f) - 1 : n[i] = m[i + 1]
    <2>1. \A i \in 1 .. Len(f) - 1 : m[i + 1] \in S
      BY <1>1, <1>3, <1>4
    <2> HIDE DEF m
    <2> QED
      BY <1>1, <1>6, <1>8, <2>1
  <1>9. Names(g) = Tail(m)
    <2> HIDE DEF m, n, S
    <2>1. n = Tail(m)
      BY <1>7, <1>11, SeqEqual
    <2> QED
      BY <2>1 DEF n
  <1>10. Head(m) = f[1].client
    <2>1. Head(m) = m[1]
      <3> HIDE DEF m
      <3> QED
        BY <1>5
    <2> QED
      BY <1>1, <1>3, <2>1
  <1> QED
    BY <1>1, <1>5, <1>9, <1>10 DEF g

-----------------------------------------------------------------------------
(* What the steps of the pool are.                                          *)

(* The application has one connection string and one limit, closes what it  *)
(* gets once, calls nothing in the callback of a close, uses neither        *)
(* openSync nor init, and nothing fails.                                    *)
Plain ==
    /\ Nested = 0
    /\ OneString /\ NewSizes = {} /\ ~AutoClean
    /\ "open" \notin Faults /\ "lost" \notin Faults
    /\ Uses \cap {"openSync", "init", "initAsync", "reclose"} = {}

(* What is known of the state already. *)
Settled ==
    /\ IInv /\ CalmInv /\ CountInv /\ WaitingInv
    /\ maxPoolSize = MaxSize /\ callbacks = <<>>

LEMMA SettledFacts ==
    ASSUME Plain, Settled
    PROVE  /\ Sane(Now) /\ Now \in PoolStates /\ Now.fifo \in Seq(Requests)
           /\ Exclusive(Now, {}) /\ Prompt(Now, 0) /\ Alive(Now) /\ Waiting(Now)
           /\ Now.closing = {} /\ Now.size \in Int /\ MaxSize \in Nat
           /\ Now.fifo # <<>> => MaxSize > 0 /\ Now.size >= MaxSize
           /\ MaxSize > 0 => Now.size <= MaxSize
           /\ \A p : Full(p) <=> MaxSize > 0 /\ p.size >= MaxSize
  <1>1. Sane(Now) /\ Exclusive(Now, {})
    BY DEF Plain, Settled, IInv, Good
  <1>2. Now \in PoolStates /\ Now.fifo \in Seq(Requests) /\ Now.size \in Int
    BY <1>1 DEF Sane, PoolStates
  <1>3. Alive(Now) /\ Now.closing = {}
    BY DEF Plain, Settled, CountInv, Alive
  <1>4. Prompt(Now, 0) /\ Waiting(Now)
    BY DEF Plain, Settled, CalmInv, CalmAt, WaitingInv
  <1>5. MaxSize \in Nat
    BY ConstantsAssumption
  <1>6. /\ Now.fifo # <<>> => MaxSize > 0 /\ Now.size >= MaxSize
        /\ MaxSize > 0 => Now.size <= MaxSize
    BY NowFields DEF Plain, Settled, CountInv
  <1>7. \A p : Full(p) <=> MaxSize > 0 /\ p.size >= MaxSize
    BY DEF Settled, Full
  <1> QED
    BY <1>1, <1>2, <1>3, <1>4, <1>5, <1>6, <1>7

(* Client c comes in, or goes out, and the rest stay where they are.        *)
LEMMA OneComes ==
    ASSUME NEW p, NEW q, NEW c \in Clients, IsFiniteSet(In(p)), c \notin In(p),
           q.pc[c] \in {"opening", "holding"},
           \A e \in Clients \ {c} : q.pc[e] = p.pc[e]
    PROVE  /\ In(q) = In(p) \cup {c} /\ IsFiniteSet(In(q))
           /\ Cardinality(In(q)) = Cardinality(In(p)) + 1
  <1>1. In(q) = In(p) \cup {c}
    BY DEF In
  <1> QED
    BY <1>1, FS_AddElement

LEMMA OneGoes ==
    ASSUME NEW p, NEW q, NEW c \in In(p), IsFiniteSet(In(p)),
           q.pc[c] = "idle",
           \A e \in Clients \ {c} : q.pc[e] = p.pc[e]
    PROVE  /\ In(q) = In(p) \ {c} /\ IsFiniteSet(In(q))
           /\ Cardinality(In(q)) = Cardinality(In(p)) - 1
  <1>1. In(q) = In(p) \ {c}
    BY DEF In
  <1> QED
    BY <1>1, FS_RemoveElement

(* queue.next serves the first request if it finds a connection.            *)
LEMMA RunNextLetsIn ==
    ASSUME NEW p, Sane(p), Waiting(p), OneString, p.fifo # <<>>,
           \A s \in Strs : p.avail[s] # <<>>, IsFiniteSet(In(p)),
           NEW n, n = RunNext(p)
    PROVE  /\ n.fifo = Tail(p.fifo) /\ n.size = p.size
           /\ In(n) = In(p) \cup {Head(p.fifo).client}
           /\ Head(p.fifo).client \in Clients \ In(p)
           /\ IsFiniteSet(In(n)) /\ Cardinality(In(n)) = Cardinality(In(p)) + 1
           /\ \A s \in Strs : Len(n.avail[s]) = Len(p.avail[s]) - 1
  <1> DEFINE w == Head(p.fifo)
             d == Head(p.avail[w.str])
  <1>1. p \in PoolStates /\ p.fifo \in Seq(Requests)
    BY DEF Sane, PoolStates
  <1>2. w \in Requests /\ Next1(p, n, w) /\ SameRest(p, n) /\ w = Head(p.fifo)
    BY RunNextEffect
  <1>3. w.client \in Clients /\ p.pc[w.client] = "queued"
    <2>1. 1 \in DOMAIN p.fifo /\ w = p.fifo[1]
      BY <1>1
    <2> HIDE DEF w
    <2> QED
      BY <2>1 DEF Waiting, Line
  <1>4. w.str \in Strs /\ w.client # Nobody
    BY <1>2, <1>3, ConstantsAssumption DEF Requests
  <1>5. /\ n.fifo = Tail(p.fifo) /\ Taken(p, n, w.str, d)
        /\ Handed(p, n, w.client, d)
    BY <1>2, <1>4 DEF Next1
  <1> HIDE DEF w, d
  <1>6. /\ n.pc[w.client] = "holding"
        /\ \A c \in Clients \ {w.client} : n.pc[c] = p.pc[c]
    BY <1>1, <1>3, <1>5 DEF Handed, PoolStates
  <1>7. w.client \notin In(p)
    BY <1>3 DEF In
  <1>8. /\ In(n) = In(p) \cup {w.client} /\ IsFiniteSet(In(n))
        /\ Cardinality(In(n)) = Cardinality(In(p)) + 1
    BY <1>3, <1>6, <1>7, OneComes
  <1>9. Len(n.avail[w.str]) = Len(p.avail[w.str]) - 1
    <2>1. p.avail[w.str] \in Seq(Conns) /\ p.avail[w.str] # <<>>
      BY <1>1, <1>4 DEF PoolStates
    <2>2. n.avail[w.str] = Tail(p.avail[w.str])
      BY <1>5 DEF Taken
    <2> QED
      BY <2>1, <2>2
  <1>10. \A s \in Strs : s = w.str
    BY <1>4 DEF OneString
  <1> QED
    BY <1>2, <1>3, <1>5, <1>7, <1>8, <1>9, <1>10 DEF SameRest

(* poolClose returns a connection: it goes on offer, or to the first in     *)
(* line.                                                                    *)
Back(p, n) ==
    /\ n.size = p.size /\ IsFiniteSet(In(n))
    /\ p.fifo = <<>> => /\ n.fifo = p.fifo /\ In(n) = In(p)
                        /\ \A s \in Strs : Len(n.avail[s]) = Len(p.avail[s]) + 1
    /\ p.fifo # <<>> =>
          /\ n.fifo = Tail(p.fifo)
          /\ In(n) = In(p) \cup {Head(p.fifo).client}
          /\ Head(p.fifo).client \in Clients \ In(p)
          /\ Cardinality(In(n)) = Cardinality(In(p)) + 1
          /\ \A s \in Strs : Len(n.avail[s]) = Len(p.avail[s])

LEMMA ReleaseLetsIn ==
    ASSUME NEW p, NEW idle, NEW d \in Conns, Sane(p), d \notin Starting(p),
           d \notin Elems(p.avail[StrOf[d]]), d \in p.live,
           Waiting(p), OneString, ~AutoClean, IsFiniteSet(In(p)),
           NEW n, n = Release(p, d, idle)
    PROVE  Back(p, n)
  <1>1. PICK r : Returned(p, r, d) /\ n = RunNext(r)
    BY ReleaseReturns
  <1>2. /\ Sane(r) /\ SameOpens(p, r) /\ r.fifo = p.fifo /\ r.pc = p.pc
        /\ r.avail[StrOf[d]] = Append(p.avail[StrOf[d]], d) /\ r.size = p.size
    BY <1>1 DEF Returned
  <1>3. StrOf[d] \in Strs /\ p.avail[StrOf[d]] \in Seq(Conns)
    BY ConstantsAssumption DEF Sane, PoolStates
  <1>4. /\ Len(r.avail[StrOf[d]]) = Len(p.avail[StrOf[d]]) + 1
        /\ r.avail[StrOf[d]] # <<>> /\ Len(p.avail[StrOf[d]]) \in Nat
    BY <1>2, <1>3
  <1>5. \A s \in Strs : s = StrOf[d]
    BY <1>3 DEF OneString
  <1>6. In(r) = In(p)
    BY <1>2 DEF In
  <1>7. CASE p.fifo = <<>>
    <2>1. n = r
      BY <1>1, <1>2, <1>7, RunNextEffect
    <2> QED
      BY <1>2, <1>4, <1>5, <1>6, <1>7, <2>1 DEF Back
  <1>8. CASE p.fifo # <<>>
    <2>1. Waiting(r)
      BY <1>2 DEF Waiting, SameOpens
    <2>2. /\ r.fifo # <<>> /\ \A s \in Strs : r.avail[s] # <<>>
          /\ IsFiniteSet(In(r))
      BY <1>2, <1>4, <1>5, <1>6, <1>8
    <2>3. /\ n.fifo = Tail(r.fifo) /\ n.size = r.size
          /\ In(n) = In(r) \cup {Head(r.fifo).client}
          /\ Head(r.fifo).client \in Clients \ In(r)
          /\ IsFiniteSet(In(n)) /\ Cardinality(In(n)) = Cardinality(In(r)) + 1
          /\ \A s \in Strs : Len(n.avail[s]) = Len(r.avail[s]) - 1
      BY <1>1, <1>2, <2>1, <2>2, RunNextLetsIn
    <2>4. \A s \in Strs : Len(n.avail[s]) = Len(p.avail[s])
      <3>1. Len(n.avail[StrOf[d]]) = Len(p.avail[StrOf[d]])
        <4> DEFINE a == Len(n.avail[StrOf[d]])
                   b == Len(r.avail[StrOf[d]])
                   k == Len(p.avail[StrOf[d]])
        <4>1. a = b - 1
          BY <1>3, <2>3
        <4>2. b = k + 1 /\ k \in Nat
          BY <1>4
        <4> HIDE DEF a, b, k
        <4>3. a = k
          BY <4>1, <4>2
        <4> QED
          BY <4>3 DEF a, k
      <3> QED
        BY <1>5, <3>1
    <2> QED
      BY <1>2, <1>6, <1>8, <2>3, <2>4 DEF Back
  <1> QED
    BY <1>7, <1>8

LEMMA PoolCloseLetsIn ==
    ASSUME NEW p, NEW idle, NEW d \in Conns, Sane(p), d \notin Starting(p),
           d \notin Elems(p.avail[StrOf[d]]), d \in p.live,
           Waiting(p), OneString, ~AutoClean, IsFiniteSet(In(p)),
           NEW n, n = PoolClose(p, d, idle)
    PROVE  Back(p, n)
  <1> DEFINE q == [Stamp(p, d) EXCEPT !.tx = @ \ {d}]
             t1 == p.tx \ {d}
             z == [p EXCEPT !.stamped = p.stamped \cup {d}, !.tx = t1]
  <1>1. p \in PoolStates
    BY DEF Sane
  <1>2. n = Release(q, d, idle)
    BY DEF PoolClose
  <1>3. q = z
    BY <1>1 DEF Stamp, PoolStates
  <1>4. t1 \subseteq Conns
    BY <1>1 DEF PoolStates
  <1> HIDE DEF q, t1
  <1>5. /\ SameHandles(p, z) /\ z.fifo = p.fifo /\ z.live = p.live
        /\ z.size = p.size
    BY <1>1, <1>4 DEF PoolStates, SameHandles, SameOpens
  <1> HIDE DEF z
  <1>6. Sane(z)
    BY <1>5, SameHandlesKeeps
  <1>7. z.avail = p.avail /\ z.pc = p.pc /\ SameOpens(p, z)
    BY <1>5 DEF SameHandles
  <1>8. d \notin Starting(z) /\ Waiting(z) /\ In(z) = In(p)
    BY <1>5, <1>7 DEF SameOpens, Starting, Waiting, In
  <1>9. Back(z, n)
    BY <1>2, <1>3, <1>5, <1>6, <1>7, <1>8, ReleaseLetsIn
  <1> QED
    BY <1>5, <1>7, <1>8, <1>9 DEF Back

FairStep == Serves(Now, Now') /\ Places(Now')

LEMMA FairBecomes ==
    ASSUME NEW q, Becomes(q), Serves(Now, q), Places(q)
    PROVE  FairStep
  <1> DEFINE m == Now'
  <1>1. m.fifo = q.fifo /\ m.pc = q.pc /\ m.size = q.size /\ m.avail = q.avail
    BY BecomesFields
  <1> HIDE DEF m
  <1>2. In(m) = In(q)
    BY <1>1 DEF In
  <1>3. Serves(Now, m) /\ Places(m)
    BY <1>1, <1>2 DEF Serves, Enters, Waits, Leaves, MakesWay, Places
  <1> QED
    BY <1>3 DEF m, FairStep

(* A step that nobody who waits or is inside notices. *)
LEMMA FairSame ==
    ASSUME Places(Now), NEW q, Becomes(q), q.fifo = Now.fifo, In(q) = In(Now),
           q.size = Now.size, q.avail = Now.avail
    PROVE  FairStep
  <1>1. Serves(Now, q) /\ Places(q)
    BY DEF Serves, Places
  <1> QED
    BY <1>1, FairBecomes

(* Pool.open: the client enters, or waits.                                  *)
LEMMA OpenFair ==
    ASSUME Plain, Settled, Places(Now),
           NEW c \in Clients, NEW s \in Strs, Open(c, s)
    PROVE  FairStep
  <1>1. PICK z, q :
           /\ Now.pc[c] = "idle" /\ Begun(z, c, s) /\ Becomes(q)
           /\ \/ Served(z, q, c, s)
              \/ /\ z.avail[s] = <<>> /\ Full(z) /\ Parked(z, q, c, s)
                 /\ q.pc = [z.pc EXCEPT ![c] = "queued"]
              \/ /\ z.avail[s] = <<>> /\ ~Full(z)
                 /\ \E d \in Fresh(s) : Starts(z, q, c, d)
    BY OpenEffect DEF Settled
  <1>2. /\ Sane(Now) /\ Now \in PoolStates /\ Now.fifo \in Seq(Requests)
        /\ Exclusive(Now, {}) /\ Prompt(Now, 0) /\ Alive(Now) /\ Waiting(Now)
        /\ Now.closing = {} /\ Now.size \in Int /\ MaxSize \in Nat
        /\ Now.fifo # <<>> => MaxSize > 0 /\ Now.size >= MaxSize
        /\ MaxSize > 0 => Now.size <= MaxSize
        /\ \A p : Full(p) <=> MaxSize > 0 /\ p.size >= MaxSize
    BY SettledFacts
  <1>3. /\ Sane(z) /\ z \in PoolStates
        /\ z.fifo = Now.fifo /\ z.pc = Now.pc /\ z.size = Now.size
        /\ z.avail[s] = Now.avail[s]
    <2>1. \A t \in Strs : Elems(Now.avail[t]) \subseteq Now.live
      BY <1>2 DEF Alive
    <2> QED
      BY <1>1, <2>1 DEF Begun, Sane
  <1>4. \A t \in Strs : t = s
    BY DEF Plain, OneString
  <1>5. /\ IsFiniteSet(In(Now)) /\ Cardinality(In(Now)) \in Nat
        /\ Now.size = Cardinality(In(Now)) + Len(Now.avail[s])
        /\ Now.avail[s] \in Seq(Conns) /\ Len(Now.avail[s]) \in Nat
    <2>1. IsFiniteSet(In(Now)) /\ Now.size = Cardinality(In(Now)) + Len(Now.avail[s])
      BY DEF Places
    <2>2. Now.avail[s] \in Seq(Conns)
      BY <1>2 DEF PoolStates
    <2> QED
      BY <2>1, <2>2, FS_CardinalityType
  <1>6. Out(Now, c)
    <2>1. c \notin In(Now)
      BY <1>1 DEF In
    <2>2. \A i \in DOMAIN Now.fifo : Now.fifo[i].client # c
      BY <1>1, <1>2 DEF Waiting, Line
    <2> QED
      BY <2>1, <2>2 DEF Out
  <1>7. In(z) = In(Now) /\ c \notin In(Now)
    BY <1>3, <1>6 DEF In, Out
  <1>8. ASSUME Served(z, q, c, s)
        PROVE  Serves(Now, q) /\ Places(q)
    <2> DEFINE d == Head(z.avail[s])
    <2>1. /\ z.avail[s] # <<>> /\ Taken(z, q, s, d) /\ Handed(z, q, c, d)
          /\ SameRest(z, q) /\ q.fifo = z.fifo
      BY <1>8 DEF Served
    <2> HIDE DEF d
    <2>2. q.pc[c] = "holding" /\ \A e \in Clients \ {c} : q.pc[e] = z.pc[e]
      BY <1>3, <2>1 DEF Handed, PoolStates
    <2>3. /\ In(q) = In(Now) \cup {c} /\ IsFiniteSet(In(q))
          /\ Cardinality(In(q)) = Cardinality(In(Now)) + 1
      <3>1. \A e \in Clients \ {c} : q.pc[e] = Now.pc[e]
        BY <1>3, <2>2
      <3>2. q.pc[c] \in {"opening", "holding"}
        BY <2>2
      <3> QED
        BY <1>5, <1>7, <3>1, <3>2, OneComes
    <2>4. q.avail[s] = Tail(Now.avail[s]) /\ q.size = Now.size
      BY <1>3, <2>1 DEF Taken, SameRest
    <2>5. Now.avail[s] # <<>> /\ Len(q.avail[s]) = Len(Now.avail[s]) - 1
      BY <1>3, <1>5, <2>1, <2>4
    <2>6. Now.fifo = <<>>
      BY <1>2, <2>5, PromptEmpty
    <2>7. HasRoom(Now)
      <3>1. Len(Now.avail[s]) > 0
        BY <1>5, <2>5
      <3> QED
        BY <1>2, <1>5, <3>1 DEF HasRoom
    <2>8. Enters(Now, q, c)
      BY <1>3, <1>6, <2>1, <2>3, <2>6, <2>7 DEF Enters
    <2>9. q.size = Cardinality(In(q)) + Len(q.avail[s])
      BY <1>5, <2>3, <2>4, <2>5
    <2>10. Places(q)
      BY <1>4, <2>3, <2>9 DEF Places
    <2> QED
      BY <2>8, <2>10 DEF Serves
  <1>9. ASSUME z.avail[s] = <<>>, Full(z), Parked(z, q, c, s),
               q.pc = [z.pc EXCEPT ![c] = "queued"]
        PROVE  Serves(Now, q) /\ Places(q)
    <2> DEFINE w == [client |-> c, str |-> s]
    <2>1. /\ q.size = Now.size /\ q.avail = z.avail
          /\ q.fifo = Append(Now.fifo, w) /\ w.client = c /\ w \in Requests
      BY <1>3, <1>9 DEF Parked, SameRest, Requests
    <2> HIDE DEF w
    <2>2. In(q) = In(Now)
      <3>1. q.pc[c] = "queued" /\ \A e \in Clients \ {c} : q.pc[e] = z.pc[e]
        BY <1>3, <1>9 DEF PoolStates
      <3> QED
        BY <1>1, <1>3, <3>1 DEF In
    <2>3. ~HasRoom(Now)
      <3>1. MaxSize > 0 /\ Now.size >= MaxSize /\ Len(Now.avail[s]) = 0
        BY <1>2, <1>3, <1>9
      <3> QED
        BY <1>2, <1>5, <3>1 DEF HasRoom
    <2>4. Waits(Now, q, c)
      BY <1>6, <2>1, <2>2, <2>3 DEF Waits
    <2>5. q.avail[s] = Now.avail[s]
      BY <1>3, <2>1
    <2>6. Places(q)
      BY <1>4, <1>5, <2>1, <2>2, <2>5 DEF Places
    <2> QED
      BY <2>4, <2>6 DEF Serves
  <1>10. ASSUME z.avail[s] = <<>>, ~Full(z), NEW d \in Fresh(s), Starts(z, q, c, d)
         PROVE  Serves(Now, q) /\ Places(q)
    <2>1. /\ q.avail = z.avail /\ q.fifo = Now.fifo /\ q.size = Now.size + 1
          /\ q.pc[c] = "opening" /\ \A e \in Clients \ {c} : q.pc[e] = z.pc[e]
      BY <1>3, <1>10 DEF Starts
    <2>2. /\ In(q) = In(Now) \cup {c} /\ IsFiniteSet(In(q))
          /\ Cardinality(In(q)) = Cardinality(In(Now)) + 1
      BY <1>5, <1>7, <2>1, OneComes
    <2>3. MaxSize = 0 \/ Now.size < MaxSize
      BY <1>2, <1>3, <1>10
    <2>4. Now.fifo = <<>>
      BY <1>2, <2>3
    <2>5. q.avail[s] = Now.avail[s] /\ Len(Now.avail[s]) = 0
      BY <1>3, <1>10, <2>1
    <2>6. HasRoom(Now)
      BY <1>5, <2>3, <2>5 DEF HasRoom
    <2>7. Enters(Now, q, c)
      BY <1>6, <2>1, <2>2, <2>4, <2>6 DEF Enters
    <2>8. q.size = Cardinality(In(q)) + Len(q.avail[s])
      BY <1>5, <2>1, <2>2, <2>5
    <2>9. Places(q)
      BY <1>4, <2>2, <2>8 DEF Places
    <2> QED
      BY <2>7, <2>9 DEF Serves
  <1> QED
    BY <1>1, <1>8, <1>9, <1>10, FairBecomes

(* The callback of db.open: who was getting a connection has it.            *)
LEMMA OpenDoneFair ==
    ASSUME Plain, Settled, Places(Now), NEW d \in Conns, OpenDone(d)
    PROVE  FairStep
  <1>1. PICK c, z, q :
           Ended(z, d, c) /\ Becomes(q) /\ Opened(z, q, c, d) /\ q.size = z.size
    BY OpenDoneEffect DEF Settled, Plain
  <1>2. /\ c = Now.opening[d] /\ c \in Clients /\ z \in PoolStates
        /\ z.fifo = Now.fifo /\ z.pc = Now.pc /\ z.size = Now.size
        /\ z.avail = Now.avail
    BY <1>1 DEF Ended
  <1>3. /\ q.avail = z.avail /\ q.fifo = z.fifo /\ Handed(z, q, c, d)
    BY <1>1 DEF Opened
  <1>4. Now.pc[c] = "opening"
    <2>1. Waiting(Now) /\ c # Nobody
      BY <1>2, SettledFacts, ConstantsAssumption
    <2> QED
      BY <1>2, <2>1 DEF Waiting
  <1>5. q.pc[c] = "holding" /\ \A e \in Clients \ {c} : q.pc[e] = Now.pc[e]
    BY <1>2, <1>3 DEF Handed, PoolStates
  <1>6. In(q) = In(Now)
    BY <1>4, <1>5 DEF In
  <1>7. q.fifo = Now.fifo /\ q.size = Now.size /\ q.avail = Now.avail
    BY <1>1, <1>2, <1>3
  <1> QED
    BY <1>1, <1>6, <1>7, FairSame

(* A close: the client leaves, or makes way for the first in line.          *)
LEMMA CloseFair ==
    ASSUME Plain, Settled, Places(Now),
           NEW z, NEW c \in Clients, NEW d, NEW idle, NEW q,
           LetsGo(z, c, d), Becomes(q), q = PoolClose(z, d, idle)
    PROVE  FairStep
  <1>1. /\ Sane(Now) /\ Exclusive(Now, {}) /\ Alive(Now) /\ Waiting(Now)
        /\ Now \in PoolStates /\ Now.fifo \in Seq(Requests)
    BY SettledFacts
  <1>2. /\ Sane(z) /\ SameRest(Now, z)
        /\ d \in Conns /\ d \notin Starting(z) /\ d = Now.ref[c]
        /\ z.avail = Now.avail /\ z.fifo = Now.fifo
        /\ z.pc[c] = "idle" /\ \A e \in Clients \ {c} : z.pc[e] = Now.pc[e]
        /\ Now.pc[c] = "holding"
    BY DEF LetsGo, Plain
  <1>3. z.live = Now.live /\ z.size = Now.size /\ z.opening = Now.opening
    BY <1>2 DEF SameRest, SameOpens
  <1>4. d \in z.live /\ d \notin Elems(z.avail[StrOf[d]])
    <2>1. d \in Now.live
      BY <1>1, <1>2 DEF Alive
    <2> QED
      BY <1>1, <1>2, <1>3, <2>1 DEF Exclusive
  <1>5. Waiting(z)
    <2>1. Now.pc[c] # "queued" /\ \A e \in Conns : Now.opening[e] # c
      BY <1>1, <1>2, ConstantsAssumption DEF Waiting
    <2> QED
      BY <1>1, <1>2, <1>3, <2>1, WaitingFrame
  <1>6. c \in In(Now) /\ IsFiniteSet(In(Now))
    BY <1>2 DEF In, Places
  <1>7. /\ In(z) = In(Now) \ {c} /\ IsFiniteSet(In(z))
        /\ Cardinality(In(z)) = Cardinality(In(Now)) - 1
    BY <1>2, <1>6, OneGoes
  <1>8. Back(z, q)
    <2>1. OneString /\ ~AutoClean
      BY DEF Plain
    <2> QED
      BY <1>2, <1>4, <1>5, <1>7, <2>1, PoolCloseLetsIn
  <1>9. /\ Cardinality(In(Now)) \in Nat
        /\ \A s \in Strs : /\ Now.size = Cardinality(In(Now)) + Len(Now.avail[s])
                           /\ Len(Now.avail[s]) \in Nat
    <2>1. \A s \in Strs : Now.avail[s] \in Seq(Conns)
      BY <1>1 DEF PoolStates
    <2> QED
      BY <1>6, <2>1, FS_CardinalityType DEF Places
  <1>10. CASE Now.fifo = <<>>
    <2>1. /\ q.fifo = Now.fifo /\ In(q) = In(Now) \ {c} /\ q.size = Now.size
          /\ IsFiniteSet(In(q))
          /\ \A s \in Strs : Len(q.avail[s]) = Len(Now.avail[s]) + 1
      BY <1>2, <1>3, <1>7, <1>8, <1>10 DEF Back
    <2>2. Leaves(Now, q, c)
      BY <1>6, <1>10, <2>1 DEF Leaves
    <2>3. Cardinality(In(q)) = Cardinality(In(Now)) - 1
      BY <1>7, <2>1
    <2>4. ASSUME NEW s \in Strs
          PROVE  q.size = Cardinality(In(q)) + Len(q.avail[s])
      <3>1. /\ q.size = Cardinality(In(Now)) + Len(Now.avail[s])
            /\ Len(q.avail[s]) = Len(Now.avail[s]) + 1
            /\ Len(Now.avail[s]) \in Nat
        BY <1>9, <2>1
      <3> QED
        BY <1>9, <2>3, <3>1
    <2>5. Places(q)
      BY <2>1, <2>4 DEF Places
    <2> QED
      BY <2>2, <2>5, FairBecomes DEF Serves
  <1>11. CASE Now.fifo # <<>>
    <2> DEFINE e == Head(Now.fifo).client
    <2>1. /\ q.fifo = Tail(Now.fifo) /\ In(q) = (In(Now) \ {c}) \cup {e}
          /\ IsFiniteSet(In(q)) /\ q.size = Now.size
          /\ Cardinality(In(q)) = Cardinality(In(z)) + 1
          /\ \A s \in Strs : Len(q.avail[s]) = Len(Now.avail[s])
      BY <1>2, <1>3, <1>7, <1>8, <1>11 DEF Back
    <2>2. MakesWay(Now, q, c)
      BY <1>6, <1>11, <2>1 DEF MakesWay
    <2>3. Cardinality(In(q)) = Cardinality(In(Now))
      BY <1>7, <1>9, <2>1
    <2>4. Places(q)
      BY <1>9, <2>1, <2>3 DEF Places
    <2> QED
      BY <2>2, <2>4, FairBecomes DEF Serves
  <1> QED
    BY <1>10, <1>11

LEMMA FairNext ==
    ASSUME Plain, Settled, Places(Now), NoneWarming, [Next]_vars
    PROVE  FairStep
  <1>1. ASSUME NEW c \in Clients, NEW s \in Strs, Open(c, s) PROVE FairStep
    BY <1>1, OpenFair
  <1>2. ASSUME NEW c \in Clients, NEW s \in Strs, OpenSync(c, s) PROVE FairStep
    BY <1>2 DEF OpenSync, Plain
  <1>3. ASSUME NEW c \in Clients, Close(c) PROVE FairStep
    <2>1. PICK z, d, idle, q : /\ LetsGo(z, c, d) /\ Becomes(q)
                               /\ q = PoolClose(z, d, idle)
      BY <1>3, CloseEffect DEF Settled
    <2> QED
      BY <2>1, CloseFair
  <1>4. ASSUME NEW c \in Clients, CloseSync(c) PROVE FairStep
    <2>1. PICK z, d, idle, q, lost :
             /\ LetsGo(z, c, d) /\ Becomes(q)
             /\ q = PoolCloseSync(z, d, lost, idle)
             /\ lost # FALSE => "lost" \in Faults
      BY <1>4, CloseSyncEffect DEF Settled
    <2>2. q = PoolCloseSync(z, d, FALSE, idle)
      BY <2>1 DEF Plain
    <2>3. q = PoolClose(z, d, idle)
      BY <2>1, <2>2, CloseSyncIsClose DEF LetsGo, Sane
    <2> QED
      BY <2>1, <2>3, CloseFair
  <1>5. ASSUME NEW c \in Clients, CloseAgain(c) PROVE FairStep
    BY <1>5 DEF CloseAgain, Plain
  <1>6. ASSUME NEW c \in Clients, ConnectionLost(c) PROVE FairStep
    BY <1>6 DEF ConnectionLost, MayLose, Plain
  <1>7. ASSUME NEW c \in Clients, BeginTransaction(c) PROVE FairStep
    <2>1. PICK d, q : /\ Becomes(q) /\ q.avail = Now.avail /\ q.fifo = Now.fifo
                      /\ q.pc = Now.pc /\ q.size = Now.size
      BY <1>7, BeginTransactionEffect DEF Settled
    <2>2. In(q) = In(Now)
      BY <2>1 DEF In
    <2> QED
      BY <2>1, <2>2, FairSame
  <1>8. ASSUME NEW d \in Conns, OpenDone(d) PROVE FairStep
    BY <1>8, OpenDoneFair
  <1>9. ASSUME NEW d \in Conns, RealCloseDone(d) PROVE FairStep
    BY <1>9, SettledFacts, NowFields DEF RealCloseDone
  <1>10. ASSUME NEW d \in Conns, InitAsyncDone(d) PROVE FairStep
    BY <1>10, NowFields DEF InitAsyncDone, NoneWarming, Plain
  <1>11. ASSUME NEW s \in Strs, NEW n \in InitCounts, InitSync(n, s)
         PROVE  FairStep
    BY <1>11 DEF InitSync, Plain
  <1>12. ASSUME NEW s \in Strs, NEW n \in InitCounts, InitAsync(n, s)
         PROVE  FairStep
    BY <1>12 DEF InitAsync, Plain
  <1>13. CASE Now' = Now
    BY <1>13 DEF FairStep, Serves
  <1>14. ASSUME NEW n \in NewSizes, SetMaxPoolSize(n) PROVE FairStep
    BY <1>14 DEF Plain
  <1>15. CASE UNCHANGED vars
    BY <1>13, <1>15 DEF vars, poolVars, Now
  <1>16. ASSUME NEW c \in Clients
         PROVE  ~CloseCallsBack(c) /\ ~CloseAgainCallsBack(c)
    BY DEF CloseCallsBack, CloseAgainCallsBack, CallsBack, Settled, Plain
  <1>17. ~CallbackReturns
    BY DEF CallbackReturns, Settled
  <1> QED
    BY <1>1, <1>2, <1>3, <1>4, <1>5, <1>6, <1>7, <1>8, <1>9, <1>10, <1>11,
       <1>12, <1>14, <1>15, <1>16, <1>17 DEF Next, Calls, Delivers

-----------------------------------------------------------------------------
(* The refinement.                                                          *)

(* The limit is set once. *)
OneLimit == maxPoolSize = MaxSize

LEMMA OneLimitNext ==
    ASSUME NewSizes = {}, OneLimit, [Next]_vars
    PROVE  OneLimit'
  <1>1. ASSUME NEW q, Becomes(q) PROVE OneLimit'
    BY <1>1 DEF Becomes, OneLimit
  <1>2. UNCHANGED vars => OneLimit'
    BY DEF vars, OneLimit
  <1>3. ASSUME Calls PROVE OneLimit'
    <2>1. ASSUME NEW c \in Clients, NEW s \in Strs, Open(c, s) PROVE OneLimit'
      BY <1>1, <2>1 DEF Open
    <2>2. ASSUME NEW c \in Clients, NEW s \in Strs, OpenSync(c, s)
          PROVE  OneLimit'
      BY <1>1, <2>2 DEF OpenSync
    <2>3. ASSUME NEW c \in Clients, Close(c) \/ CloseSync(c) \/ CloseAgain(c)
          PROVE  OneLimit'
      BY <1>1, <2>3 DEF Close, CloseSync, CloseAgain
    <2>4. ASSUME NEW c \in Clients, ConnectionLost(c) \/ BeginTransaction(c)
          PROVE  OneLimit'
      BY <1>1, <2>4 DEF ConnectionLost, BeginTransaction
    <2>5. ASSUME NEW s \in Strs, NEW n \in InitCounts,
                 InitSync(n, s) \/ InitAsync(n, s)
          PROVE  OneLimit'
      BY <1>1, <2>5 DEF InitSync, InitAsync
    <2> QED
      BY <1>3, <2>1, <2>2, <2>3, <2>4, <2>5 DEF Calls
  <1>4. ASSUME NEW d \in Conns, Delivers(d) PROVE OneLimit'
    BY <1>1, <1>4 DEF Delivers, OpenDone, RealCloseDone, InitAsyncDone
  <1>5. ASSUME NEW c \in Clients, CloseCallsBack(c) \/ CloseAgainCallsBack(c)
        PROVE  OneLimit'
    BY <1>1, <1>5 DEF CloseCallsBack, CloseAgainCallsBack, CallsBack
  <1>6. ASSUME CallbackReturns PROVE OneLimit'
    BY <1>1, <1>6 DEF CallbackReturns
  <1> QED
    BY <1>2, <1>3, <1>4, <1>5, <1>6 DEF Next

(* With promises no callback of a close calls the pool. *)
NoneCallsBack == callbacks = <<>>

LEMMA NoneCallsBackNext ==
    ASSUME Nested = 0, NoneCallsBack, [Next]_vars
    PROVE  NoneCallsBack'
  <1>1. ASSUME NEW c \in Clients
        PROVE  ~CloseCallsBack(c) /\ ~CloseAgainCallsBack(c)
    BY DEF CloseCallsBack, CloseAgainCallsBack, CallsBack, NoneCallsBack
  <1>2. ~CallbackReturns
    BY DEF CallbackReturns, NoneCallsBack
  <1>3. UNCHANGED callbacks
    BY <1>1, <1>2 DEF Next, vars
  <1> QED
    BY <1>3 DEF NoneCallsBack

FairInv ==
    /\ CalmInv /\ CountInv /\ WaitingInv /\ OneLimit /\ NoneWarming
    /\ NoneCallsBack

LEMMA PlacesInit == Init => Places(Now)
  <1> SUFFICES ASSUME Init PROVE Places(Now)
    OBVIOUS
  <1>1. /\ Now.avail = [s \in Strs |-> <<>>] /\ Now.size = 0
        /\ Now.pc = [c \in Clients |-> "idle"]
    BY NowFields DEF Init
  <1>2. In(Now) = {}
    BY <1>1 DEF In
  <1>3. \A s \in Strs : Len(Now.avail[s]) = 0
    BY <1>1
  <1> QED
    BY <1>1, <1>2, <1>3, FS_EmptySet DEF Places

(* The variables of FairPool, in the terms of this module. *)
LEMMA MappedState ==
    /\ [i \in DOMAIN fifo |-> fifo[i].client] = Names(Now.fifo)
    /\ {c \in Clients : pc[c] \in {"opening", "holding"}} = In(Now)
    /\ [i \in DOMAIN fifo |-> fifo[i].client]' = Names(Now'.fifo)
    /\ {c \in Clients : pc[c] \in {"opening", "holding"}}' = In(Now')
  BY DEF Now, Names, In

LEMMA MappedOutside ==
    ASSUME NEW c \in Clients, Out(Now, c)
    PROVE  Promised!Outside(c)
  BY MappedState DEF Promised!Outside, Out, Now

LEMMA MappedStep ==
    ASSUME Serves(Now, Now'), Now.fifo \in Seq(Requests)
    PROVE  [Promised!Next]_Promised!vars
  <1>1. HasRoom(Now) <=> Promised!Room
    <2> DEFINE i == {c \in Clients : pc[c] \in {"opening", "holding"}}
    <2>1. Promised!Room <=> MaxSize = 0 \/ Cardinality(i) < MaxSize
      BY DEF Promised!Room, Promised!Cardinality, Cardinality
    <2>2. i = In(Now)
      BY MappedState
    <2> HIDE DEF i
    <2> QED
      BY <2>1, <2>2 DEF HasRoom
  <1>2. CASE (Now').fifo = Now.fifo /\ In(Now') = In(Now)
    BY <1>2, MappedState DEF Promised!vars
  <1>3. ASSUME NEW c \in Clients, Enters(Now, Now', c)
        PROVE  Promised!Enter(c)
    <2>1. Promised!Outside(c) /\ Promised!Room
      BY <1>1, <1>3, MappedOutside DEF Enters
    <2>2. Now.fifo = <<>> /\ (Now').fifo = Now.fifo /\ In(Now') = In(Now) \cup {c}
      BY <1>3 DEF Enters
    <2>3. Names(Now.fifo) = <<>>
      BY <2>2 DEF Names
    <2> QED
      BY <2>1, <2>2, <2>3, MappedState DEF Promised!Enter
  <1>4. ASSUME NEW c \in Clients, Waits(Now, Now', c)
        PROVE  Promised!Wait(c)
    <2>1. Promised!Outside(c) /\ ~Promised!Room
      BY <1>1, <1>4, MappedOutside DEF Waits
    <2>2. PICK w \in Requests : w.client = c /\ (Now').fifo = Append(Now.fifo, w)
      BY <1>4 DEF Waits
    <2>3. Names((Now').fifo) = Append(Names(Now.fifo), c)
      BY <2>2, NamesAppend
    <2>4. In(Now') = In(Now)
      BY <1>4 DEF Waits
    <2> QED
      BY <2>1, <2>3, <2>4, MappedState DEF Promised!Wait
  <1>5. ASSUME NEW c \in Clients, Leaves(Now, Now', c)
        PROVE  Promised!Leave(c)
    <2>1. /\ Now.fifo = <<>> /\ (Now').fifo = Now.fifo /\ In(Now') = In(Now) \ {c}
          /\ c \in In(Now)
      BY <1>5 DEF Leaves
    <2>2. Names(Now.fifo) = <<>>
      BY <2>1 DEF Names
    <2> QED
      BY <2>1, <2>2, MappedState DEF Promised!Leave
  <1>6. ASSUME NEW c \in Clients, MakesWay(Now, Now', c)
        PROVE  Promised!MakeWay(c)
    <2>1. /\ c \in In(Now) /\ Now.fifo # <<>> /\ (Now').fifo = Tail(Now.fifo)
          /\ In(Now') = (In(Now) \ {c}) \cup {Head(Now.fifo).client}
      BY <1>6 DEF MakesWay
    <2>2. /\ Names(Now.fifo) # <<>>
          /\ Names((Now').fifo) = Tail(Names(Now.fifo))
          /\ Head(Names(Now.fifo)) = Head(Now.fifo).client
      BY <2>1, NamesTail
    <2> QED
      BY <2>1, <2>2, MappedState DEF Promised!MakeWay
  <1> QED
    BY <1>2, <1>3, <1>4, <1>5, <1>6 DEF Serves, Promised!Next

(* One connection string and one limit, nothing fails, no autoCleanIdle, no *)
(* openSync, init, or second close, and no calls in the callbacks of close: *)
(* they come between its two halves.  Then the pool serves its clients as   *)
(* FairPool says, and every step of it is one of FairPool or none that      *)
(* shows: a client enters exactly when there is a free place, joins the end *)
(* of the line exactly when there is none, and one who closes lets the      *)
(* first in.                                                                *)
THEOREM PoolServesFairly ==
    ASSUME "lost" \notin Faults, "open" \notin Faults, ~AutoClean,
           Uses \cap {"init", "initAsync", "openSync", "reclose"} = {},
           NewSizes = {}, Nested = 0, \A s, t \in Strs : s = t
    PROVE  Spec => Promised!Init /\ [][Promised!Next]_Promised!vars
  <1>1. Plain /\ NoneDropped /\ "openSync" \notin Uses
    BY DEF Plain, OneString, NoneDropped
  <1>2. Spec => [](IInv /\ FairInv)
    <2>1. Init => OneLimit
      BY DEF Init, OneLimit
    <2>2. OneLimit /\ [Next]_vars => OneLimit'
      BY OneLimitNext
    <2>3. Spec => []OneLimit
      BY <2>1, <2>2, PTL DEF Spec
    <2>4. (Spec => []CountInv) /\ (Spec => []WaitingInv)
      BY <1>1, SpecCount, SpecWaiting
    <2>5. Init => NoneCallsBack
      BY DEF Init, NoneCallsBack
    <2>6. NoneCallsBack /\ [Next]_vars => NoneCallsBack'
      BY NoneCallsBackNext
    <2>7. Spec => []NoneCallsBack
      BY <2>5, <2>6, PTL DEF Spec
    <2> QED
      BY <2>3, <2>4, <2>7, SpecIInv, SpecCalm, PTL DEF FairInv
  <1> DEFINE Counted == Places(Now)
  <1>3. IInv /\ FairInv /\ Counted /\ [Next]_vars
           => Counted' /\ [Promised!Next]_Promised!vars
    <2> SUFFICES ASSUME IInv, FairInv, Places(Now), [Next]_vars
                 PROVE  Places(Now') /\ [Promised!Next]_Promised!vars
      OBVIOUS
    <2>1. Settled /\ NoneWarming
      BY DEF FairInv, Settled, OneLimit, NoneCallsBack
    <2>2. FairStep
      BY <1>1, <2>1, FairNext
    <2>3. Now.fifo \in Seq(Requests)
      BY <1>1, <2>1, SettledFacts
    <2> QED
      BY <2>2, <2>3, MappedStep DEF FairStep
  <1>4. Init => Counted /\ Promised!Init
    <2>1. Init => Promised!Init
      BY DEF Init, Promised!Init
    <2> QED
      BY <2>1, PlacesInit
  <1> HIDE DEF Counted
  <1> QED
    BY <1>2, <1>3, <1>4, PTL DEF Spec

-----------------------------------------------------------------------------
(* A queue is never left with nobody to run it, also when connections are   *)
(* closed twice: no connection leaves both lists, and usedPool lists none   *)
(* that no client has.                                                      *)

Listed(p) ==
    \A d \in p.live : d \in Elems(p.avail[StrOf[d]]) \cup Elems(p.used[StrOf[d]])

(* Every used connection, those of x apart, is in the hands of a client.    *)
InHands(p, x) ==
    \A s \in Strs : \A d \in Elems(p.used[s]) \ x :
       \E c \in Clients : p.pc[c] = "holding" /\ p.ref[c] = d

Rooted(p) == Listed(p) /\ InHands(p, {})

(* Client c, which held nothing, gets connection d, which becomes used.     *)
LEMMA InHandsMore ==
    ASSUME NEW p, NEW q, NEW c \in Clients, NEW d, p \in PoolStates,
           InHands(p, {}), p.pc[c] # "holding", Handed(p, q, c, d),
           \A s \in Strs : Elems(q.used[s]) \subseteq Elems(p.used[s]) \cup {d}
    PROVE  InHands(q, {})
  <1>1. /\ q.pc[c] = "holding" /\ q.ref[c] = d
        /\ \A e \in Clients \ {c} : q.pc[e] = p.pc[e] /\ q.ref[e] = p.ref[e]
    BY DEF Handed, PoolStates
  <1> SUFFICES ASSUME NEW s \in Strs, NEW e \in Elems(q.used[s])
               PROVE  \E k \in Clients : q.pc[k] = "holding" /\ q.ref[k] = e
    BY DEF InHands
  <1>2. CASE e = d
    BY <1>1, <1>2
  <1>3. CASE e # d
    <2>1. PICK k \in Clients : p.pc[k] = "holding" /\ p.ref[k] = e
      BY <1>3 DEF InHands
    <2> QED
      BY <1>1, <2>1
  <1> QED
    BY <1>2, <1>3

(* A connection that goes from availablePool to usedPool and to a client.   *)
LEMMA MovedRooted ==
    ASSUME NEW p, NEW q, NEW s \in Strs, NEW c \in Clients, NEW d,
           p \in PoolStates, Handed(p, q, c, d), q.live \subseteq p.live,
           Elems(q.avail[s]) = Elems(p.avail[s]) \ {d},
           Elems(q.used[s]) = Elems(p.used[s]) \cup {d},
           \A t \in Strs \ {s} : q.avail[t] = p.avail[t] /\ q.used[t] = p.used[t],
           p.pc[c] # "holding", Rooted(p)
    PROVE  Rooted(q)
  <1>5. \A t \in Strs : Elems(q.used[t]) \subseteq Elems(p.used[t]) \cup {d}
    OBVIOUS
  <1>6. InHands(q, {})
    <2>1. InHands(p, {})
      BY DEF Rooted
    <2>2. \A t \in Strs : Elems(q.used[t]) \subseteq Elems(p.used[t]) \cup {d}
      BY <1>5
    <2> QED
      BY <2>1, <2>2, InHandsMore
  <1>7. ASSUME NEW e \in q.live
        PROVE  e \in Elems(q.avail[StrOf[e]]) \cup Elems(q.used[StrOf[e]])
    <2>1. e \in Elems(p.avail[StrOf[e]]) \cup Elems(p.used[StrOf[e]])
      BY <1>7 DEF Rooted, Listed
    <2>2. StrOf[e] \in Strs
      BY <1>7, ConstantsAssumption DEF PoolStates
    <2> QED
      BY <2>1, <2>2
  <1> QED
    BY <1>6, <1>7 DEF Rooted, Listed

LEMMA TakenRooted ==
    ASSUME NEW p, NEW q, NEW s \in Strs, NEW c \in Clients, Sane(p),
           p.avail[s] # <<>>, Taken(p, q, s, Head(p.avail[s])),
           Handed(p, q, c, Head(p.avail[s])), q.live \subseteq p.live,
           p.pc[c] # "holding", Rooted(p)
    PROVE  Rooted(q)
  <1> DEFINE d == Head(p.avail[s])
  <1>1. /\ Elems(q.avail[s]) = Elems(p.avail[s]) \ {d}
        /\ Elems(q.used[s]) = Elems(p.used[s]) \cup {d}
    BY TakenElems
  <1>2. \A t \in Strs \ {s} : q.avail[t] = p.avail[t] /\ q.used[t] = p.used[t]
    BY DEF Taken
  <1>3. p \in PoolStates
    BY DEF Sane
  <1>4. Handed(p, q, c, d)
    OBVIOUS
  <1> HIDE DEF d
  <1> QED
    BY <1>1, <1>2, <1>3, <1>4, MovedRooted, Zenon

LEMMA RunNextRooted ==
    ASSUME NEW p, Sane(p), Waiting(p), Rooted(p), NEW n, n = RunNext(p)
    PROVE  Rooted(n)
  <1> DEFINE w == Head(p.fifo)
  <1>1. p \in PoolStates /\ p.fifo \in Seq(Requests)
    BY DEF Sane, PoolStates
  <1>2. CASE p.fifo = <<>>
    BY <1>2, RunNextEffect
  <1>3. CASE p.fifo # <<>>
    <2>1. w \in Requests /\ Next1(p, n, w) /\ n.live = p.live
      BY <1>3, RunNextEffect DEF SameRest
    <2>2. w.client \in Clients /\ p.pc[w.client] = "queued"
      <3>1. 1 \in DOMAIN p.fifo /\ w = p.fifo[1]
        BY <1>1, <1>3
      <3> HIDE DEF w
      <3> QED
        BY <3>1 DEF Waiting, Line
    <2>3. w.str \in Strs /\ w.client # Nobody
      BY <2>1, <2>2, ConstantsAssumption DEF Requests
    <2> HIDE DEF w
    <2>4. CASE /\ n.avail = p.avail /\ n.used = p.used
               /\ n.pc = p.pc /\ n.ref = p.ref
      BY <2>1, <2>4 DEF Rooted, Listed, InHands
    <2>5. CASE /\ p.avail[w.str] # <<>>
               /\ Taken(p, n, w.str, Head(p.avail[w.str]))
               /\ Handed(p, n, w.client, Head(p.avail[w.str]))
      BY <2>1, <2>2, <2>3, <2>5, TakenRooted
    <2> QED
      BY <2>1, <2>3, <2>4, <2>5 DEF Next1
  <1> QED
    BY <1>2, <1>3

(* A connection goes back to availablePool, from usedPool where it was.     *)
LEMMA ReturnedRooted ==
    ASSUME NEW p, NEW d \in Conns, Sane(p), d \notin Elems(p.avail[StrOf[d]]),
           d \in p.live, Listed(p), InHands(p, {d}),
           NEW r, Returned(p, r, d)
    PROVE  Rooted(r)
  <1> DEFINE s == StrOf[d]
  <1>1. /\ r.live = p.live /\ r.pc = p.pc /\ r.ref = p.ref
        /\ r.used[s] = SpliceOut(p.used[s], d)
        /\ r.avail[s] = Append(p.avail[s], d)
        /\ \A t \in Strs \ {s} : r.avail[t] = p.avail[t] /\ r.used[t] = p.used[t]
    BY DEF Returned
  <1>2. /\ s \in Strs /\ Uniq(p.used[s], s) /\ Uniq(p.avail[s], s)
        /\ \A t \in Strs : Elems(p.used[t]) \subseteq {e \in Conns : StrOf[e] = t}
    BY ConstantsAssumption, ElemsTyped DEF Sane, Lists
  <1>3. Elems(r.used[s]) = Elems(p.used[s]) \ {d}
    <2>1. d \in Elems(p.used[s])
      BY DEF Listed
    <2> QED
      BY <1>1, <1>2, <2>1, SpliceExact
  <1>4. Elems(r.avail[s]) = Elems(p.avail[s]) \cup {d}
    BY <1>1, <1>2, PushList
  <1>5. Listed(r)
    <2> SUFFICES ASSUME NEW e \in p.live
                 PROVE  e \in Elems(r.avail[StrOf[e]]) \cup Elems(r.used[StrOf[e]])
      BY <1>1 DEF Listed
    <2>1. /\ e \in Elems(p.avail[StrOf[e]]) \cup Elems(p.used[StrOf[e]])
          /\ StrOf[e] \in Strs
      BY ConstantsAssumption DEF Listed, Sane, PoolStates
    <2> HIDE DEF s
    <2> QED
      BY <1>1, <1>3, <1>4, <2>1
  <1>6. InHands(r, {})
    <2>1. \A t \in Strs : Elems(r.used[t]) \subseteq Elems(p.used[t]) \ {d}
      BY <1>1, <1>2, <1>3
    <2> QED
      BY <1>1, <2>1 DEF InHands
  <1> QED
    BY <1>5, <1>6 DEF Rooted

LEMMA ReleaseRooted ==
    ASSUME NEW p, NEW idle, NEW d \in Conns, Sane(p), d \notin Starting(p),
           d \notin Elems(p.avail[StrOf[d]]), d \in p.live,
           Waiting(p), ~AutoClean, Listed(p), InHands(p, {d}),
           NEW n, n = Release(p, d, idle)
    PROVE  Rooted(n)
  <1>1. PICK r : Returned(p, r, d) /\ n = RunNext(r)
    BY ReleaseReturns
  <1>2. Sane(r) /\ Rooted(r)
    BY <1>1, ReturnedRooted DEF Returned
  <1>3. Waiting(r)
    BY <1>1 DEF Returned, Waiting, SameOpens
  <1> QED
    BY <1>1, <1>2, <1>3, RunNextRooted

LEMMA PoolCloseRooted ==
    ASSUME NEW p, NEW idle, NEW d \in Conns, Sane(p), d \notin Starting(p),
           d \in p.live, Waiting(p), ~AutoClean, Listed(p), InHands(p, {d}),
           NEW n, n = PoolClose(p, d, idle)
    PROVE  Rooted(n)
  <1>1. CASE d \in Elems(p.avail[StrOf[d]])
    <2>1. \A s \in Strs : d \notin Elems(p.used[s])
      <3>1. \A s \in Strs : Elems(p.used[s]) \subseteq {e \in Conns : StrOf[e] = s}
        BY ElemsTyped DEF Sane, Lists
      <3> QED
        BY <1>1, <3>1 DEF Sane, Lists
    <2>2. InHands(p, {})
      BY <2>1 DEF InHands
    <2> QED
      BY <1>1, <2>2 DEF PoolClose, Rooted
  <1>2. CASE d \notin Elems(p.avail[StrOf[d]])
    <2> DEFINE q == [Stamp(p, d) EXCEPT !.tx = @ \ {d}]
               t1 == p.tx \ {d}
               z == [p EXCEPT !.stamped = p.stamped \cup {d}, !.tx = t1]
    <2>1. p \in PoolStates
      BY DEF Sane
    <2>2. n = Release(q, d, idle)
      BY <1>2 DEF PoolClose
    <2>3. q = z
      BY <2>1 DEF Stamp, PoolStates
    <2>4. t1 \subseteq Conns
      BY <2>1 DEF PoolStates
    <2> HIDE DEF q, t1
    <2>5. SameHandles(p, z) /\ z.fifo = p.fifo /\ z.live = p.live
      BY <2>1, <2>4 DEF PoolStates, SameHandles, SameOpens
    <2> HIDE DEF z
    <2>6. Sane(z)
      BY <2>5, SameHandlesKeeps
    <2>7. /\ z.avail = p.avail /\ z.used = p.used
          /\ z.pc = p.pc /\ z.ref = p.ref /\ SameOpens(p, z)
      BY <2>5 DEF SameHandles
    <2>8. d \notin Starting(z) /\ Waiting(z) /\ Listed(z) /\ InHands(z, {d})
      BY <2>5, <2>7 DEF SameOpens, Starting, Waiting, Listed, InHands
    <2> QED
      BY <1>2, <2>2, <2>3, <2>5, <2>6, <2>7, <2>8, ReleaseRooted
  <1> QED
    BY <1>1, <1>2

(* What is assumed: that of ServedInOrder. *)
Steady ==
    /\ OneString /\ NewSizes = {} /\ ~AutoClean
    /\ "open" \notin Faults /\ "lost" \notin Faults
    /\ Uses \cap {"openSync", "init", "initAsync"} = {}

RootedInv == Rooted(Now)

LEMMA RootedBecomes ==
    ASSUME NEW q, Becomes(q), Rooted(q)
    PROVE  RootedInv'
  <1> DEFINE m == Now'
  <1>1. /\ m.avail = q.avail /\ m.used = q.used /\ m.live = q.live
        /\ m.pc = q.pc /\ m.ref = q.ref
    BY BecomesFields
  <1> HIDE DEF m
  <1>2. Rooted(m)
    BY <1>1 DEF Rooted, Listed, InHands
  <1> QED
    BY <1>2 DEF m, RootedInv

LEMMA OpenRooted ==
    ASSUME Steady, IInv, CountInv, WaitingInv, RootedInv,
           NEW c \in Clients, NEW s \in Strs, Open(c, s)
    PROVE  RootedInv'
  <1>1. PICK z, q :
           /\ Now.pc[c] = "idle" /\ Begun(z, c, s) /\ Becomes(q)
           /\ \/ Served(z, q, c, s)
              \/ /\ z.avail[s] = <<>> /\ Full(z) /\ Parked(z, q, c, s)
                 /\ q.pc = [z.pc EXCEPT ![c] = "queued"]
              \/ /\ z.avail[s] = <<>> /\ ~Full(z)
                 /\ \E d \in Fresh(s) : Starts(z, q, c, d)
    BY OpenEffect
  <1>2. /\ Sane(z) /\ z \in PoolStates
        /\ z.pc = Now.pc /\ z.live = Now.live /\ z.used = Now.used
        /\ \A e \in Clients \ {c} : z.ref[e] = Now.ref[e]
        /\ z.avail[s] = Now.avail[s]
    <2>1. \A t \in Strs : Elems(Now.avail[t]) \subseteq Now.live
      BY DEF CountInv, Alive
    <2> QED
      BY <1>1, <2>1 DEF Begun, Sane
  <1>3. Rooted(z)
    <2>1. \A d \in Now.live : StrOf[d] = s
      BY ConstantsAssumption DEF Steady, OneString, IInv, Good, Sane, PoolStates
    <2>2. Listed(z)
      BY <1>2, <2>1 DEF RootedInv, Rooted, Listed
    <2>3. InHands(z, {})
      BY <1>1, <1>2 DEF RootedInv, Rooted, InHands
    <2> QED
      BY <2>2, <2>3 DEF Rooted
  <1>4. CASE Served(z, q, c, s)
    <2>1. z.pc[c] # "holding" /\ q.live = z.live
      BY <1>1, <1>2, <1>4 DEF Served, SameRest
    <2>2. /\ z.avail[s] # <<>> /\ Taken(z, q, s, Head(z.avail[s]))
          /\ Handed(z, q, c, Head(z.avail[s]))
      BY <1>4 DEF Served
    <2>3. Rooted(q)
      BY <1>2, <1>3, <2>1, <2>2, TakenRooted
    <2> QED
      BY <1>1, <2>3, RootedBecomes
  <1>5. CASE ~Served(z, q, c, s)
    <2>1. /\ q.avail = z.avail /\ q.used = z.used /\ q.live = z.live
          /\ q.ref = z.ref
      BY <1>1, <1>5 DEF Parked, SameRest, Starts
    <2>2. \A e \in Clients : z.pc[e] = "holding" => q.pc[e] = "holding"
      BY <1>1, <1>2, <1>5 DEF Starts, PoolStates
    <2>3. Rooted(q)
      BY <1>3, <2>1, <2>2 DEF Rooted, Listed, InHands
    <2> QED
      BY <1>1, <2>3, RootedBecomes
  <1> QED
    BY <1>4, <1>5

LEMMA OpenDoneRooted ==
    ASSUME Steady, IInv, WaitingInv, RootedInv, NEW d \in Conns, OpenDone(d)
    PROVE  RootedInv'
  <1>1. PICK c, z, q : Ended(z, d, c) /\ Becomes(q) /\ Opened(z, q, c, d)
    BY OpenDoneEffect DEF Steady
  <1>2. /\ c = Now.opening[d] /\ c \in Clients /\ z \in PoolStates
        /\ z.avail = Now.avail /\ z.used = Now.used /\ z.live = Now.live
        /\ z.pc = Now.pc /\ z.ref = Now.ref
    BY <1>1 DEF Ended
  <1>3. /\ q.avail = z.avail /\ q.live = z.live \cup {d}
        /\ q.used[StrOf[d]] = Append(z.used[StrOf[d]], d)
        /\ \A t \in Strs \ {StrOf[d]} : q.used[t] = z.used[t]
        /\ Handed(z, q, c, d)
    BY <1>1 DEF Opened
  <1>4. z.pc[c] # "holding"
    <2>1. c # Nobody /\ Waiting(Now)
      BY <1>2, ConstantsAssumption DEF WaitingInv
    <2> QED
      BY <1>2, <2>1 DEF Waiting
  <1>5. Elems(q.used[StrOf[d]]) = Elems(z.used[StrOf[d]]) \cup {d}
    <2>1. Uniq(z.used[StrOf[d]], StrOf[d]) /\ d \notin Elems(z.used[StrOf[d]])
      <3>1. StrOf[d] \in Strs /\ d \in Starting(Now)
        BY <1>2, ConstantsAssumption DEF Starting
      <3> QED
        BY <1>2, <3>1 DEF IInv, Good, Sane, Lists, Apart
    <2> QED
      BY <1>3, <2>1, PushList
  <1>6. InHands(q, {})
    <2>1. \A t \in Strs : Elems(q.used[t]) \subseteq Elems(z.used[t]) \cup {d}
      BY <1>3, <1>5
    <2>2. InHands(z, {})
      BY <1>2 DEF RootedInv, Rooted, InHands
    <2> QED
      BY <1>2, <1>3, <1>4, <2>1, <2>2, InHandsMore
  <1>7. ASSUME NEW e \in q.live
        PROVE  e \in Elems(q.avail[StrOf[e]]) \cup Elems(q.used[StrOf[e]])
    <2>1. CASE e = d
      BY <1>5, <2>1
    <2>2. CASE e # d
      <3>1. e \in z.live /\ StrOf[e] \in Strs
        BY <1>2, <1>3, <1>7, <2>2, ConstantsAssumption DEF PoolStates
      <3>2. e \in Elems(z.avail[StrOf[e]]) \cup Elems(z.used[StrOf[e]])
        BY <1>2, <3>1 DEF RootedInv, Rooted, Listed
      <3> QED
        BY <1>3, <1>5, <3>1, <3>2
    <2> QED
      BY <2>1, <2>2
  <1>8. Rooted(q)
    BY <1>6, <1>7 DEF Rooted, Listed
  <1> QED
    BY <1>1, <1>8, RootedBecomes

(* A close, be it the second one. *)
LEMMA LetsGoRooted ==
    ASSUME Steady, IInv, CountInv, WaitingInv, RootedInv,
           NEW z, NEW c \in Clients, NEW d, LetsGo(z, c, d)
    PROVE  /\ Sane(z) /\ d \in Conns /\ d \notin Starting(z) /\ d \in z.live
           /\ Waiting(z) /\ Listed(z) /\ InHands(z, {d})
  <1>1. /\ Sane(z) /\ SameRest(Now, z)
        /\ d \in Conns /\ d \notin Starting(z) /\ d = Now.ref[c]
        /\ z.avail = Now.avail /\ z.used = Now.used /\ z.fifo = Now.fifo
        /\ \A e \in Clients \ {c} : z.pc[e] = Now.pc[e] /\ z.ref[e] = Now.ref[e]
        /\ Now.pc[c] \in {"holding", "idle"}
    BY DEF LetsGo
  <1>2. z.live = Now.live /\ z.opening = Now.opening
    BY <1>1 DEF SameRest, SameOpens
  <1>3. d \in z.live
    BY <1>1, <1>2, ConstantsAssumption DEF Steady, CountInv, Alive, Owned
  <1>4. Waiting(z)
    <2>1. Waiting(Now) /\ Now \in PoolStates
      BY DEF WaitingInv, IInv, Good, Sane
    <2>2. Now.pc[c] # "queued" /\ \A e \in Conns : Now.opening[e] # c
      BY <1>1, <2>1, ConstantsAssumption DEF Waiting
    <2> QED
      BY <1>1, <1>2, <2>1, <2>2, WaitingFrame
  <1>5. Listed(z)
    BY <1>1, <1>2 DEF RootedInv, Rooted, Listed
  <1>6. InHands(z, {d})
    <2> SUFFICES ASSUME NEW s \in Strs, NEW e \in Elems(z.used[s]) \ {d}
                 PROVE  \E k \in Clients : z.pc[k] = "holding" /\ z.ref[k] = e
      BY DEF InHands
    <2>1. PICK k \in Clients : Now.pc[k] = "holding" /\ Now.ref[k] = e
      BY <1>1 DEF RootedInv, Rooted, InHands
    <2>2. k # c
      BY <1>1, <2>1
    <2> QED
      BY <1>1, <2>1, <2>2
  <1> QED
    BY <1>1, <1>3, <1>4, <1>5, <1>6

LEMMA CloseRooted ==
    ASSUME Steady, IInv, CountInv, WaitingInv, RootedInv,
           NEW z, NEW c \in Clients, NEW d, NEW idle, NEW q,
           LetsGo(z, c, d), Becomes(q), q = PoolClose(z, d, idle)
    PROVE  RootedInv'
  <1>1. /\ Sane(z) /\ d \in Conns /\ d \notin Starting(z) /\ d \in z.live
        /\ Waiting(z) /\ Listed(z) /\ InHands(z, {d})
    BY LetsGoRooted
  <1>2. Rooted(q)
    BY <1>1, PoolCloseRooted DEF Steady
  <1> QED
    BY <1>2, RootedBecomes

LEMMA RootedNext ==
    ASSUME Steady, CInv, CountInv, WaitingInv, NoneWarming, RootedInv,
           [Next]_vars
    PROVE  RootedInv'
  <1> USE DEF CInv
  <1>1. ASSUME NEW c \in Clients, NEW s \in Strs, Open(c, s) PROVE RootedInv'
    BY <1>1, OpenRooted
  <1>2. ASSUME NEW c \in Clients, NEW s \in Strs, OpenSync(c, s)
        PROVE  RootedInv'
    BY <1>2 DEF OpenSync, Steady
  <1>3. ASSUME NEW c \in Clients, Close(c) PROVE RootedInv'
    <2>1. PICK z, d, idle, q : /\ LetsGo(z, c, d) /\ Becomes(q)
                               /\ q = PoolClose(z, d, idle)
      BY <1>3, CloseEffect
    <2> QED
      BY <2>1, CloseRooted
  <1>4. ASSUME NEW c \in Clients, CloseSync(c) PROVE RootedInv'
    <2>1. PICK z, d, idle, q, lost :
             /\ LetsGo(z, c, d) /\ Becomes(q)
             /\ q = PoolCloseSync(z, d, lost, idle)
             /\ lost # FALSE => "lost" \in Faults
      BY <1>4, CloseSyncEffect
    <2>2. q = PoolCloseSync(z, d, FALSE, idle)
      BY <2>1 DEF Steady
    <2>3. q = PoolClose(z, d, idle)
      BY <2>1, <2>2, CloseSyncIsClose DEF LetsGo, Sane
    <2> QED
      BY <2>1, <2>3, CloseRooted
  <1>5. ASSUME NEW c \in Clients, CloseAgain(c) PROVE RootedInv'
    <2>1. PICK z, d, idle, q : /\ LetsGo(z, c, d) /\ Becomes(q)
                               /\ q = PoolClose(z, d, idle)
      BY <1>5, CloseAgainEffect
    <2> QED
      BY <2>1, CloseRooted
  <1>6. ASSUME NEW c \in Clients, ConnectionLost(c) PROVE RootedInv'
    BY <1>6 DEF ConnectionLost, MayLose, Steady
  <1>7. ASSUME NEW c \in Clients, BeginTransaction(c) PROVE RootedInv'
    <2>1. PICK d, q : /\ Becomes(q) /\ q.avail = Now.avail /\ q.used = Now.used
                      /\ q.pc = Now.pc /\ q.ref = Now.ref /\ q.live = Now.live
      BY <1>7, BeginTransactionEffect
    <2>2. Rooted(q)
      BY <2>1 DEF RootedInv, Rooted, Listed, InHands
    <2> QED
      BY <2>1, <2>2, RootedBecomes
  <1>8. ASSUME NEW d \in Conns, OpenDone(d) PROVE RootedInv'
    BY <1>8, OpenDoneRooted
  <1>9. ASSUME NEW d \in Conns, RealCloseDone(d) PROVE RootedInv'
    BY <1>9, NowFields DEF RealCloseDone, Steady, CountInv, Alive
  <1>10. ASSUME NEW d \in Conns, InitAsyncDone(d) PROVE RootedInv'
    BY <1>10, NowFields DEF InitAsyncDone, NoneWarming, Steady
  <1>11. ASSUME NEW s \in Strs, NEW n \in InitCounts, InitSync(n, s)
         PROVE  RootedInv'
    BY <1>11 DEF InitSync, Steady
  <1>12. ASSUME NEW s \in Strs, NEW n \in InitCounts, InitAsync(n, s)
         PROVE  RootedInv'
    BY <1>12 DEF InitAsync, Steady
  <1>13. CASE Now' = Now
    BY <1>13 DEF RootedInv
  <1>14. ASSUME NEW n \in NewSizes, SetMaxPoolSize(n) PROVE RootedInv'
    BY <1>14 DEF Steady
  <1>15. CASE UNCHANGED vars
    BY <1>13, <1>15 DEF vars, poolVars, Now
  <1>16. ASSUME NEW c \in Clients, CloseCallsBack(c) \/ CloseAgainCallsBack(c)
         PROVE  RootedInv'
    <2>1. PICK z, d, g : /\ LetsGo(z, c, d) /\ Becomes(g)
                         /\ BackOnOffer(z, g, d)
      BY <1>16, CloseCallsBackEffect
    <2>2. /\ Sane(z) /\ d \in Conns /\ d \in z.live
          /\ Listed(z) /\ InHands(z, {d})
      BY <2>1, LetsGoRooted
    <2>3. Returned(z, g, d) /\ d \notin Elems(z.avail[StrOf[d]])
      BY <2>1 DEF BackOnOffer
    <2>4. Rooted(g)
      BY <2>2, <2>3, ReturnedRooted
    <2> QED
      BY <2>1, <2>4, RootedBecomes
  <1>17. ASSUME CallbackReturns PROVE RootedInv'
    <2>1. PICK d, idle, n : /\ d \in Conns
                            /\ Becomes(n) /\ n = Wakes(Now, d, idle)
      BY <1>17, CallbackReturnsEffect
    <2>2. n = RunNext(Now)
      BY <2>1 DEF Wakes, Steady
    <2>3. Sane(Now) /\ Waiting(Now) /\ Rooted(Now)
      BY DEF IInv, Good, WaitingInv, RootedInv
    <2>4. Rooted(n)
      BY <2>2, <2>3, RunNextRooted
    <2> QED
      BY <2>1, <2>4, RootedBecomes
  <1> QED
    BY <1>1, <1>2, <1>3, <1>4, <1>5, <1>6, <1>7, <1>8, <1>9, <1>10, <1>11,
       <1>12, <1>14, <1>15, <1>16, <1>17 DEF Next, Calls, Delivers

LEMMA RootedInit == Init => RootedInv
  <1> SUFFICES ASSUME Init PROVE RootedInv
    OBVIOUS
  <1>1. Now.live = {} /\ Now.used = [s \in Strs |-> <<>>]
    BY NowFields DEF Init
  <1>2. \A s \in Strs : Elems(Now.used[s]) = {}
    BY <1>1 DEF Elems
  <1> QED
    BY <1>1, <1>2 DEF RootedInv, Rooted, Listed, InHands

(* A queue means a full pool, and none of its connections is idle: one is   *)
(* being opened for a client, or stands in usedPool for one.                *)
LEMMA SomebodyInside ==
    ASSUME Steady, IInv, CalmInv, CountInv, WaitingInv, NoneWarming, RootedInv
    PROVE  NobodyStranded
  <1> SUFFICES ASSUME fifo # <<>>, callbacks = <<>>
               PROVE  \E c \in Clients : pc[c] \in {"opening", "holding"}
    BY DEF NobodyStranded
  <1>1. Now.size > 0 /\ Alive(Now)
    <2>1. maxPoolSize \in Nat /\ Now.size \in Int /\ Now.size = poolSize
      BY NowFields DEF IInv, Good, Sane, PoolStates
    <2> QED
      BY <2>1 DEF Steady, CountInv
  <1>2. PICK d : d \in Known(Now)
    <2>1. Known(Now) # {}
      BY <1>1, FS_EmptySet DEF Alive
    <2> QED
      BY <2>1
  <1>3. CASE d \in Starting(Now)
    <2>1. d \in Conns /\ opening[d] # Nobody
      BY <1>3, NowFields DEF Starting, NoneWarming, Steady
    <2>2. opening[d] \in Clients /\ pc[opening[d]] = "opening"
      BY <2>1, NowFields DEF WaitingInv, Waiting, IInv, Good, Sane, PoolStates
    <2> QED
      BY <2>2
  <1>4. CASE d \in Now.live
    <2>1. StrOf[d] \in Strs
      BY <1>4, ConstantsAssumption DEF IInv, Good, Sane, PoolStates
    <2>2. Now.avail[StrOf[d]] = <<>>
      <3>1. Sane(Now) /\ Prompt(Now, 0) /\ Now.fifo # <<>>
        BY NowFields DEF CalmInv, CalmAt, Steady, IInv, Good
      <3> QED
        BY <2>1, <3>1, PromptEmpty
    <2>3. d \in Elems(Now.used[StrOf[d]])
      BY <1>4, <2>2 DEF RootedInv, Rooted, Listed, Elems
    <2> QED
      BY <2>1, <2>3, NowFields DEF RootedInv, Rooted, InHands
  <1> QED
    BY <1>2, <1>3, <1>4 DEF Known

(* As long as the pool serves in order - one connection string and one      *)
(* limit, nothing fails, no autoCleanIdle, init or openSync - and however   *)
(* often connections are closed twice, and whatever the callbacks of close  *)
(* call: while a request waits some client has a connection or is getting   *)
(* one, or the callback of a close runs, after which the queue is run.      *)
THEOREM NobodyWaitsInVain ==
    ASSUME "lost" \notin Faults, "open" \notin Faults, ~AutoClean,
           Uses \cap {"init", "initAsync", "openSync"} = {},
           NewSizes = {}, \A s, t \in Strs : s = t
    PROVE  Spec => []NobodyStranded
  <1>1. Steady /\ NoneDropped /\ "openSync" \notin Uses
    BY DEF Steady, OneString, NoneDropped
  <1>2. (Spec => []CountInv) /\ (Spec => []WaitingInv)
    BY <1>1, SpecCount, SpecWaiting
  <1>3. CInv /\ CountInv /\ WaitingInv /\ NoneWarming /\ RootedInv /\ [Next]_vars
           => RootedInv'
    BY <1>1, RootedNext
  <1>4. IInv /\ CalmInv /\ CountInv /\ WaitingInv /\ NoneWarming /\ RootedInv
           => NobodyStranded
    BY <1>1, SomebodyInside
  <1> QED
    BY <1>2, <1>3, <1>4, RootedInit, SpecCInv, SpecIInv, SpecCalm,
       PTL DEF Spec
=============================================================================
