---------------------------- MODULE LoginQueueProofs ----------------------------
(***************************************************************************)
(* Proofs about LoginQueue for any accounts, sessions, limits and clients. *)
(*                                                                         *)
(* The parts of the invariant take the tables as arguments, because adding *)
(* a session that replaces another is two changes of them in one step: the *)
(* old one departs, the new one joins, and the invariant holds in between. *)
(***************************************************************************)
EXTENDS LoginQueue, SequenceTheorems, FiniteSetTheorems, TLAPS

(* The queue an account waits in.                                          *)
Home(pq, a) == IF pq THEN GetQueueIndex(a) ELSE 0

(* The tables n (addSessQueue), m (m_sessions), d (m_disconnectedSessions), *)
(* ss (the sessions) and q (the queues) are well typed.                    *)
TablesOK(n, m, d, ss, q) ==
    /\ n \in Seq(Slots)
    /\ m \in [Accounts -> Slots \cup {NoSession}]
    /\ d \in SUBSET Slots
    /\ ss \in [Slots -> Sessions \cup {NoSession}]
    /\ q \in [Region -> Seq(Entries)]

(* A character loads or plays only behind the queue.                       *)
PlayInv(ss) ==
    \A s \in Slots : ss[s] # NoSession =>
        /\ ss[s].loading \/ ss[s].inWorld => ss[s].passed
        /\ ~(ss[s].passed /\ ss[s].inQueue)

(* The three tables share the living sessions out: a new one neither waits *)
(* nor has passed, one of m_sessions does one of the two, a disconnected   *)
(* one has passed.                                                         *)
OwnInv(n, m, d, ss) ==
    /\ \A k \in 1 .. Len(n) : ss[n[k]] # NoSession
                              /\ ~ss[n[k]].inQueue /\ ~ss[n[k]].passed
    /\ \A k, l \in 1 .. Len(n) : n[k] = n[l] => k = l
    /\ \A a \in Listed(m) : ss[m[a]] # NoSession /\ ss[m[a]].acct = a
                            /\ (ss[m[a]].inQueue \/ ss[m[a]].passed)
                            /\ m[a] \notin d
    /\ \A s \in d : ss[s] # NoSession /\ ss[s].passed
    /\ \A s \in Slots : ss[s] # NoSession =>
          \/ \E k \in 1 .. Len(n) : n[k] = s
          \/ m[ss[s].acct] = s
          \/ s \in d

(* No session is twice in the queue.                                       *)
Distinct(q) == \A k, l \in 1 .. Len(q) : q[k].s = q[l].s => k = l

(* A queue holds sessions of m_sessions of its region, each once, and all  *)
(* those that wait.                                                        *)
WaitInv(pq, m, ss, q) ==
    /\ \A i \in Region : \A s \in Waiting(q[i]) :
          /\ ss[s] # NoSession /\ ss[s].inQueue
          /\ m[ss[s].acct] = s /\ Home(pq, ss[s].acct) = i
    /\ \A i \in Region : Distinct(q[i])
    /\ \A a \in Listed(m) : ss[m[a]].inQueue => m[a] \in Waiting(q[Home(pq, a)])

(* Living sessions of a region that passed the queue.                      *)
Population(ss, i) ==
    {s \in Slots : ss[s] # NoSession /\ ss[s].passed
                   /\ GetQueueIndex(ss[s].acct) = i}

CountInv(ss, l) ==
    l \in [Region -> Nat] /\ \A i \in Region : l[i] = Cardinality(Population(ss, i))

(* The accounts in m_sessions that passed the queue, and those of them     *)
(* that waited for their turn.                                             *)
Playing(m, ss) == {a \in Listed(m) : ss[m[a]].passed}
Entered(m, ss) == {a \in Listed(m) : ss[m[a]].passed /\ ~ss[m[a]].skipped}

Bound(pq) == IF pq /\ LoginPerTick # 0 THEN HardLimit + (LoginPerTick - 1)
             ELSE HardLimit

Sound(pq, n, m, d, ss, q, l) ==
    /\ TablesOK(n, m, d, ss, q)
    /\ PlayInv(ss) /\ OwnInv(n, m, d, ss)
    /\ WaitInv(pq, m, ss, q) /\ CountInv(ss, l)

(* Session v is session u as far as the tables are concerned.              *)
Same(u, v) ==
    /\ v # NoSession /\ v.acct = u.acct
    /\ (v.inQueue <=> u.inQueue) /\ (v.passed <=> u.passed)
    /\ (v.skipped <=> u.skipped)
    /\ v.loading \/ v.inWorld => v.passed

(* The sessions w left the queues q, which now are r.                      *)
LeftQueues(q, r, w) ==
    /\ r \in [Region -> Seq(Entries)]
    /\ \A i \in Region : Distinct(r[i]) /\ Waiting(r[i]) = Waiting(q[i]) \ w

(* The session of account a leaves m_sessions: it is deleted, or kept with *)
(* its character as a disconnected one.                                    *)
Departs(a, m, d, ss, q, l, m2, d2, ss2, r, l2) ==
    /\ a \in Listed(m) /\ m2 = [m EXCEPT ![a] = NoSession]
    /\ LeftQueues(q, r, {m[a]})
    /\ ss2 \in [Slots -> Sessions \cup {NoSession}]
    /\ \A t \in Slots : t # m[a] => ss2[t] = ss[t]
    /\ \/ ss2[m[a]] = NoSession /\ d2 = d /\ l2 = CountDown(l, ss, {m[a]})
       \/ /\ ss[m[a]].inWorld /\ Same(ss[m[a]], ss2[m[a]])
          /\ d2 = d \cup {m[a]} /\ l2 = l

(* Session s, the first of addSessQueue, enters m_sessions for account a,  *)
(* to wait in the queue or to play.                                        *)
Joins(s, a, n, m, ss, q, l, m2, ss2, r, l2) ==
    /\ n # <<>> /\ s = Head(n) /\ a = ss[s].acct
    /\ m[a] = NoSession /\ m2 = [m EXCEPT ![a] = s]
    /\ ss2 \in [Slots -> Sessions \cup {NoSession}]
    /\ \A t \in Slots : t # s => ss2[t] = ss[t]
    /\ ss2[s] # NoSession /\ ss2[s].acct = a
    /\ (ss2[s].loading <=> ss[s].loading) /\ (ss2[s].inWorld <=> ss[s].inWorld)
    /\ r \in [Region -> Seq(Entries)] /\ \A j \in Region : Distinct(r[j])
    /\ \/ /\ ss2[s].inQueue /\ ~ss2[s].passed /\ l2 = l
          /\ \A j \in Region :
                Waiting(r[j]) = IF j = QueueOf(a) THEN Waiting(q[j]) \cup {s}
                                ELSE Waiting(q[j])
       \/ /\ ~ss2[s].inQueue /\ ss2[s].passed
          /\ l2 = [l EXCEPT ![GetQueueIndex(a)] = @ + 1]
          /\ \A j \in Region : Waiting(r[j]) = Waiting(q[j])

(* A network thread appends the new session v to addSessQueue.             *)
Arrives(s, v, n, ss, n2, ss2) ==
    /\ s \in Slots /\ ss[s] = NoSession
    /\ v \in Sessions /\ ~v.inQueue /\ ~v.passed /\ ~v.loading /\ ~v.inWorld
    /\ n2 = Append(n, s) /\ ss2 = [ss EXCEPT ![s] = v]

(* The first session of addSessQueue is deleted.                           *)
Refused(n, ss, ss2) == n # <<>> /\ ss2 = [ss EXCEPT ![Head(n)] = NoSession]

(* The populations read at the start of the tick are not above the current *)
(* ones while they are used.                                               *)
TickInv ==
    pc \in {"regional", "nonregional"} => \A i \in Region : pops[i] <= logged[i]

(* The other variables.                                                    *)
ScalarsOK ==
    /\ priorityQueue \in BOOLEAN /\ m_playerLimit \in Nat
    /\ graced \in SUBSET Accounts
    /\ pc \in {"regional", "nonregional", "add", "update", "results"}
    /\ pops \in [Region -> Nat] /\ todo \in SUBSET Listed(m_sessions)

(* The tables are sound and the limit is kept.                             *)
Good(n, m, d, ss, q, l) ==
    /\ Sound(priorityQueue, n, m, d, ss, q, l)
    /\ Cardinality(Entered(m, ss)) <= Bound(priorityQueue)

(* The inductive invariant.                                                *)
LoginInv ==
    /\ ScalarsOK /\ TickInv
    /\ Good(addSessQueue, m_sessions, m_disconnectedSessions, sess, queue, logged)

-----------------------------------------------------------------------------
(* What the operations on a queue do to the set of waiting sessions.       *)

(* Sessions that wait are sessions, as many as the queue is long.          *)
LEMMA WaitingCount ==
  ASSUME NEW q \in Seq(Entries)
  PROVE  /\ Waiting(q) \in SUBSET Slots /\ IsFiniteSet(Waiting(q))
         /\ Distinct(q) => Cardinality(Waiting(q)) = Len(q)
<1>1. Len(q) \in Nat /\ \A k \in 1 .. Len(q) : q[k] \in Entries /\ q[k].s \in Slots
  <2>1. Len(q) \in Nat /\ \A k \in 1 .. Len(q) : q[k] \in Entries
    BY ElementOfSeq, LenProperties
  <2> QED
    BY <2>1 DEF Entries
<1>2. Waiting(q) \in SUBSET Slots
  BY <1>1 DEF Waiting
<1>3. IsFiniteSet(Waiting(q))
  BY <1>2, FS_Subset, LoginAssumption
<1>4. ASSUME Distinct(q) PROVE Cardinality(Waiting(q)) = Len(q)
  <2> DEFINE f == [k \in 1 .. Len(q) |-> q[k].s]
  <2>1. f \in [1 .. Len(q) -> Waiting(q)]
    BY DEF Waiting
  <2>2. \A x, y \in 1 .. Len(q) : f[x] = f[y] => x = y
    BY <1>4 DEF Distinct
  <2>3. \A t \in Waiting(q) : \E x \in 1 .. Len(q) : f[x] = t
    BY DEF Waiting
  <2> HIDE DEF f
  <2>4. f \in Bijection(1 .. Len(q), Waiting(q))
    BY <2>1, <2>2, <2>3 DEF Bijection, Injection, Surjection, IsInjective
  <2>5. ExistsBijection(1 .. Len(q), Waiting(q))
    BY <2>4 DEF ExistsBijection
  <2> QED
    BY <1>1, <2>5, FS_CountingElements
<1> QED
  BY <1>2, <1>3, <1>4

(* A queue that takes each of its entries from a different place of        *)
(* another keeps sessions distinct.                                        *)
LEMMA DistinctPart ==
  ASSUME NEW q \in Seq(Entries), Distinct(q), NEW r \in Seq(Entries),
         NEW f \in [1 .. Len(r) -> 1 .. Len(q)],
         \A k \in 1 .. Len(r) : r[k].s = q[f[k]].s,
         \A k, l \in 1 .. Len(r) : f[k] = f[l] => k = l
  PROVE  Distinct(r)
  BY SMTT(30) DEF Distinct

(* The search of RemoveQueuedSession finds the session.                    *)
LEMMA PlaceFound ==
  ASSUME NEW q \in Seq(Entries), Distinct(q), NEW s \in Waiting(q)
  PROVE  /\ PlaceOf(q, s) \in 1 .. Len(q) /\ q[PlaceOf(q, s)].s = s
         /\ \A k \in 1 .. Len(q) : q[k].s = s => k = PlaceOf(q, s)
<1> DEFINE P(k) == q[k].s = s /\ \A j \in 1 .. k - 1 : q[j].s # s
<1>1. PICK k \in 1 .. Len(q) : q[k].s = s
  BY DEF Waiting
<1>2. Len(q) \in Nat
  OBVIOUS
<1>3. P(k)
  <2> SUFFICES ASSUME NEW j \in 1 .. k - 1, q[j].s = s PROVE FALSE
    BY <1>1
  <2>1. j \in 1 .. Len(q) /\ j # k
    BY <1>2
  <2> QED
    BY <1>1, <2>1 DEF Distinct
<1>4. PlaceOf(q, s) \in 1 .. Len(q) /\ P(PlaceOf(q, s))
  BY <1>3 DEF PlaceOf
<1> QED
  BY <1>4 DEF Distinct

(* Erasing a session takes it, and nobody else, out of the queue.          *)
LEMMA WithoutOne ==
  ASSUME NEW q \in Seq(Entries), Distinct(q), NEW s
  PROVE  /\ Without(q, s) \in Seq(Entries) /\ Distinct(Without(q, s))
         /\ Waiting(Without(q, s)) = Waiting(q) \ {s}
<1>1. CASE s \notin Waiting(q)
  BY <1>1 DEF Without
<1>2. CASE s \in Waiting(q)
  <2>20. PICK p : p = PlaceOf(q, s)
    OBVIOUS
  <2>1. /\ p \in 1 .. Len(q) /\ q[p].s = s
        /\ \A k \in 1 .. Len(q) : q[k].s = s => k = p
    BY <1>2, <2>20, PlaceFound
  <2>2. Len(q) \in Nat /\ \A k \in 1 .. Len(q) : q[k] \in Entries
    BY ElementOfSeq
  <2>21. PICK r1 : r1 = SubSeq(q, 1, p - 1)
    OBVIOUS
  <2>22. PICK r2 : r2 = SubSeq(q, p + 1, Len(q))
    OBVIOUS
  <2>23. PICK r : r = r1 \o r2
    OBVIOUS
  <2>3. r = Without(q, s)
    BY <1>2, <2>20, <2>21, <2>22, <2>23 DEF Without
  <2>4. /\ r1 \in Seq(Entries) /\ Len(r1) = p - 1
        /\ \A k \in 1 .. p - 1 : r1[k] = q[k]
    <3>1. \A k \in 1 .. p - 1 : q[k] \in Entries
      BY <2>1, <2>2
    <3>2. /\ r1 \in Seq(Entries) /\ Len(r1) = IF 1 <= p - 1 THEN (p - 1) - 1 + 1 ELSE 0
          /\ \A k \in 1 .. (p - 1) - 1 + 1 : r1[k] = q[1 + k - 1]
      BY <2>1, <2>2, <2>21, <3>1, SubSeqProperties
    <3> QED
      BY <2>1, <2>2, <3>2
  <2>5. /\ r2 \in Seq(Entries) /\ Len(r2) = Len(q) - p
        /\ \A k \in 1 .. Len(q) - p : r2[k] = q[p + k]
    <3>1. \A k \in p + 1 .. Len(q) : q[k] \in Entries
      BY <2>1, <2>2
    <3>2. /\ r2 \in Seq(Entries)
          /\ Len(r2) = IF p + 1 <= Len(q) THEN Len(q) - (p + 1) + 1 ELSE 0
          /\ \A k \in 1 .. Len(q) - (p + 1) + 1 : r2[k] = q[p + 1 + k - 1]
      BY <2>1, <2>2, <2>22, <3>1, SubSeqProperties
    <3>3. Len(r2) = Len(q) - p /\ Len(q) - (p + 1) + 1 = Len(q) - p
      BY <2>1, <2>2, <3>2
    <3>4. \A k \in 1 .. Len(q) - p : p + 1 + k - 1 = p + k
      BY <2>1, <2>2
    <3> QED
      BY <3>2, <3>3, <3>4
  <2>6. /\ r \in Seq(Entries) /\ Len(r) = Len(q) - 1
        /\ \A k \in 1 .. Len(r) : r[k] = IF k < p THEN q[k] ELSE q[k + 1]
    <3>1. /\ r \in Seq(Entries) /\ Len(r) = Len(r1) + Len(r2)
          /\ \A k \in 1 .. Len(r1) + Len(r2) :
                r[k] = IF k <= Len(r1) THEN r1[k] ELSE r2[k - Len(r1)]
      BY <2>4, <2>5, <2>23, ConcatProperties
    <3>2. Len(r) = Len(q) - 1
      BY <2>1, <2>2, <2>4, <2>5, <3>1
    <3>3. ASSUME NEW k \in 1 .. Len(r) PROVE r[k] = IF k < p THEN q[k] ELSE q[k + 1]
      <4>1. CASE k < p
        BY <2>1, <2>2, <2>4, <2>5, <3>1, <3>2, <4>1
      <4>2. CASE ~(k < p)
        <5>1. r[k] = r2[k - (p - 1)]
          BY <2>1, <2>2, <2>4, <2>5, <3>1, <3>2, <4>2
        <5>2. k - (p - 1) \in 1 .. Len(q) - p /\ p + (k - (p - 1)) = k + 1
          BY <2>1, <2>2, <3>2, <4>2
        <5> QED
          BY <2>5, <4>2, <5>1, <5>2
      <4> QED
        BY <4>1, <4>2
    <3> QED
      BY <3>1, <3>2, <3>3
  <2> DEFINE f == [k \in 1 .. Len(r) |-> IF k < p THEN k ELSE k + 1]
  <2>7. f \in [1 .. Len(r) -> 1 .. Len(q)]
    BY <2>1, <2>2, <2>6
  <2>8. \A k, l \in 1 .. Len(r) : f[k] = f[l] => k = l
    BY <2>1, <2>2, <2>6
  <2>9. \A k \in 1 .. Len(r) : r[k] = q[f[k]] /\ f[k] # p
    BY <2>1, <2>2, <2>6
  <2>10. \A j \in 1 .. Len(q) : j # p => \E k \in 1 .. Len(r) : r[k] = q[j]
    <3> SUFFICES ASSUME NEW j \in 1 .. Len(q), j # p
                 PROVE  \E k \in 1 .. Len(r) : r[k] = q[j]
      OBVIOUS
    <3>1. CASE j < p
      BY <2>1, <2>2, <2>6, <3>1
    <3>2. CASE j > p
      <4>1. j - 1 \in 1 .. Len(r) /\ ~(j - 1 < p) /\ (j - 1) + 1 = j
        BY <2>1, <2>2, <2>6, <3>2
      <4> QED
        BY <2>6, <4>1
    <3> QED
      BY <2>1, <2>2, <3>1, <3>2
  <2> HIDE DEF f
  <2>11. Distinct(r)
    BY <2>6, <2>7, <2>8, <2>9, DistinctPart
  <2>12. Waiting(r) = Waiting(q) \ {s}
    <3>1. \A k \in 1 .. Len(r) : r[k].s \in Waiting(q) \ {s}
      BY <2>1, <2>7, <2>9 DEF Waiting
    <3>2. \A j \in 1 .. Len(q) : q[j].s # s => \E k \in 1 .. Len(r) : r[k].s = q[j].s
      BY <2>1, <2>10
    <3> QED
      BY <3>1, <3>2 DEF Waiting
  <2> QED
    BY <2>3, <2>6, <2>11, <2>12
<1> QED
  BY <1>1, <1>2

(* Letting the first one in takes it out of the queue.                     *)
LEMMA TailOne ==
  ASSUME NEW q \in Seq(Entries), Distinct(q), q # <<>>
  PROVE  /\ Tail(q) \in Seq(Entries) /\ Distinct(Tail(q))
         /\ Head(q).s \in Waiting(q)
         /\ Waiting(Tail(q)) = Waiting(q) \ {Head(q).s}
<1>1. /\ Tail(q) \in Seq(Entries) /\ Len(Tail(q)) = Len(q) - 1
      /\ \A k \in 1 .. Len(Tail(q)) : Tail(q)[k] = q[k + 1]
  BY HeadTailProperties
<1>2. Len(q) \in Nat /\ Len(q) # 0 /\ Head(q) = q[1]
  BY EmptySeq
<1>7. PICK r : r = Tail(q)
  OBVIOUS
<1>3. \A k \in 1 .. Len(r) : r[k] = q[k + 1] /\ k + 1 \in 1 .. Len(q) /\ k + 1 # 1
  BY <1>1, <1>2, <1>7
<1>4. Distinct(r)
  <2> SUFFICES ASSUME NEW k \in 1 .. Len(r), NEW l \in 1 .. Len(r), r[k].s = r[l].s
               PROVE  k = l
    BY DEF Distinct
  <2>1. k + 1 = l + 1
    BY <1>3 DEF Distinct
  <2> QED
    BY <1>1, <1>2, <1>7, <2>1
<1>5. Waiting(r) = Waiting(q) \ {q[1].s}
  <2>1. \A k \in 1 .. Len(r) : r[k].s \in Waiting(q) /\ r[k].s # q[1].s
    <3> TAKE k \in 1 .. Len(r)
    <3>1. 1 \in 1 .. Len(q)
      BY <1>2
    <3> QED
      BY <1>3, <3>1 DEF Waiting, Distinct
  <2>2. ASSUME NEW j \in 1 .. Len(q), q[j].s # q[1].s
        PROVE  \E k \in 1 .. Len(r) : r[k].s = q[j].s
    <3>1. j # 1
      BY <2>2
    <3>2. j - 1 \in 1 .. Len(r) /\ (j - 1) + 1 = j
      BY <1>1, <1>2, <1>7, <3>1
    <3> QED
      BY <1>3, <3>2
  <2> QED
    BY <2>1, <2>2 DEF Waiting
<1>6. q[1].s \in Waiting(q)
  BY <1>2 DEF Waiting
<1> QED
  BY <1>1, <1>2, <1>4, <1>5, <1>6, <1>7

(* Inserting puts the session somewhere in the queue.                      *)
LEMMA InsertOne ==
  ASSUME NEW q \in Seq(Entries), Distinct(q), NEW e \in Entries,
         e.s \notin Waiting(q)
  PROVE  /\ Inserted(q, e) \in Seq(Entries) /\ Distinct(Inserted(q, e))
         /\ Waiting(Inserted(q, e)) = Waiting(q) \cup {e.s}
<1>1. Len(q) \in Nat /\ \A k \in 1 .. Len(q) : q[k] \in Entries
  BY ElementOfSeq
<1>2. ASSUME NEW r \in Seq(Entries), Len(r) = Len(q) + 1, NEW p \in 1 .. Len(q) + 1,
             \A k \in 1 .. Len(r) :
                r[k] = IF k < p THEN q[k] ELSE IF k = p THEN e ELSE q[k - 1]
      PROVE  Distinct(r) /\ Waiting(r) = Waiting(q) \cup {e.s}
  <2>1. \A k \in 1 .. Len(r) : k # p =>
           \E j \in 1 .. Len(q) : r[k] = q[j] /\ j = IF k < p THEN k ELSE k - 1
    <3> SUFFICES ASSUME NEW k \in 1 .. Len(r), k # p
                 PROVE  \E j \in 1 .. Len(q) :
                            r[k] = q[j] /\ j = IF k < p THEN k ELSE k - 1
      OBVIOUS
    <3>1. CASE k < p
      BY <1>1, <1>2, <3>1
    <3>2. CASE ~(k < p)
      <4>1. k - 1 \in 1 .. Len(q) /\ r[k] = q[k - 1]
        BY <1>1, <1>2, <3>2
      <4> QED
        BY <3>2, <4>1
    <3> QED
      BY <3>1, <3>2
  <2>2. p \in 1 .. Len(r) /\ r[p] = e
    BY <1>1, <1>2
  <2>3. \A k \in 1 .. Len(r) : k # p => r[k].s \in Waiting(q)
    BY <2>1 DEF Waiting
  <2>4. Distinct(r)
    <3> SUFFICES ASSUME NEW k \in 1 .. Len(r), NEW l \in 1 .. Len(r), r[k].s = r[l].s
                 PROVE  k = l
      BY DEF Distinct
    <3>1. CASE k = p \/ l = p
      BY <2>2, <2>3, <3>1
    <3>2. CASE k # p /\ l # p
      <4>1. PICK i \in 1 .. Len(q) : r[k] = q[i] /\ i = IF k < p THEN k ELSE k - 1
        BY <2>1, <3>2
      <4>2. PICK j \in 1 .. Len(q) : r[l] = q[j] /\ j = IF l < p THEN l ELSE l - 1
        BY <2>1, <3>2
      <4>3. i = j
        BY <4>1, <4>2 DEF Distinct
      <4> QED
        BY <1>1, <1>2, <3>2, <4>1, <4>2, <4>3
    <3> QED
      BY <3>1, <3>2
  <2>5. ASSUME NEW j \in 1 .. Len(q) PROVE \E k \in 1 .. Len(r) : r[k] = q[j]
    <3>1. CASE j < p
      <4>1. j \in 1 .. Len(r) /\ r[j] = q[j]
        BY <1>1, <1>2, <3>1
      <4> QED
        BY <4>1
    <3>2. CASE ~(j < p)
      <4>1. j + 1 \in 1 .. Len(r) /\ ~(j + 1 < p) /\ j + 1 # p /\ (j + 1) - 1 = j
        BY <1>1, <1>2, <3>2
      <4>2. r[j + 1] = q[j]
        BY <1>2, <4>1
      <4> QED
        BY <4>1, <4>2
    <3> QED
      BY <3>1, <3>2
  <2>6. \A t \in Waiting(q) \cup {e.s} : \E k \in 1 .. Len(r) : r[k].s = t
    BY <2>2, <2>5 DEF Waiting
  <2>7. \A k \in 1 .. Len(r) : r[k].s \in Waiting(q) \cup {e.s}
    BY <2>2, <2>3
  <2>8. Waiting(r) = Waiting(q) \cup {e.s}
    BY <2>6, <2>7 DEF Waiting
  <2> QED
    BY <2>4, <2>8
<1>3. CASE ~priorityQueue
  <2>1. PICK r : r = Append(q, e)
    OBVIOUS
  <2>2. /\ r \in Seq(Entries) /\ Len(r) = Len(q) + 1 /\ r[Len(q) + 1] = e
        /\ \A k \in 1 .. Len(q) : r[k] = q[k]
    BY <2>1, AppendProperties
  <2>3. \A k \in 1 .. Len(r) : r[k] = IF k < Len(q) + 1 THEN q[k]
                                      ELSE IF k = Len(q) + 1 THEN e ELSE q[k - 1]
    BY <1>1, <2>2
  <2>4. Len(q) + 1 \in 1 .. Len(q) + 1
    BY <1>1
  <2>5. Distinct(r) /\ Waiting(r) = Waiting(q) \cup {e.s}
    BY <1>2, <2>2, <2>3, <2>4
  <2> QED
    BY <1>3, <2>1, <2>2, <2>5 DEF Inserted
<1>4. CASE priorityQueue
  <2>1. PICK n : n = Cardinality({k \in 1 .. Len(q) :
                                    \A j \in 1 .. k : q[j].prio >= e.prio})
    OBVIOUS
  <2>2. n \in 0 .. Len(q)
    <3>1. IsFiniteSet(1 .. Len(q)) /\ Cardinality(1 .. Len(q)) = Len(q)
      BY <1>1, FS_Interval, SMTT(30)
    <3>2. {k \in 1 .. Len(q) : \A j \in 1 .. k : q[j].prio >= e.prio}
              \in SUBSET (1 .. Len(q))
      OBVIOUS
    <3>3. n \in Nat /\ n <= Len(q)
      BY <2>1, <3>1, <3>2, FS_Subset, FS_CardinalityType
    <3> QED
      BY <1>1, <3>3
  <2>3. PICK r1 : r1 = SubSeq(q, 1, n)
    OBVIOUS
  <2>4. PICK r2 : r2 = SubSeq(q, n + 1, Len(q))
    OBVIOUS
  <2>5. PICK r3 : r3 = r1 \o <<e>>
    OBVIOUS
  <2>6. PICK r : r = r3 \o r2
    OBVIOUS
  <2>7. r = Inserted(q, e)
    BY <1>4, <2>1, <2>3, <2>4, <2>5, <2>6 DEF Inserted
  <2>8. r1 \in Seq(Entries) /\ Len(r1) = n /\ \A k \in 1 .. n : r1[k] = q[k]
    <3>1. \A k \in 1 .. n : q[k] \in Entries
      BY <1>1, <2>2
    <3>2. /\ r1 \in Seq(Entries) /\ Len(r1) = IF 1 <= n THEN n - 1 + 1 ELSE 0
          /\ \A k \in 1 .. n - 1 + 1 : r1[k] = q[1 + k - 1]
      BY <1>1, <2>2, <2>3, <3>1, SubSeqProperties
    <3> QED
      BY <1>1, <2>2, <3>2
  <2>9. /\ r2 \in Seq(Entries) /\ Len(r2) = Len(q) - n
        /\ \A k \in 1 .. Len(q) - n : r2[k] = q[n + k]
    <3>1. \A k \in n + 1 .. Len(q) : q[k] \in Entries
      BY <1>1, <2>2
    <3>2. /\ r2 \in Seq(Entries)
          /\ Len(r2) = IF n + 1 <= Len(q) THEN Len(q) - (n + 1) + 1 ELSE 0
          /\ \A k \in 1 .. Len(q) - (n + 1) + 1 : r2[k] = q[n + 1 + k - 1]
      BY <1>1, <2>2, <2>4, <3>1, SubSeqProperties
    <3>3. Len(r2) = Len(q) - n /\ Len(q) - (n + 1) + 1 = Len(q) - n
      BY <1>1, <2>2, <3>2
    <3>4. \A k \in 1 .. Len(q) - n : n + 1 + k - 1 = n + k
      BY <1>1, <2>2
    <3> QED
      BY <3>2, <3>3, <3>4
  <2>10. /\ r3 \in Seq(Entries) /\ Len(r3) = n + 1 /\ r3[n + 1] = e
         /\ \A k \in 1 .. n : r3[k] = q[k]
    <3>1. r3 = Append(r1, e)
      BY <2>5, <2>8, AppendIsConcat
    <3> QED
      BY <2>8, <3>1, AppendProperties
  <2>11. /\ r \in Seq(Entries) /\ Len(r) = Len(r3) + Len(r2)
         /\ \A k \in 1 .. Len(r3) + Len(r2) :
               r[k] = IF k <= Len(r3) THEN r3[k] ELSE r2[k - Len(r3)]
    BY <2>6, <2>9, <2>10, ConcatProperties
  <2>12. Len(r) = Len(q) + 1
    BY <1>1, <2>2, <2>9, <2>10, <2>11
  <2>13. ASSUME NEW k \in 1 .. Len(r)
         PROVE  r[k] = IF k < n + 1 THEN q[k] ELSE IF k = n + 1 THEN e ELSE q[k - 1]
    <3>1. CASE k <= n + 1
      <4>1. r[k] = r3[k]
        BY <1>1, <2>2, <2>9, <2>10, <2>11, <2>12, <3>1
      <4> QED
        BY <1>1, <2>2, <2>10, <3>1, <4>1
    <3>2. CASE k > n + 1
      <4>1. r[k] = r2[k - (n + 1)]
        BY <1>1, <2>2, <2>9, <2>10, <2>11, <2>12, <3>2
      <4>2. k - (n + 1) \in 1 .. Len(q) - n /\ n + (k - (n + 1)) = k - 1
        BY <1>1, <2>2, <2>12, <3>2
      <4>3. r[k] = q[k - 1]
        BY <2>9, <4>1, <4>2
      <4> QED
        BY <1>1, <2>2, <3>2, <4>3
    <3> QED
      BY <1>1, <2>2, <2>12, <3>1, <3>2
  <2>14. n + 1 \in 1 .. Len(q) + 1
    BY <1>1, <2>2
  <2>15. Distinct(r) /\ Waiting(r) = Waiting(q) \cup {e.s}
    BY <1>2, <2>11, <2>12, <2>13, <2>14
  <2> QED
    BY <2>7, <2>11, <2>15
<1> QED
  BY <1>3, <1>4

(* A round of logins takes the first n out of the queue.                   *)
LEMMA DropSome ==
  ASSUME NEW q \in Seq(Entries), Distinct(q), NEW n \in 0 .. Len(q),
         NEW r, r = [k \in 1 .. Len(q) - n |->
                       [q[k + n] EXCEPT !.prio = Lesser(@ + 1, MaxBase)]]
  PROVE  /\ r \in Seq(Entries) /\ Distinct(r)
         /\ {q[k].s : k \in 1 .. n} \in SUBSET Waiting(q)
         /\ Waiting(r) = Waiting(q) \ {q[k].s : k \in 1 .. n}
         /\ Len(r) = Len(q) - n
<1>1. Len(q) \in Nat /\ \A k \in 1 .. Len(q) : q[k] \in Entries
  BY ElementOfSeq
<1>2. ASSUME NEW e \in Entries
      PROVE  /\ [e EXCEPT !.prio = Lesser(@ + 1, MaxBase)] \in Entries
             /\ [e EXCEPT !.prio = Lesser(@ + 1, MaxBase)].s = e.s
  <2>1. PICK p \in 0 .. MaxBase, s \in Slots : e = [prio |-> p, s |-> s]
    BY DEF Entries
  <2>2. [e EXCEPT !.prio = Lesser(@ + 1, MaxBase)]
            = [prio |-> Lesser(p + 1, MaxBase), s |-> s]
    BY <2>1
  <2>3. Lesser(p + 1, MaxBase) \in 0 .. MaxBase
    BY LoginAssumption DEF Lesser
  <2> QED
    BY <2>1, <2>2, <2>3 DEF Entries
<1>3. \A k \in 1 .. Len(q) - n : k + n \in 1 .. Len(q)
  BY <1>1
<1>4. \A k \in 1 .. Len(q) - n : r[k] \in Entries /\ r[k].s = q[k + n].s
  BY <1>1, <1>2, <1>3
<1>5. Len(q) - n \in Nat
  BY <1>1
<1>6. r \in [1 .. Len(q) - n -> Entries]
  BY <1>4
<1>7. r \in Seq(Entries) /\ Len(r) = Len(q) - n
  <2>1. r \in Seq(Entries)
    BY <1>5, <1>6, SeqDef, ZenonT(40)
  <2> QED
    BY <1>5, <1>6, <2>1, LenProperties
<1>8. Distinct(r)
  <2> SUFFICES ASSUME NEW k \in 1 .. Len(r), NEW l \in 1 .. Len(r), r[k].s = r[l].s
               PROVE  k = l
    BY DEF Distinct
  <2>1. k + n = l + n
    BY <1>3, <1>4, <1>7 DEF Distinct
  <2> QED
    BY <1>1, <1>7, <2>1
<1>9. {q[k].s : k \in 1 .. n} \in SUBSET Waiting(q)
  <2>1. \A k \in 1 .. n : k \in 1 .. Len(q)
    BY <1>1
  <2> QED
    BY <2>1 DEF Waiting
<1>10. Waiting(r) = Waiting(q) \ {q[k].s : k \in 1 .. n}
  <2>1. ASSUME NEW k \in 1 .. Len(r)
        PROVE  r[k].s \in Waiting(q) /\ r[k].s \notin {q[j].s : j \in 1 .. n}
    <3>1. k + n \in 1 .. Len(q) /\ r[k].s = q[k + n].s
      BY <1>3, <1>4, <1>7
    <3>2. ASSUME NEW j \in 1 .. n, q[j].s = q[k + n].s PROVE FALSE
      <4>1. j \in 1 .. Len(q) /\ j # k + n
        BY <1>1, <1>7
      <4> QED
        BY <3>1, <3>2, <4>1 DEF Distinct
    <3> QED
      BY <3>1, <3>2 DEF Waiting
  <2>2. ASSUME NEW j \in 1 .. Len(q), q[j].s \notin {q[k].s : k \in 1 .. n}
        PROVE  \E k \in 1 .. Len(r) : r[k].s = q[j].s
    <3>1. j > n
      BY <1>1, <2>2
    <3>2. j - n \in 1 .. Len(r) /\ (j - n) + n = j
      BY <1>1, <1>7, <3>1
    <3> QED
      BY <1>4, <1>7, <3>2
  <2>3. \A t \in Waiting(r) : t \in Waiting(q) /\ t \notin {q[j].s : j \in 1 .. n}
    <3> TAKE t \in Waiting(r)
    <3>1. PICK k \in 1 .. Len(r) : t = r[k].s
      BY DEF Waiting
    <3> QED
      BY <2>1, <3>1
  <2>4. \A t \in Waiting(q) : t \notin {q[j].s : j \in 1 .. n} => t \in Waiting(r)
    <3> TAKE t \in Waiting(q)
    <3>1. PICK j \in 1 .. Len(q) : t = q[j].s
      BY DEF Waiting
    <3> HAVE t \notin {q[k].s : k \in 1 .. n}
    <3>2. PICK k \in 1 .. Len(r) : r[k].s = q[j].s
      BY <2>2, <3>1
    <3> QED
      BY <3>1, <3>2 DEF Waiting
  <2> QED
    BY <2>3, <2>4
<1> QED
  BY <1>7, <1>8, <1>9, <1>10

-----------------------------------------------------------------------------
(* What the steps of a session's life do to the tables.                    *)

(* Populations are finite, and the two regions have no session in common.  *)
LEMMA PopulationFinite ==
  ASSUME NEW ss, NEW i
  PROVE  /\ Population(ss, i) \in SUBSET Slots /\ IsFiniteSet(Population(ss, i))
         /\ Cardinality(Population(ss, i)) \in Nat
<1>1. Population(ss, i) \in SUBSET Slots
  BY DEF Population
<1>2. IsFiniteSet(Population(ss, i))
  BY <1>1, FS_Subset, LoginAssumption
<1> QED
  BY <1>1, <1>2, FS_CardinalityType

(* Changes of a session that the tables do not depend on.                  *)
LEMMA FlagsKeep ==
  ASSUME NEW pq, NEW n, NEW m, NEW d, NEW ss, NEW q, NEW l,
         Sound(pq, n, m, d, ss, q, l),
         NEW ss2 \in [Slots -> Sessions \cup {NoSession}],
         \A s \in Slots : ss[s] = NoSession => ss2[s] = NoSession,
         \A s \in Slots : ss[s] # NoSession => Same(ss[s], ss2[s])
  PROVE  Sound(pq, n, m, d, ss2, q, l) /\ Entered(m, ss2) = Entered(m, ss)
<1> USE DEF Sound
<1>1. TablesOK(n, m, d, ss2, q)
  BY DEF TablesOK
<1>2. PlayInv(ss2)
  BY DEF PlayInv, Same
<1>3. /\ \A k \in 1 .. Len(n) : n[k] \in Slots
      /\ \A a \in Listed(m) : a \in Accounts /\ m[a] \in Slots
  BY ElementOfSeq DEF TablesOK, Listed
<1>4. OwnInv(n, m, d, ss2)
  <2>1. \A k \in 1 .. Len(n) : ss2[n[k]] # NoSession
                              /\ ~ss2[n[k]].inQueue /\ ~ss2[n[k]].passed
    BY <1>3 DEF OwnInv, Same
  <2>2. \A a \in Listed(m) : ss2[m[a]] # NoSession /\ ss2[m[a]].acct = a
                            /\ (ss2[m[a]].inQueue \/ ss2[m[a]].passed)
                            /\ m[a] \notin d
    BY <1>3 DEF OwnInv, Same
  <2>3. \A s \in d : ss2[s] # NoSession /\ ss2[s].passed
    BY DEF OwnInv, Same, TablesOK
  <2>4. \A s \in Slots : ss2[s] # NoSession =>
          \/ \E k \in 1 .. Len(n) : n[k] = s
          \/ m[ss2[s].acct] = s
          \/ s \in d
    BY DEF OwnInv, Same
  <2> QED
    BY <2>1, <2>2, <2>3, <2>4 DEF OwnInv
<1>5. WaitInv(pq, m, ss2, q)
  <2>1. \A i \in Region : Waiting(q[i]) \in SUBSET Slots
    BY WaitingCount DEF TablesOK
  <2>2. \A i \in Region : \A s \in Waiting(q[i]) :
          /\ ss2[s] # NoSession /\ ss2[s].inQueue
          /\ m[ss2[s].acct] = s /\ Home(pq, ss2[s].acct) = i
    BY <2>1 DEF WaitInv, Same
  <2>3. \A a \in Listed(m) : ss2[m[a]].inQueue => m[a] \in Waiting(q[Home(pq, a)])
    BY <1>3 DEF WaitInv, OwnInv, Same
  <2> QED
    BY <2>2, <2>3 DEF WaitInv
<1>6. CountInv(ss2, l)
  <2>1. \A i \in Region : Population(ss2, i) = Population(ss, i)
    BY DEF Population, Same
  <2> QED
    BY <2>1 DEF CountInv
<1>7. Entered(m, ss2) = Entered(m, ss)
  BY <1>3 DEF Entered, OwnInv, Same
<1> QED
  BY <1>1, <1>2, <1>4, <1>5, <1>6, <1>7

(* OnPassedQueue changes the sessions it is called for, and only whether   *)
(* they wait or have passed.                                               *)
LEMMA PassedFlags ==
  ASSUME NEW ss \in [Slots -> Sessions \cup {NoSession}],
         NEW G \in SUBSET Slots, \A s \in G : ss[s] # NoSession,
         NEW ss2, ss2 = OnPassedQueue(ss, G)
  PROVE  /\ ss2 \in [Slots -> Sessions \cup {NoSession}]
         /\ \A s \in Slots : ss[s] = NoSession => ss2[s] = NoSession
         /\ \A s \in Slots : s \notin G => ss2[s] = ss[s]
         /\ \A s \in G : /\ ss2[s] # NoSession /\ ss2[s].acct = ss[s].acct
                         /\ ~ss2[s].inQueue /\ ss2[s].passed
                         /\ (ss2[s].skipped <=> ss[s].skipped)
                         /\ (ss2[s].hadQueue <=> ss[s].hadQueue)
                         /\ (ss2[s].loading <=> ss[s].loading)
                         /\ (ss2[s].inWorld <=> ss[s].inWorld)
<1>1. ASSUME NEW s \in G
      PROVE  /\ ss2[s] \in Sessions /\ ss2[s].acct = ss[s].acct
             /\ ~ss2[s].inQueue /\ ss2[s].passed
             /\ ss2[s].skipped = ss[s].skipped
             /\ ss2[s].hadQueue = ss[s].hadQueue
             /\ ss2[s].loading = ss[s].loading
             /\ ss2[s].inWorld = ss[s].inWorld
  <2>1. ss[s] \in Sessions
    BY <1>1
  <2>2. ss2[s] = [ss[s] EXCEPT !.inQueue = FALSE, !.passed = TRUE]
    BY <1>1 DEF OnPassedQueue
  <2> QED
    BY <2>1, <2>2 DEF Sessions
<1>2. \A s \in Slots : s \notin G => ss2[s] = ss[s]
  BY DEF OnPassedQueue
<1>3. ss2 \in [Slots -> Sessions \cup {NoSession}]
  <2>1. \A s \in Slots : ss2[s] \in Sessions \cup {NoSession}
    BY <1>1, <1>2
  <2>2. ss2 = [s \in Slots |-> ss2[s]]
    BY DEF OnPassedQueue
  <2> QED
    BY <2>1, <2>2
<1>4. NoSession \notin Sessions
  BY LoginAssumption
<1> QED
  BY <1>1, <1>2, <1>3, <1>4

(* Sessions that are let in leave the queue and are counted.               *)
LEMMA Admit ==
  ASSUME NEW pq, NEW n, NEW m, NEW d, NEW ss, NEW q, NEW l,
         Sound(pq, n, m, d, ss, q, l),
         NEW i \in Region, NEW G \in SUBSET Waiting(q[i]),
         NEW r, LeftQueues(q, r, G),
         NEW ss2, ss2 = OnPassedQueue(ss, G),
         NEW l2, l2 = CountUp(l, ss, G)
  PROVE  /\ Sound(pq, n, m, d, ss2, r, l2)
         /\ \A k \in Region : l2[k] >= l[k]
<1> USE DEF Sound
<1>1. G \in SUBSET Slots /\ Waiting(q[i]) \in SUBSET Slots
  BY WaitingCount DEF TablesOK
<1>2. \A s \in G : /\ ss[s] # NoSession /\ ss[s].inQueue /\ ~ss[s].passed
                   /\ ~ss[s].loading /\ ~ss[s].inWorld
                   /\ m[ss[s].acct] = s /\ ss[s].acct \in Accounts
  <2> TAKE s \in G
  <2>1. ss[s] # NoSession /\ ss[s].inQueue /\ m[ss[s].acct] = s
    BY DEF WaitInv
  <2>2. ss[s] \in Sessions
    BY <1>1, <2>1 DEF TablesOK
  <2>3. ss[s].acct \in Accounts
    BY <2>2 DEF Sessions
  <2> QED
    BY <1>1, <2>1, <2>3 DEF PlayInv
<1>3. /\ ss2 \in [Slots -> Sessions \cup {NoSession}]
      /\ \A s \in Slots : ss[s] = NoSession => ss2[s] = NoSession
      /\ \A s \in Slots : s \notin G => ss2[s] = ss[s]
      /\ \A s \in G : /\ ss2[s] # NoSession /\ ss2[s].acct = ss[s].acct
                      /\ ~ss2[s].inQueue /\ ss2[s].passed
                      /\ (ss2[s].skipped <=> ss[s].skipped)
                      /\ (ss2[s].loading <=> ss[s].loading)
                      /\ (ss2[s].inWorld <=> ss[s].inWorld)
  <2>1. ss \in [Slots -> Sessions \cup {NoSession}]
    BY DEF TablesOK
  <2> QED
    BY <1>1, <1>2, <2>1, PassedFlags
<1>4. TablesOK(n, m, d, ss2, r)
  BY <1>3 DEF TablesOK, LeftQueues
<1>5. PlayInv(ss2)
  BY <1>1, <1>2, <1>3 DEF PlayInv
<1>6. /\ \A k \in 1 .. Len(n) : n[k] \in Slots
      /\ \A a \in Listed(m) : a \in Accounts /\ m[a] \in Slots
  BY ElementOfSeq DEF TablesOK, Listed
<1>7. OwnInv(n, m, d, ss2)
  <2>1. \A k \in 1 .. Len(n) : ss2[n[k]] # NoSession
                              /\ ~ss2[n[k]].inQueue /\ ~ss2[n[k]].passed
    <3>1. \A k \in 1 .. Len(n) : n[k] \notin G
      BY <1>2 DEF OwnInv
    <3> QED
      BY <1>3, <1>6, <3>1 DEF OwnInv
  <2>2. \A a \in Listed(m) : ss2[m[a]] # NoSession /\ ss2[m[a]].acct = a
                            /\ (ss2[m[a]].inQueue \/ ss2[m[a]].passed)
                            /\ m[a] \notin d
    BY <1>3, <1>6 DEF OwnInv
  <2>3. \A s \in d : ss2[s] # NoSession /\ ss2[s].passed
    BY <1>3 DEF OwnInv, TablesOK
  <2>4. \A s \in Slots : ss2[s] # NoSession =>
          \/ \E k \in 1 .. Len(n) : n[k] = s
          \/ m[ss2[s].acct] = s
          \/ s \in d
    BY <1>3 DEF OwnInv
  <2> QED
    BY <2>1, <2>2, <2>3, <2>4 DEF OwnInv
<1>8. WaitInv(pq, m, ss2, r)
  <2>1. \A j \in Region : Waiting(q[j]) \in SUBSET Slots
    BY WaitingCount DEF TablesOK
  <2>2. \A j \in Region : \A s \in Waiting(r[j]) :
          /\ ss2[s] # NoSession /\ ss2[s].inQueue
          /\ m[ss2[s].acct] = s /\ Home(pq, ss2[s].acct) = j
    BY <1>3, <2>1 DEF WaitInv, LeftQueues
  <2>3. \A a \in Listed(m) : ss2[m[a]].inQueue => m[a] \in Waiting(r[Home(pq, a)])
    <3> TAKE a \in Listed(m)
    <3> HAVE ss2[m[a]].inQueue
    <3>1. m[a] \notin G /\ ss[m[a]].inQueue
      BY <1>3, <1>6
    <3>2. Home(pq, a) \in Region
      BY DEF Home, GetQueueIndex, Region
    <3> QED
      BY <3>1, <3>2 DEF WaitInv, LeftQueues
  <2> QED
    BY <2>2, <2>3 DEF WaitInv, LeftQueues
<1>9. ASSUME NEW j \in Region
      PROVE  l2[j] \in Nat /\ l2[j] = Cardinality(Population(ss2, j)) /\ l2[j] >= l[j]
  <2> DEFINE H == {s \in G : GetQueueIndex(ss[s].acct) = j}
  <2>1. Population(ss2, j) = Population(ss, j) \cup H
    BY <1>1, <1>2, <1>3 DEF Population
  <2>2. Population(ss, j) \cap H = {}
    BY <1>2 DEF Population
  <2>3. H \in SUBSET Slots
    BY <1>1
  <2>4. l2[j] = l[j] + Cardinality(H)
    BY <1>9 DEF CountUp, PassedOf
  <2> HIDE DEF H
  <2>5. IsFiniteSet(H) /\ Cardinality(H) \in Nat
    BY <2>3, FS_Subset, FS_CardinalityType, LoginAssumption
  <2>6. IsFiniteSet(Population(ss, j)) /\ Cardinality(Population(ss, j)) \in Nat
    BY PopulationFinite
  <2>7. Cardinality(Population(ss2, j)) =
            Cardinality(Population(ss, j)) + Cardinality(H) - Cardinality({})
    BY <2>1, <2>2, <2>5, <2>6, FS_Union
  <2>8. l[j] = Cardinality(Population(ss, j))
    BY <1>9 DEF CountInv
  <2> QED
    BY <2>4, <2>5, <2>6, <2>7, <2>8, FS_EmptySet
<1>10. CountInv(ss2, l2)
  <2>1. l2 = [j \in Region |-> l2[j]]
    BY DEF CountUp
  <2>2. l2 \in [Region -> Nat]
    BY <1>9, <2>1
  <2> QED
    BY <1>9, <2>2 DEF CountInv
<1> QED
  BY <1>4, <1>5, <1>7, <1>8, <1>9, <1>10

(* A session leaves m_sessions: deleted, or kept with its character as a   *)
(* disconnected one.                                                       *)
LEMMA Depart ==
  ASSUME NEW pq, NEW n, NEW m, NEW d, NEW ss, NEW q, NEW l,
         Sound(pq, n, m, d, ss, q, l),
         NEW a, NEW m2, NEW d2, NEW ss2, NEW r, NEW l2,
         Departs(a, m, d, ss, q, l, m2, d2, ss2, r, l2)
  PROVE  /\ Sound(pq, n, m2, d2, ss2, r, l2)
         /\ Entered(m2, ss2) = Entered(m, ss) \ {a}
         /\ Listed(m2) = Listed(m) \ {a}
<1> PICK s : s = m[a]
  OBVIOUS
<1> PICK stays \in BOOLEAN :
       /\ stays => /\ ss[s].inWorld /\ Same(ss[s], ss2[s])
                   /\ d2 = d \cup {s} /\ l2 = l
       /\ ~stays => ss2[s] = NoSession /\ d2 = d /\ l2 = CountDown(l, ss, {s})
  BY DEF Departs
<1> /\ a \in Listed(m) /\ m2 = [m EXCEPT ![a] = NoSession]
    /\ LeftQueues(q, r, {s}) /\ ss2 \in [Slots -> Sessions \cup {NoSession}]
    /\ \A t \in Slots : t # s => ss2[t] = ss[t]
  BY DEF Departs
<1> USE DEF Sound
<1>1. /\ a \in Accounts /\ s \in Slots /\ s \notin d
      /\ ss[s] # NoSession /\ ss[s].acct = a
      /\ m \in [Accounts -> Slots \cup {NoSession}] /\ NoSession \notin Slots
  BY LoginAssumption DEF OwnInv, Listed, TablesOK
<1>2. /\ m2 \in [Accounts -> Slots \cup {NoSession}]
      /\ m2[a] = NoSession /\ \A b \in Accounts : b # a => m2[b] = m[b]
  BY <1>1
<1>3. Listed(m2) = Listed(m) \ {a}
  BY <1>1, <1>2 DEF Listed
<1>4. TablesOK(n, m2, d2, ss2, r)
  BY <1>1, <1>2 DEF TablesOK, LeftQueues
<1>5. PlayInv(ss2)
  BY <1>1 DEF PlayInv, Same
<1>6. /\ \A k \in 1 .. Len(n) : n[k] \in Slots
      /\ \A b \in Listed(m) : b \in Accounts /\ m[b] \in Slots
      /\ \A t \in d : t \in Slots
  BY ElementOfSeq DEF TablesOK, Listed
<1>7. \A b \in Listed(m2) : b \in Listed(m) /\ m2[b] = m[b] /\ m[b] # s
  <2> TAKE b \in Listed(m2)
  <2>1. b \in Listed(m) /\ b # a /\ b \in Accounts
    BY <1>3, <1>6
  <2>2. ss[m[b]].acct = b
    BY <2>1 DEF OwnInv
  <2> QED
    BY <1>1, <1>2, <2>1, <2>2
<1>8. \A k \in 1 .. Len(n) : n[k] # s
  BY <1>1 DEF OwnInv
<1>9. OwnInv(n, m2, d2, ss2)
  <2>1. \A k \in 1 .. Len(n) : ss2[n[k]] # NoSession
                              /\ ~ss2[n[k]].inQueue /\ ~ss2[n[k]].passed
    BY <1>6, <1>8 DEF OwnInv
  <2>2. \A b \in Listed(m2) : ss2[m2[b]] # NoSession /\ ss2[m2[b]].acct = b
                            /\ (ss2[m2[b]].inQueue \/ ss2[m2[b]].passed)
                            /\ m2[b] \notin d2
    <3> TAKE b \in Listed(m2)
    <3>1. m2[b] = m[b] /\ m[b] # s /\ b \in Listed(m) /\ ss2[m[b]] = ss[m[b]]
      BY <1>6, <1>7
    <3>2. ss[m[b]] # NoSession /\ ss[m[b]].acct = b
          /\ (ss[m[b]].inQueue \/ ss[m[b]].passed) /\ m[b] \notin d
      BY <3>1 DEF OwnInv
    <3>3. m[b] \notin d2
      BY <3>1, <3>2
    <3> QED
      BY <3>1, <3>2, <3>3
  <2>3. \A t \in d2 : ss2[t] # NoSession /\ ss2[t].passed
    BY <1>1, <1>6 DEF OwnInv, PlayInv, Same
  <2>4. \A t \in Slots : ss2[t] # NoSession =>
          \/ \E k \in 1 .. Len(n) : n[k] = t
          \/ m2[ss2[t].acct] = t
          \/ t \in d2
    <3> TAKE t \in Slots
    <3> HAVE ss2[t] # NoSession
    <3>1. CASE t = s
      BY <3>1
    <3>2. CASE t # s
      <4>1. ss2[t] = ss[t] /\ ss[t] \in Sessions
        BY <3>2 DEF TablesOK
      <4>2. ss[t].acct \in Accounts
        BY <4>1 DEF Sessions
      <4>3. m[ss[t].acct] = t => m2[ss[t].acct] = t
        BY <1>2, <3>2, <4>2
      <4> QED
        BY <4>1, <4>3 DEF OwnInv
    <3> QED
      BY <3>1, <3>2
  <2>5. \A k, j \in 1 .. Len(n) : n[k] = n[j] => k = j
    BY DEF OwnInv
  <2> QED
    BY <2>1, <2>2, <2>3, <2>4, <2>5 DEF OwnInv
<1>10. WaitInv(pq, m2, ss2, r)
  <2>1. \A j \in Region : Waiting(q[j]) \in SUBSET Slots
    BY WaitingCount DEF TablesOK
  <2>2. ASSUME NEW j \in Region, NEW t \in Waiting(r[j])
        PROVE  /\ ss2[t] # NoSession /\ ss2[t].inQueue
               /\ m2[ss2[t].acct] = t /\ Home(pq, ss2[t].acct) = j
    <3>1. t \in Waiting(q[j]) /\ t # s /\ t \in Slots
      BY <2>1, <2>2 DEF LeftQueues
    <3>2. /\ ss[t] # NoSession /\ ss[t].inQueue
          /\ m[ss[t].acct] = t /\ Home(pq, ss[t].acct) = j
      BY <3>1 DEF WaitInv
    <3>3. ss[t] \in Sessions
      BY <3>1, <3>2 DEF TablesOK
    <3>4. ss[t].acct \in Accounts
      BY <3>3 DEF Sessions
    <3> QED
      BY <1>2, <3>1, <3>2, <3>4
  <2>3. \A b \in Listed(m2) : ss2[m2[b]].inQueue => m2[b] \in Waiting(r[Home(pq, b)])
    <3> TAKE b \in Listed(m2)
    <3> HAVE ss2[m2[b]].inQueue
    <3>1. b \in Listed(m) /\ m2[b] = m[b] /\ m[b] # s /\ ss[m[b]].inQueue
      BY <1>6, <1>7
    <3>2. Home(pq, b) \in Region
      BY DEF Home, GetQueueIndex, Region
    <3> QED
      BY <3>1, <3>2 DEF WaitInv, LeftQueues
  <2> QED
    BY <2>2, <2>3 DEF WaitInv, LeftQueues
<1>11. CountInv(ss2, l2)
  <2>1. CASE stays
    <3>1. \A j \in Region : Population(ss2, j) = Population(ss, j)
      BY <1>1, <2>1 DEF Population, Same
    <3> QED
      BY <2>1, <3>1 DEF CountInv
  <2>2. CASE ~stays
    <3>1. ASSUME NEW j \in Region
          PROVE  l2[j] \in Nat /\ l2[j] = Cardinality(Population(ss2, j))
      <4> DEFINE H == {t \in {u \in {s} : ss[u].passed} : GetQueueIndex(ss[t].acct) = j}
      <4>1. l2[j] = l[j] - Cardinality(H)
        BY <2>2, <3>1 DEF CountDown, PassedOf
      <4>2. Population(ss2, j) = Population(ss, j) \ {s}
        BY <1>1, <2>2 DEF Population
      <4>3. s \in Population(ss, j) => H = {s}
        BY DEF Population
      <4>4. s \notin Population(ss, j) => H = {}
        BY <1>1 DEF Population
      <4> HIDE DEF H
      <4>5. IsFiniteSet(Population(ss, j)) /\ Cardinality(Population(ss, j)) \in Nat
        BY PopulationFinite
      <4>6. Cardinality(Population(ss2, j)) \in Nat
        BY PopulationFinite
      <4>7. Cardinality({s}) = 1 /\ Cardinality({}) = 0
        BY FS_Singleton, FS_EmptySet
      <4>8. l[j] = Cardinality(Population(ss, j))
        BY <3>1 DEF CountInv
      <4>9. Cardinality(Population(ss2, j)) =
               IF s \in Population(ss, j) THEN Cardinality(Population(ss, j)) - 1
               ELSE Cardinality(Population(ss, j))
        <5>1. IsFiniteSet(Population(ss, j))
          BY <4>5
        <5>2. \A S, x : IsFiniteSet(S) =>
                 Cardinality(S \ {x}) = IF x \in S THEN Cardinality(S) - 1
                                        ELSE Cardinality(S)
          BY FS_RemoveElement
        <5>3. Cardinality(Population(ss, j) \ {s}) =
                 IF s \in Population(ss, j) THEN Cardinality(Population(ss, j)) - 1
                 ELSE Cardinality(Population(ss, j))
          BY <5>1, <5>2, Zenon
        <5> QED
          BY <4>2, <5>3, Zenon
      <4>10. CASE s \in Population(ss, j)
        BY <4>1, <4>3, <4>6, <4>7, <4>8, <4>9, <4>10
      <4>11. CASE s \notin Population(ss, j)
        <5>1. l2[j] = l[j] - 0
          BY <4>1, <4>4, <4>7, <4>11
        <5> QED
          BY <4>5, <4>8, <4>9, <4>11, <5>1
      <4> QED
        BY <4>10, <4>11
    <3>2. l2 = [j \in Region |-> l2[j]]
      BY <2>2 DEF CountDown
    <3>3. l2 \in [Region -> Nat]
      BY <3>1, <3>2
    <3> QED
      BY <3>1, <3>3 DEF CountInv
  <2> QED
    BY <2>1, <2>2
<1>12. Entered(m2, ss2) = Entered(m, ss) \ {a}
  <2>1. \A b \in Listed(m2) : ss2[m2[b]] = ss[m[b]]
    BY <1>6, <1>7
  <2> QED
    BY <1>3, <2>1 DEF Entered
<1> QED
  BY <1>3, <1>4, <1>5, <1>9, <1>10, <1>11, <1>12

(* The first of addSessQueue leaves it.                                    *)
LEMMA FirstLeaves ==
  ASSUME NEW n \in Seq(Slots), n # <<>>,
         \A k, j \in 1 .. Len(n) : n[k] = n[j] => k = j
  PROVE  /\ Head(n) \in Slots /\ 1 \in 1 .. Len(n) /\ Head(n) = n[1]
         /\ Tail(n) \in Seq(Slots)
         /\ \A k \in 1 .. Len(Tail(n)) : /\ Tail(n)[k] \in Slots
                                         /\ Tail(n)[k] # Head(n)
                                         /\ \E j \in 1 .. Len(n) : Tail(n)[k] = n[j]
         /\ \A k, j \in 1 .. Len(Tail(n)) : Tail(n)[k] = Tail(n)[j] => k = j
         /\ \A j \in 1 .. Len(n) :
               n[j] = Head(n) \/ \E k \in 1 .. Len(Tail(n)) : Tail(n)[k] = n[j]
<1>1. /\ Tail(n) \in Seq(Slots) /\ Len(Tail(n)) = Len(n) - 1
      /\ \A k \in 1 .. Len(Tail(n)) : Tail(n)[k] = n[k + 1]
  BY HeadTailProperties
<1>2. Len(n) \in Nat /\ Len(n) # 0 /\ Head(n) = n[1]
  BY EmptySeq
<1>3. PICK r : r = Tail(n)
  OBVIOUS
<1>4. Len(r) = Len(n) - 1 /\ \A k \in 1 .. Len(r) : r[k] = n[k + 1] /\ k + 1 \in 1 .. Len(n)
  BY <1>1, <1>2, <1>3
<1>5. \A k \in 1 .. Len(n) : n[k] \in Slots
  BY ElementOfSeq
<1>6. 1 \in 1 .. Len(n)
  BY <1>2
<1>7. ASSUME NEW k \in 1 .. Len(r)
      PROVE r[k] \in Slots /\ r[k] # n[1] /\ \E j \in 1 .. Len(n) : r[k] = n[j]
  <2>1. k + 1 # 1
    BY <1>2, <1>4
  <2> QED
    BY <1>4, <1>5, <1>6, <2>1
<1>8. ASSUME NEW k \in 1 .. Len(r), NEW j \in 1 .. Len(r), r[k] = r[j] PROVE k = j
  <2>1. k + 1 = j + 1
    BY <1>4, <1>8
  <2> QED
    BY <1>2, <1>4, <2>1
<1>9. ASSUME NEW j \in 1 .. Len(n), n[j] # n[1]
      PROVE  \E k \in 1 .. Len(r) : r[k] = n[j]
  <2>1. j # 1
    BY <1>9
  <2>2. j - 1 \in 1 .. Len(r) /\ (j - 1) + 1 = j
    BY <1>2, <1>4, <2>1
  <2> QED
    BY <1>4, <2>2
<1> QED
  BY <1>1, <1>2, <1>3, <1>5, <1>6, <1>7, <1>8, <1>9

(* A new session enters m_sessions, to wait or to play.                    *)
LEMMA Join ==
  ASSUME NEW pq, NEW n, NEW m, NEW d, NEW ss, NEW q, NEW l,
         Sound(pq, n, m, d, ss, q, l), pq <=> priorityQueue,
         NEW s, NEW a, NEW m2, NEW ss2, NEW r, NEW l2,
         Joins(s, a, n, m, ss, q, l, m2, ss2, r, l2)
  PROVE  /\ Sound(pq, Tail(n), m2, d, ss2, r, l2)
         /\ Listed(m2) = Listed(m) \cup {a}
         /\ Entered(m2, ss2) \ {a} = Entered(m, ss)
         /\ ss2[s].inQueue \/ ss2[s].skipped => Entered(m2, ss2) = Entered(m, ss)
<1> PICK waits \in BOOLEAN :
       /\ (ss2[s].inQueue <=> waits) /\ (ss2[s].passed <=> ~waits)
       /\ waits => /\ l2 = l
                   /\ \A j \in Region :
                        Waiting(r[j]) = IF j = QueueOf(a) THEN Waiting(q[j]) \cup {s}
                                        ELSE Waiting(q[j])
       /\ ~waits => /\ l2 = [l EXCEPT ![GetQueueIndex(a)] = @ + 1]
                    /\ \A j \in Region : Waiting(r[j]) = Waiting(q[j])
  BY DEF Joins
<1> /\ n # <<>> /\ s = Head(n) /\ a = ss[s].acct
    /\ m[a] = NoSession /\ m2 = [m EXCEPT ![a] = s]
    /\ ss2 \in [Slots -> Sessions \cup {NoSession}]
    /\ \A t \in Slots : t # s => ss2[t] = ss[t]
    /\ ss2[s] # NoSession /\ ss2[s].acct = a
    /\ (ss2[s].loading <=> ss[s].loading) /\ (ss2[s].inWorld <=> ss[s].inWorld)
    /\ r \in [Region -> Seq(Entries)] /\ \A j \in Region : Distinct(r[j])
  BY DEF Joins
<1> QueueOf(a) = Home(pq, a)
  BY DEF QueueOf, Home
<1> USE DEF Sound
<1>20. PICK t : t = Tail(n)
  OBVIOUS
<1>1. /\ s \in Slots /\ 1 \in 1 .. Len(n) /\ s = n[1] /\ t \in Seq(Slots)
      /\ \A k \in 1 .. Len(t) : t[k] \in Slots /\ t[k] # s /\ \E j \in 1 .. Len(n) : t[k] = n[j]
      /\ \A k, j \in 1 .. Len(t) : t[k] = t[j] => k = j
      /\ \A j \in 1 .. Len(n) : n[j] = s \/ \E k \in 1 .. Len(t) : t[k] = n[j]
  <2>1. n \in Seq(Slots) /\ \A k, j \in 1 .. Len(n) : n[k] = n[j] => k = j
    BY DEF TablesOK, OwnInv
  <2> QED
    BY <1>20, <2>1, FirstLeaves
<1>2. ss[s] # NoSession /\ ~ss[s].inQueue /\ ~ss[s].passed
  BY <1>1 DEF OwnInv
<1>3. a \in Accounts
  <2>1. ss[s] \in Sessions
    BY <1>1, <1>2 DEF TablesOK
  <2> QED
    BY <2>1 DEF Sessions
<1>4. ~ss[s].loading /\ ~ss[s].inWorld
  BY <1>1, <1>2 DEF PlayInv
<1>5. NoSession \notin Slots /\ s # NoSession
  BY <1>1, LoginAssumption
<1>6. /\ m2 \in [Accounts -> Slots \cup {NoSession}] /\ m2[a] = s
      /\ \A b \in Accounts : b # a => m2[b] = m[b]
  BY <1>1, <1>3 DEF TablesOK
<1>7. Listed(m2) = Listed(m) \cup {a} /\ a \notin Listed(m)
  BY <1>3, <1>5, <1>6 DEF Listed
<1>8. \A b \in Listed(m) : b \in Accounts /\ m2[b] = m[b] /\ m[b] \in Slots /\ m[b] # s
  BY <1>2, <1>3, <1>6, <1>7 DEF Listed, OwnInv, TablesOK
<1>9. \A u \in d : u \in Slots /\ u # s
  BY <1>2 DEF OwnInv, TablesOK
<1>10. \A j \in Region : \A u \in Waiting(q[j]) : u \in Slots /\ u # s
  <2>1. \A j \in Region : Waiting(q[j]) \in SUBSET Slots
    BY WaitingCount DEF TablesOK
  <2> QED
    BY <1>2, <2>1 DEF WaitInv
<1>11. TablesOK(t, m2, d, ss2, r)
  BY <1>1, <1>6 DEF TablesOK
<1>12. PlayInv(ss2)
  BY <1>1, <1>4 DEF PlayInv
<1>13. OwnInv(t, m2, d, ss2)
  <2>1. \A k \in 1 .. Len(t) : ss2[t[k]] # NoSession
                              /\ ~ss2[t[k]].inQueue /\ ~ss2[t[k]].passed
    BY <1>1 DEF OwnInv
  <2>2. ASSUME NEW b \in Listed(m2)
        PROVE  ss2[m2[b]] # NoSession /\ ss2[m2[b]].acct = b
                            /\ (ss2[m2[b]].inQueue \/ ss2[m2[b]].passed)
                            /\ m2[b] \notin d
    <3>1. CASE b = a
      BY <1>6, <1>9, <3>1
    <3>2. CASE b # a
      <4>1. b \in Listed(m) /\ m2[b] = m[b] /\ ss2[m[b]] = ss[m[b]]
        BY <1>7, <1>8, <2>2, <3>2
      <4>2. ss[m[b]] # NoSession /\ ss[m[b]].acct = b
                            /\ (ss[m[b]].inQueue \/ ss[m[b]].passed)
                            /\ m[b] \notin d
        BY <4>1 DEF OwnInv
      <4> QED
        BY <4>1, <4>2
    <3> QED
      BY <3>1, <3>2
  <2>3. \A u \in d : ss2[u] # NoSession /\ ss2[u].passed
    BY <1>9 DEF OwnInv
  <2>4. ASSUME NEW u \in Slots, ss2[u] # NoSession
        PROVE \/ \E k \in 1 .. Len(t) : t[k] = u
              \/ m2[ss2[u].acct] = u
              \/ u \in d
    <3>1. CASE u = s
      BY <1>6, <3>1
    <3>2. CASE u # s
      <4>1. ss2[u] = ss[u] /\ ss[u] \in Sessions
        BY <2>4, <3>2 DEF TablesOK
      <4>2. ss[u].acct \in Accounts
        BY <4>1 DEF Sessions
      <4>3. m[ss[u].acct] = u => m2[ss[u].acct] = u
        BY <1>5, <1>6, <4>2
      <4>4. (\E k \in 1 .. Len(n) : n[k] = u) => \E k \in 1 .. Len(t) : t[k] = u
        BY <1>1, <3>2
      <4> QED
        BY <2>4, <4>1, <4>3, <4>4 DEF OwnInv
    <3> QED
      BY <3>1, <3>2
  <2> QED
    BY <1>1, <2>1, <2>2, <2>3, <2>4 DEF OwnInv
<1>14. WaitInv(pq, m2, ss2, r)
  <2>1. ASSUME NEW j \in Region, NEW u \in Waiting(r[j])
        PROVE  /\ ss2[u] # NoSession /\ ss2[u].inQueue
               /\ m2[ss2[u].acct] = u /\ Home(pq, ss2[u].acct) = j
    <3>1. CASE u \in Waiting(q[j])
      <4>1. ss2[u] = ss[u] /\ u \in Slots /\ u # s
        BY <1>10, <3>1
      <4>2. /\ ss[u] # NoSession /\ ss[u].inQueue
            /\ m[ss[u].acct] = u /\ Home(pq, ss[u].acct) = j
        BY <3>1 DEF WaitInv
      <4>3. ss[u] \in Sessions
        BY <4>1, <4>2 DEF TablesOK
      <4>4. ss[u].acct \in Accounts
        BY <4>3 DEF Sessions
      <4>5. m2[ss[u].acct] = u
        BY <1>5, <1>6, <4>1, <4>2, <4>4
      <4> QED
        BY <4>1, <4>2, <4>5
    <3>2. CASE u \notin Waiting(q[j])
      <4>1. waits /\ j = Home(pq, a) /\ u = s
        BY <2>1, <3>2
      <4> QED
        BY <1>6, <4>1
    <3> QED
      BY <3>1, <3>2
  <2>2. ASSUME NEW b \in Listed(m2), ss2[m2[b]].inQueue
        PROVE  m2[b] \in Waiting(r[Home(pq, b)])
    <3>1. Home(pq, b) \in Region
      BY DEF Home, GetQueueIndex, Region
    <3>2. CASE b = a
      BY <1>6, <2>2, <3>1, <3>2
    <3>3. CASE b # a
      <4>1. b \in Listed(m) /\ m2[b] = m[b] /\ ss[m[b]].inQueue
        BY <1>7, <1>8, <2>2, <3>3
      <4>2. m[b] \in Waiting(q[Home(pq, b)])
        BY <4>1 DEF WaitInv
      <4> QED
        BY <3>1, <4>1, <4>2
    <3> QED
      BY <3>2, <3>3
  <2> QED
    BY <2>1, <2>2 DEF WaitInv
<1>15. CountInv(ss2, l2)
  <2>1. CASE waits
    <3>1. \A j \in Region : Population(ss2, j) = Population(ss, j)
      <4> TAKE j \in Region
      <4>1. s \notin Population(ss2, j)
        BY <2>1 DEF Population
      <4>2. s \notin Population(ss, j)
        BY <1>2 DEF Population
      <4>3. \A u \in Slots : u # s => (u \in Population(ss2, j) <=> u \in Population(ss, j))
        BY DEF Population
      <4> QED
        BY <4>1, <4>2, <4>3 DEF Population
    <3> QED
      BY <2>1, <3>1 DEF CountInv
  <2>2. CASE ~waits
    <3>1. l \in [Region -> Nat] /\ \A j \in Region : l[j] = Cardinality(Population(ss, j))
      BY DEF CountInv
    <3>2. GetQueueIndex(a) \in Region
      BY DEF GetQueueIndex, Region
    <3>3. /\ l2 \in [Region -> Nat] /\ l2[GetQueueIndex(a)] = l[GetQueueIndex(a)] + 1
          /\ \A j \in Region : j # GetQueueIndex(a) => l2[j] = l[j]
      <4>1. l2 = [l EXCEPT ![GetQueueIndex(a)] = l[GetQueueIndex(a)] + 1]
        BY <2>2
      <4>2. l[GetQueueIndex(a)] + 1 \in Nat
        BY <3>1, <3>2
      <4> QED
        BY <3>1, <3>2, <4>1, <4>2
    <3>4. ASSUME NEW j \in Region PROVE l2[j] = Cardinality(Population(ss2, j))
      <4>1. CASE j = GetQueueIndex(a)
        <5>1. Population(ss2, j) = Population(ss, j) \cup {s}
          BY <1>1, <2>2, <4>1 DEF Population
        <5>2. s \notin Population(ss, j)
          BY <1>2 DEF Population
        <5>3. Cardinality(Population(ss2, j)) = Cardinality(Population(ss, j)) + 1
          <6>1. IsFiniteSet(Population(ss, j))
            BY PopulationFinite
          <6> QED
            BY <5>1, <5>2, <6>1, FS_AddElement
        <5> QED
          BY <3>1, <3>3, <4>1, <5>3
      <4>2. CASE j # GetQueueIndex(a)
        <5>1. Population(ss2, j) = Population(ss, j)
          <6>1. s \notin Population(ss2, j) /\ s \notin Population(ss, j)
            BY <1>2, <4>2 DEF Population
          <6>2. \A u \in Slots : u # s => (u \in Population(ss2, j) <=> u \in Population(ss, j))
            BY DEF Population
          <6> QED
            BY <6>1, <6>2 DEF Population
        <5> QED
          BY <3>1, <3>3, <4>2, <5>1
      <4> QED
        BY <4>1, <4>2
    <3> QED
      BY <3>3, <3>4 DEF CountInv
  <2> QED
    BY <2>1, <2>2
<1>16. Entered(m2, ss2) \ {a} = Entered(m, ss)
  <2>1. \A b \in Listed(m) : ss2[m2[b]] = ss[m[b]]
    BY <1>8
  <2> QED
    BY <1>7, <2>1 DEF Entered
<1>17. ss2[s].inQueue \/ ss2[s].skipped => Entered(m2, ss2) = Entered(m, ss)
  <2>1. ss2[s].inQueue \/ ss2[s].skipped => a \notin Entered(m2, ss2)
    BY <1>6 DEF Entered
  <2> QED
    BY <1>16, <2>1
<1> QED
  BY <1>7, <1>11, <1>12, <1>13, <1>14, <1>15, <1>16, <1>17, <1>20

(* A new session is deleted because the account's session is loading.      *)
LEMMA Refuse ==
  ASSUME NEW pq, NEW n, NEW m, NEW d, NEW ss, NEW q, NEW l,
         Sound(pq, n, m, d, ss, q, l), NEW ss2, Refused(n, ss, ss2)
  PROVE  /\ Sound(pq, Tail(n), m, d, ss2, q, l)
         /\ Entered(m, ss2) = Entered(m, ss)
<1> PICK s : n # <<>> /\ s = Head(n) /\ ss2 = [ss EXCEPT ![s] = NoSession]
  BY DEF Refused
<1> USE DEF Sound
<1>20. PICK t : t = Tail(n)
  OBVIOUS
<1>1. /\ s \in Slots /\ 1 \in 1 .. Len(n) /\ s = n[1] /\ t \in Seq(Slots)
      /\ \A k \in 1 .. Len(t) : t[k] \in Slots /\ t[k] # s /\ \E j \in 1 .. Len(n) : t[k] = n[j]
      /\ \A k, j \in 1 .. Len(t) : t[k] = t[j] => k = j
      /\ \A j \in 1 .. Len(n) : n[j] = s \/ \E k \in 1 .. Len(t) : t[k] = n[j]
  <2>1. n \in Seq(Slots) /\ \A k, j \in 1 .. Len(n) : n[k] = n[j] => k = j
    BY DEF TablesOK, OwnInv
  <2> QED
    BY <1>20, <2>1, FirstLeaves
<1>2. ss[s] # NoSession /\ ~ss[s].inQueue /\ ~ss[s].passed
  BY <1>1 DEF OwnInv
<1>3. /\ ss2 \in [Slots -> Sessions \cup {NoSession}] /\ ss2[s] = NoSession
      /\ \A u \in Slots : u # s => ss2[u] = ss[u]
  BY <1>1 DEF TablesOK
<1>4. \A b \in Listed(m) : b \in Accounts /\ m[b] \in Slots /\ m[b] # s
                           /\ ss2[m[b]] = ss[m[b]]
  BY <1>2, <1>3 DEF Listed, OwnInv, TablesOK
<1>5. TablesOK(t, m, d, ss2, q)
  BY <1>1, <1>3 DEF TablesOK
<1>6. PlayInv(ss2)
  BY <1>3 DEF PlayInv
<1>7. OwnInv(t, m, d, ss2)
  <2>1. \A k \in 1 .. Len(t) : ss2[t[k]] # NoSession
                              /\ ~ss2[t[k]].inQueue /\ ~ss2[t[k]].passed
    BY <1>1, <1>3 DEF OwnInv
  <2>2. \A b \in Listed(m) : ss2[m[b]] # NoSession /\ ss2[m[b]].acct = b
                            /\ (ss2[m[b]].inQueue \/ ss2[m[b]].passed)
                            /\ m[b] \notin d
    BY <1>4 DEF OwnInv
  <2>3. \A u \in d : ss2[u] # NoSession /\ ss2[u].passed
    BY <1>2, <1>3 DEF OwnInv, TablesOK
  <2>4. \A u \in Slots : ss2[u] # NoSession =>
              \/ \E k \in 1 .. Len(t) : t[k] = u
              \/ m[ss2[u].acct] = u
              \/ u \in d
    BY <1>1, <1>3 DEF OwnInv
  <2> QED
    BY <1>1, <2>1, <2>2, <2>3, <2>4 DEF OwnInv
<1>8. WaitInv(pq, m, ss2, q)
  <2>1. \A j \in Region : Waiting(q[j]) \in SUBSET Slots
    BY WaitingCount DEF TablesOK
  <2>2. \A j \in Region : \A u \in Waiting(q[j]) : ss2[u] = ss[u]
    BY <1>2, <1>3, <2>1 DEF WaitInv
  <2> QED
    BY <1>4, <2>2 DEF WaitInv
<1>9. CountInv(ss2, l)
  <2>1. \A j \in Region : Population(ss2, j) = Population(ss, j)
    BY <1>1, <1>2, <1>3 DEF Population
  <2> QED
    BY <2>1 DEF CountInv
<1>10. Entered(m, ss2) = Entered(m, ss)
  BY <1>4 DEF Entered
<1> QED
  BY <1>5, <1>6, <1>7, <1>8, <1>9, <1>10, <1>20

(* A network thread hands a new session over.                              *)
LEMMA Arrive ==
  ASSUME NEW pq, NEW n, NEW m, NEW d, NEW ss, NEW q, NEW l,
         Sound(pq, n, m, d, ss, q, l),
         NEW s, NEW v, NEW n2, NEW ss2, Arrives(s, v, n, ss, n2, ss2)
  PROVE  /\ Sound(pq, n2, m, d, ss2, q, l)
         /\ Entered(m, ss2) = Entered(m, ss)
<1> /\ s \in Slots /\ ss[s] = NoSession
    /\ v \in Sessions /\ ~v.inQueue /\ ~v.passed /\ ~v.loading /\ ~v.inWorld
    /\ ss2 = [ss EXCEPT ![s] = v]
  BY DEF Arrives
<1> USE DEF Sound
<1>20. PICK t : t = n2 /\ t = Append(n, s)
  BY DEF Arrives
<1>1. /\ t \in Seq(Slots) /\ Len(n) \in Nat /\ Len(t) = Len(n) + 1
      /\ t[Len(n) + 1] = s /\ \A k \in 1 .. Len(n) : t[k] = n[k] /\ n[k] \in Slots
  <2>1. n \in Seq(Slots)
    BY DEF TablesOK
  <2>2. /\ t \in Seq(Slots) /\ Len(t) = Len(n) + 1
        /\ t[Len(n) + 1] = s /\ \A k \in 1 .. Len(n) : t[k] = n[k]
    BY <1>20, <2>1, AppendProperties
  <2> QED
    BY <2>1, <2>2, ElementOfSeq
<1>2. \A k \in 1 .. Len(n) : n[k] # s
  BY DEF OwnInv
<1>3. \A k \in 1 .. Len(t) : k = Len(n) + 1 \/ k \in 1 .. Len(n)
  BY <1>1
<1>4. v # NoSession
  BY LoginAssumption
<1>5. /\ ss2 \in [Slots -> Sessions \cup {NoSession}] /\ ss2[s] = v
      /\ \A u \in Slots : u # s => ss2[u] = ss[u]
  BY DEF TablesOK
<1>6. \A b \in Listed(m) : b \in Accounts /\ m[b] \in Slots /\ m[b] # s
                           /\ ss2[m[b]] = ss[m[b]]
  BY <1>5 DEF Listed, OwnInv, TablesOK
<1>7. TablesOK(t, m, d, ss2, q)
  BY <1>1, <1>5 DEF TablesOK
<1>8. PlayInv(ss2)
  BY <1>5 DEF PlayInv
<1>9. OwnInv(t, m, d, ss2)
  <2>1. ASSUME NEW k \in 1 .. Len(t)
        PROVE  ss2[t[k]] # NoSession /\ ~ss2[t[k]].inQueue /\ ~ss2[t[k]].passed
    <3>1. CASE k = Len(n) + 1
      BY <1>1, <1>4, <1>5, <3>1
    <3>2. CASE k \in 1 .. Len(n)
      BY <1>1, <1>2, <1>5, <3>2 DEF OwnInv
    <3> QED
      BY <1>3, <3>1, <3>2
  <2>2. \A b \in Listed(m) : ss2[m[b]] # NoSession /\ ss2[m[b]].acct = b
                            /\ (ss2[m[b]].inQueue \/ ss2[m[b]].passed)
                            /\ m[b] \notin d
    BY <1>6 DEF OwnInv
  <2>3. \A u \in d : ss2[u] # NoSession /\ ss2[u].passed
    BY <1>5 DEF OwnInv, TablesOK
  <2>4. ASSUME NEW u \in Slots, ss2[u] # NoSession
        PROVE \/ \E k \in 1 .. Len(t) : t[k] = u
              \/ m[ss2[u].acct] = u
              \/ u \in d
    <3>1. CASE u = s
      <4>1. Len(n) + 1 \in 1 .. Len(t)
        BY <1>1
      <4> QED
        BY <1>1, <3>1, <4>1
    <3>2. CASE u # s
      <4>1. \A k \in 1 .. Len(n) : k \in 1 .. Len(t) /\ t[k] = n[k]
        BY <1>1
      <4>2. ss2[u] = ss[u]
        BY <1>5, <3>2
      <4> QED
        BY <2>4, <4>1, <4>2 DEF OwnInv
    <3> QED
      BY <3>1, <3>2
  <2>5. ASSUME NEW k \in 1 .. Len(t), NEW j \in 1 .. Len(t), t[k] = t[j] PROVE k = j
    <3>1. CASE k \in 1 .. Len(n) /\ j \in 1 .. Len(n)
      BY <1>1, <2>5, <3>1 DEF OwnInv
    <3>2. CASE k = Len(n) + 1 /\ j = Len(n) + 1
      BY <3>2
    <3> QED
      BY <1>1, <1>2, <1>3, <2>5, <3>1, <3>2
  <2> QED
    BY <2>1, <2>2, <2>3, <2>4, <2>5 DEF OwnInv
<1>10. WaitInv(pq, m, ss2, q)
  <2>1. \A j \in Region : Waiting(q[j]) \in SUBSET Slots
    BY WaitingCount DEF TablesOK
  <2>2. \A j \in Region : \A u \in Waiting(q[j]) : ss2[u] = ss[u]
    BY <1>5, <2>1 DEF WaitInv
  <2> QED
    BY <1>6, <2>2 DEF WaitInv
<1>11. CountInv(ss2, l)
  <2>1. \A j \in Region : Population(ss2, j) = Population(ss, j)
    BY <1>5 DEF Population
  <2> QED
    BY <2>1 DEF CountInv
<1>12. Entered(m, ss2) = Entered(m, ss)
  BY <1>6 DEF Entered
<1> QED
  BY <1>7, <1>8, <1>9, <1>10, <1>11, <1>12, <1>20

(* Disconnected sessions whose time is over are deleted.                   *)
LEMMA Expire ==
  ASSUME NEW pq, NEW n, NEW m, NEW d, NEW ss, NEW q, NEW l,
         Sound(pq, n, m, d, ss, q, l), NEW G \in SUBSET d,
         NEW ss2 \in [Slots -> Sessions \cup {NoSession}],
         \A s \in G : ss2[s] = NoSession,
         \A s \in d \ G : Same(ss[s], ss2[s]),
         \A s \in Slots : s \notin d => ss2[s] = ss[s],
         NEW l2, l2 = CountDown(l, ss, G)
  PROVE  Sound(pq, n, m, d \ G, ss2, q, l2) /\ Entered(m, ss2) = Entered(m, ss)
<1> USE DEF Sound
<1>1. /\ \A k \in 1 .. Len(n) : n[k] \in Slots /\ n[k] \notin d
      /\ \A a \in Listed(m) : a \in Accounts /\ m[a] \in Slots /\ m[a] \notin d
      /\ d \in SUBSET Slots
  <2>1. \A k \in 1 .. Len(n) : n[k] \in Slots
    BY ElementOfSeq DEF TablesOK
  <2>2. \A a \in Listed(m) : a \in Accounts /\ m[a] \in Slots
    BY DEF TablesOK, Listed
  <2> QED
    BY <2>1, <2>2 DEF OwnInv, TablesOK
<1>2. TablesOK(n, m, d \ G, ss2, q)
  BY DEF TablesOK
<1>3. PlayInv(ss2)
  BY <1>1 DEF PlayInv, OwnInv, Same
<1>4. OwnInv(n, m, d \ G, ss2)
  <2>1. \A k \in 1 .. Len(n) : ss2[n[k]] # NoSession
                              /\ ~ss2[n[k]].inQueue /\ ~ss2[n[k]].passed
    BY <1>1 DEF OwnInv
  <2>2. \A a \in Listed(m) : ss2[m[a]] # NoSession /\ ss2[m[a]].acct = a
                            /\ (ss2[m[a]].inQueue \/ ss2[m[a]].passed)
                            /\ m[a] \notin d \ G
    BY <1>1 DEF OwnInv
  <2>3. \A s \in d \ G : ss2[s] # NoSession /\ ss2[s].passed
    BY DEF OwnInv, Same
  <2>4. \A s \in Slots : ss2[s] # NoSession =>
          \/ \E k \in 1 .. Len(n) : n[k] = s
          \/ m[ss2[s].acct] = s
          \/ s \in d \ G
    BY <1>1 DEF OwnInv
  <2> QED
    BY <2>1, <2>2, <2>3, <2>4 DEF OwnInv
<1>5. WaitInv(pq, m, ss2, q)
  <2>1. \A j \in Region : Waiting(q[j]) \in SUBSET Slots
    BY WaitingCount DEF TablesOK
  <2>2. \A j \in Region : \A u \in Waiting(q[j]) : ss2[u] = ss[u]
    <3> TAKE j \in Region
    <3> TAKE u \in Waiting(q[j])
    <3>1. u \in Slots /\ ss[u].inQueue /\ ss[u] # NoSession
      BY <2>1 DEF WaitInv
    <3>2. u \notin d
      BY <3>1 DEF OwnInv, PlayInv
    <3> QED
      BY <3>1, <3>2
  <2> QED
    BY <1>1, <2>2 DEF WaitInv
<1>6. ASSUME NEW j \in Region
      PROVE  l2[j] \in Nat /\ l2[j] = Cardinality(Population(ss2, j))
  <2> DEFINE H == {t \in {u \in G : ss[u].passed} : GetQueueIndex(ss[t].acct) = j}
  <2>1. l2[j] = l[j] - Cardinality(H)
    BY <1>6 DEF CountDown, PassedOf
  <2>2. H = Population(ss, j) \cap H
    BY <1>1 DEF Population, OwnInv
  <2>3. Population(ss, j) = Population(ss2, j) \cup H
    <3> SUFFICES ASSUME NEW u \in Slots
                 PROVE  u \in Population(ss, j) <=> u \in Population(ss2, j) \cup H
      BY <2>2 DEF Population
    <3>1. CASE u \in G
      BY <1>1, <3>1 DEF Population, OwnInv
    <3>2. CASE u \in d \ G
      BY <1>1, <3>2 DEF Population, OwnInv, Same
    <3>3. CASE u \notin d
      BY <3>3 DEF Population
    <3> QED
      BY <3>1, <3>2, <3>3
  <2>4. Population(ss2, j) \cap H = {}
    BY DEF Population
  <2>5. H \in SUBSET Slots
    BY <1>1
  <2> HIDE DEF H
  <2>6. IsFiniteSet(H) /\ Cardinality(H) \in Nat
    BY <2>5, FS_Subset, FS_CardinalityType, LoginAssumption
  <2>7. IsFiniteSet(Population(ss2, j)) /\ Cardinality(Population(ss2, j)) \in Nat
    BY PopulationFinite
  <2>8. Cardinality(Population(ss, j)) =
            Cardinality(Population(ss2, j)) + Cardinality(H) - Cardinality({})
    BY <2>3, <2>4, <2>6, <2>7, FS_Union
  <2>9. l[j] = Cardinality(Population(ss, j))
    BY <1>6 DEF CountInv
  <2> QED
    BY <2>1, <2>6, <2>7, <2>8, <2>9, FS_EmptySet
<1>7. CountInv(ss2, l2)
  <2>1. l2 = [j \in Region |-> l2[j]]
    BY DEF CountDown
  <2>2. l2 \in [Region -> Nat]
    BY <1>6, <2>1
  <2> QED
    BY <1>6, <2>2 DEF CountInv
<1>8. Entered(m, ss2) = Entered(m, ss)
  BY <1>1 DEF Entered
<1> QED
  BY <1>2, <1>3, <1>4, <1>5, <1>7, <1>8

(* The code's count of active sessions, those of m_sessions less those in  *)
(* the queues, is that of the accounts that passed; it is not above the    *)
(* two populations, which have the lost characters too.                    *)
LEMMA ActiveCount ==
  ASSUME NEW pq, NEW n, NEW m, NEW d, NEW ss, NEW q, NEW l,
         Sound(pq, n, m, d, ss, q, l)
  PROVE  /\ IsFiniteSet(Listed(m)) /\ Cardinality(Listed(m)) \in Nat
         /\ Queued(q) \in Nat
         /\ Cardinality(Playing(m, ss)) = Cardinality(Listed(m)) - Queued(q)
         /\ IsFiniteSet(Playing(m, ss)) /\ Cardinality(Playing(m, ss)) \in Nat
         /\ Entered(m, ss) \in SUBSET Playing(m, ss)
         /\ Cardinality(Entered(m, ss)) \in Nat
         /\ Cardinality(Entered(m, ss)) <= Cardinality(Playing(m, ss))
         /\ Cardinality(Playing(m, ss)) <= l[0] + l[1]
<1> USE DEF Sound
<1>1. IsFiniteSet(Listed(m)) /\ Cardinality(Listed(m)) \in Nat
  <2>1. Listed(m) \in SUBSET Accounts
    BY DEF Listed
  <2> QED
    BY <2>1, FS_Subset, FS_CardinalityType, LoginAssumption
<1>2. \A j \in Region : /\ q[j] \in Seq(Entries) /\ Distinct(q[j]) /\ Len(q[j]) \in Nat
                        /\ Waiting(q[j]) \in SUBSET Slots
                        /\ IsFiniteSet(Waiting(q[j]))
                        /\ Cardinality(Waiting(q[j])) = Len(q[j])
  <2> TAKE j \in Region
  <2>1. q[j] \in Seq(Entries) /\ Distinct(q[j])
    BY DEF TablesOK, WaitInv
  <2> QED
    BY <2>1, WaitingCount
<1>3. 0 \in Region /\ 1 \in Region /\ \A j \in Region : j = 0 \/ j = 1
  BY DEF Region
<1>4. Waiting(q[0]) \cap Waiting(q[1]) = {}
  BY <1>3 DEF WaitInv
<1> DEFINE W == Waiting(q[0]) \cup Waiting(q[1])
           B == Listed(m) \ Playing(m, ss)
           f == [a \in B |-> m[a]]
<1>5. IsFiniteSet(W) /\ Cardinality(W) = Len(q[0]) + Len(q[1])
  <2>1. Cardinality(W) = Cardinality(Waiting(q[0])) + Cardinality(Waiting(q[1])) - Cardinality({})
    BY <1>2, <1>3, <1>4, FS_Union
  <2>2. IsFiniteSet(W)
    BY <1>2, <1>3, FS_Union
  <2>3. Cardinality({}) = 0
    BY FS_EmptySet
  <2>4. Cardinality(W) = Len(q[0]) + Len(q[1]) - 0
    BY <1>2, <1>3, <2>1, <2>3
  <2> QED
    BY <1>2, <1>3, <2>2, <2>4
<1>6. \A a \in B : /\ a \in Listed(m) /\ a \in Accounts
                   /\ ss[m[a]] # NoSession /\ ss[m[a]].acct = a /\ m[a] \in W
  <2> TAKE a \in B
  <2>1. a \in Listed(m) /\ a \in Accounts /\ ~ss[m[a]].passed
    BY DEF Playing, Listed
  <2>2. ss[m[a]] # NoSession /\ ss[m[a]].acct = a /\ ss[m[a]].inQueue
    BY <2>1 DEF OwnInv
  <2>3. Home(pq, a) = 0 \/ Home(pq, a) = 1
    BY DEF Home, GetQueueIndex
  <2>4. m[a] \in Waiting(q[Home(pq, a)])
    BY <2>1, <2>2 DEF WaitInv
  <2> QED
    BY <2>1, <2>2, <2>3, <2>4
<1>7. \A u \in W : \E a \in B : m[a] = u
  <2> TAKE u \in W
  <2>1. u \in Slots /\ ss[u] # NoSession /\ ss[u].inQueue /\ m[ss[u].acct] = u
    BY <1>2, <1>3 DEF WaitInv
  <2>2. ss[u] \in Sessions
    BY <2>1 DEF TablesOK
  <2>3. ss[u].acct \in Accounts /\ u # NoSession
    BY <2>1, <2>2, LoginAssumption DEF Sessions
  <2>4. ss[u].acct \in Listed(m) /\ ~ss[u].passed
    BY <2>1, <2>3 DEF Listed, PlayInv
  <2>5. ss[u].acct \in B
    BY <2>1, <2>4 DEF Playing
  <2> QED
    BY <2>1, <2>5
<1>8. f \in [B -> W] /\ \A a \in B : f[a] = m[a]
  BY <1>6
<1>9. Playing(m, ss) \in SUBSET Listed(m)
  BY DEF Playing
<1>10. B \in SUBSET Listed(m) /\ Listed(m) = Playing(m, ss) \cup B /\ Playing(m, ss) \cap B = {}
  BY <1>9
<1>11. Queued(q) = Len(q[0]) + Len(q[1]) /\ Queued(q) \in Nat
  <2>1. Len(q[0]) \in Nat /\ Len(q[1]) \in Nat
    BY <1>2, <1>3
  <2>2. Len(q[0]) + Len(q[1]) \in Nat
    <3>1. \A x, y \in Nat : x + y \in Nat
      OBVIOUS
    <3> QED
      BY <2>1, <3>1
  <2> QED
    BY <2>2 DEF Queued
<1> HIDE DEF W, B, f
<1>12. IsFiniteSet(B) /\ Cardinality(B) = Cardinality(W)
  <2>1. IsFiniteSet(B)
    BY <1>1, <1>10, FS_Subset
  <2>2. f \in Bijection(B, W)
    BY <1>6, <1>7, <1>8 DEF Bijection, Injection, Surjection, IsInjective
  <2>3. ExistsBijection(B, W)
    BY <2>2 DEF ExistsBijection
  <2> QED
    BY <2>1, <2>3, FS_Bijection
<1>13. IsFiniteSet(Playing(m, ss)) /\ Cardinality(Playing(m, ss)) \in Nat
  BY <1>1, <1>9, FS_Subset, FS_CardinalityType
<1>14. Cardinality(Playing(m, ss)) = Cardinality(Listed(m)) - Queued(q)
  <2>1. Cardinality(Listed(m)) = Cardinality(Playing(m, ss)) + Cardinality(B) - Cardinality({})
    BY <1>10, <1>12, <1>13, FS_Union
  <2>2. Cardinality({}) = 0
    BY FS_EmptySet
  <2>3. Cardinality(B) = Queued(q)
    BY <1>5, <1>11, <1>12
  <2>4. \A x, y, z \in Nat : x = y + z - 0 => y = x - z
    OBVIOUS
  <2>5. Queued(q) \in Nat
    BY <1>11
  <2>6. Cardinality(Listed(m)) = Cardinality(Playing(m, ss)) + Queued(q) - 0
    BY <2>1, <2>2, <2>3
  <2> QED
    BY <1>1, <1>13, <2>4, <2>5, <2>6
<1>15. Entered(m, ss) \in SUBSET Playing(m, ss)
  BY DEF Entered, Playing
<1>16. Cardinality(Entered(m, ss)) \in Nat /\ Cardinality(Entered(m, ss)) <= Cardinality(Playing(m, ss))
  BY <1>13, <1>15, FS_Subset, FS_CardinalityType
<1>17. Cardinality(Playing(m, ss)) <= l[0] + l[1]
  <2> DEFINE P == Population(ss, 0) \cup Population(ss, 1)
             g == [a \in Playing(m, ss) |-> m[a]]
  <2>1. \A a \in Playing(m, ss) : m[a] \in P /\ ss[m[a]].acct = a
    <3> TAKE a \in Playing(m, ss)
    <3>1. a \in Listed(m) /\ ss[m[a]].passed /\ m[a] \in Slots
      BY DEF Playing, Listed, TablesOK
    <3>2. ss[m[a]] # NoSession /\ ss[m[a]].acct = a
      BY <3>1 DEF OwnInv
    <3>3. GetQueueIndex(a) = 0 \/ GetQueueIndex(a) = 1
      BY DEF GetQueueIndex
    <3> QED
      BY <3>1, <3>2, <3>3 DEF Population
  <2>2. g \in [Playing(m, ss) -> P] /\ \A a \in Playing(m, ss) : g[a] = m[a]
    BY <2>1
  <2>3. Population(ss, 0) \cap Population(ss, 1) = {}
    BY DEF Population
  <2> HIDE DEF g
  <2>4. g \in Injection(Playing(m, ss), P)
    <3>1. \A a, b \in Playing(m, ss) : g[a] = g[b] => a = b
      BY <2>1, <2>2
    <3> QED
      BY <2>2, <3>1 DEF Injection, IsInjective
  <2>5. /\ IsFiniteSet(Population(ss, 0)) /\ Cardinality(Population(ss, 0)) = l[0]
        /\ IsFiniteSet(Population(ss, 1)) /\ Cardinality(Population(ss, 1)) = l[1]
    BY <1>3, PopulationFinite DEF CountInv
  <2>6. IsFiniteSet(P) /\ Cardinality(P) = l[0] + l[1] - Cardinality({})
    BY <2>3, <2>5, FS_Union
  <2> HIDE DEF P
  <2>7. Cardinality(Playing(m, ss)) <= Cardinality(P)
    BY <2>4, <2>6, FS_Injection
  <2>8. l[0] \in Nat /\ l[1] \in Nat /\ Cardinality({}) = 0
    BY <1>3, FS_EmptySet DEF CountInv
  <2> QED
    BY <1>13, <2>6, <2>7, <2>8
<1> QED
  BY <1>1, <1>11, <1>13, <1>14, <1>15, <1>16, <1>17

-----------------------------------------------------------------------------
(* The steps of World on the current tables.                               *)

(* The bound on the sessions that entered is a number.                     *)
LEMMA BoundIsNat ==
  ASSUME NEW pq
  PROVE  Bound(pq) \in Nat /\ HardLimit <= Bound(pq)
  BY LoginAssumption DEF Bound

(* The two regions, and the queue an account waits in.                     *)
LEMMA RegionFacts ==
  /\ 0 \in Region /\ 1 \in Region /\ \A i \in Region : i = 0 \/ i = 1
  /\ \A a : GetQueueIndex(a) \in Region /\ QueueOf(a) \in Region
  /\ \A a : QueueOf(a) = Home(priorityQueue, a)
  BY DEF Region, GetQueueIndex, QueueOf, Home

(* Nobody passes: nothing is counted.                                      *)
LEMMA NobodyCounted ==
  ASSUME NEW l \in [Region -> Nat], NEW ss
  PROVE  CountUp(l, ss, {}) = l /\ CountDown(l, ss, {}) = l
<1>1. \A i : PassedOf(i, ss, {}) = 0
  <2> TAKE i
  <2>1. {s \in {} : GetQueueIndex(ss[s].acct) = i} = {}
    OBVIOUS
  <2> QED
    BY <2>1, FS_EmptySet DEF PassedOf
<1>2. {s \in {} : ss[s].passed} = {}
  OBVIOUS
<1>3. CountUp(l, ss, {}) = [i \in Region |-> l[i] + 0]
  BY <1>1 DEF CountUp
<1>4. CountDown(l, ss, {}) = [i \in Region |-> l[i] - 0]
  BY <1>1, <1>2 DEF CountDown
<1> QED
  BY <1>3, <1>4

(* RemoveQueuedSession, with result v, takes session s out of the queues;  *)
(* it also lets one more in only without the priority queue, and below the *)
(* limit.                                                                  *)
Removes(s, v) ==
    /\ v.found <=> sess[s].inQueue
    /\ \/ v.popped = {} /\ LeftQueues(queue, v.queue, {s})
       \/ /\ ~priorityQueue
          /\ \E h \in Waiting(queue[0]) :
                /\ h # s /\ v.popped = {h}
                /\ LeftQueues(queue, v.queue, {h, s})
                /\ Cardinality(Listed(m_sessions)) - (Queued(v.queue) + 1) < HardLimit

(* What RemoveQueuedSession returns: queues without the session, and       *)
(* without the one it lets in for it.                                      *)
LEMMA RemoveQueued ==
  ASSUME NEW n, NEW d, NEW l, Sound(priorityQueue, n, m_sessions, d, sess, queue, l),
         NEW a \in Listed(m_sessions)
  PROVE  Removes(m_sessions[a], RemoveQueuedSession(m_sessions[a]))
<1> PICK s : s = m_sessions[a]
  OBVIOUS
<1> PICK v : v = RemoveQueuedSession(s)
  OBVIOUS
<1> SUFFICES Removes(s, v)
  OBVIOUS
<1> USE DEF Sound
<1>1. sess[s] # NoSession /\ sess[s].acct = a /\ a \in Accounts
  BY DEF OwnInv, Listed
<1>2. PICK i \in Region : i = QueueOf(a) /\ i = Home(priorityQueue, a)
  BY RegionFacts
<1>3. \A j \in Region : queue[j] \in Seq(Entries) /\ Distinct(queue[j])
  BY DEF TablesOK, WaitInv
<1>4. PICK w : w = Without(queue[i], s)
  OBVIOUS
<1>5. w \in Seq(Entries) /\ Distinct(w) /\ Waiting(w) = Waiting(queue[i]) \ {s}
  BY <1>3, <1>4, WithoutOne
<1>6. \A j \in Region : j # i => s \notin Waiting(queue[j])
  BY <1>1, <1>2 DEF WaitInv
<1>7. s \in Waiting(queue[i]) <=> sess[s].inQueue
  BY <1>1, <1>2 DEF WaitInv
<1>8. PICK accept \in BOOLEAN :
        /\ accept => /\ ~priorityQueue /\ w # <<>>
                     /\ Cardinality(Listed(m_sessions)) - Len(w) < HardLimit
        /\ v = [found |-> WasQueued(s),
                queue |-> [queue EXCEPT ![i] = IF accept THEN Tail(w) ELSE w],
                popped |-> IF accept THEN {Head(w).s} ELSE {}]
  <2> DEFINE active == GetActiveSessionCount(m_sessions, queue)
             found == WasQueued(s)
             sessions == IF ~found /\ active > 0 THEN active - 1 ELSE active
             acc == /\ ~priorityQueue
                    /\ Cardinality(Listed(m_sessions)) - Len(w) < HardLimit
                    /\ m_playerLimit = 0 \/ sessions < m_playerLimit
                    /\ w # <<>>
  <2>1. QueueOf(sess[s].acct) = i
    BY <1>1, <1>2
  <2>2. v = [found |-> WasQueued(s),
             queue |-> [queue EXCEPT ![i] = IF acc THEN Tail(w) ELSE w],
             popped |-> IF acc THEN {Head(w).s} ELSE {}]
    BY <1>4, <2>1 DEF RemoveQueuedSession
  <2> WITNESS acc \in BOOLEAN
  <2> QED
    BY <2>2
<1>9. v.found <=> sess[s].inQueue
  <2>1. v.found <=> WasQueued(s)
    BY <1>8
  <2>2. WasQueued(s) <=> s \in Waiting(queue[i])
    BY <1>1, <1>2 DEF WasQueued
  <2> QED
    BY <1>7, <2>1, <2>2
<1>10. queue \in [Region -> Seq(Entries)]
  BY DEF TablesOK
<1>11. CASE ~accept
  <2>1. v.popped = {} /\ v.queue = [queue EXCEPT ![i] = w]
    BY <1>8, <1>11
  <2>2. LeftQueues(queue, v.queue, {s})
    BY <1>3, <1>5, <1>6, <1>10, <2>1 DEF LeftQueues
  <2> QED
    BY <1>9, <2>1, <2>2 DEF Removes
<1>12. CASE accept
  <2>1. /\ v.popped = {Head(w).s} /\ v.queue = [queue EXCEPT ![i] = Tail(w)]
        /\ ~priorityQueue /\ w # <<>>
        /\ Cardinality(Listed(m_sessions)) - Len(w) < HardLimit
    BY <1>8, <1>12
  <2>2. PICK h : h = Head(w).s
    OBVIOUS
  <2>3. /\ Tail(w) \in Seq(Entries) /\ Distinct(Tail(w)) /\ h \in Waiting(w)
        /\ Waiting(Tail(w)) = Waiting(w) \ {h}
    BY <1>5, <2>1, <2>2, TailOne
  <2>4. i = 0
    BY <1>2, <2>1 DEF Home
  <2>5. h \in Waiting(queue[0]) /\ h # s
    BY <1>5, <2>3, <2>4
  <2>6. \A j \in Region : j # i => h \notin Waiting(queue[j])
    BY <1>2, <2>4, <2>5, RegionFacts DEF WaitInv
  <2>7. LeftQueues(queue, v.queue, {h, s})
    BY <1>3, <1>5, <1>6, <1>10, <2>1, <2>3, <2>6 DEF LeftQueues
  <2>8. Len(queue[1]) = 0
    <3>1. Waiting(queue[1]) = {}
      BY <2>1, RegionFacts DEF WaitInv, Home
    <3>2. Cardinality(Waiting(queue[1])) = Len(queue[1])
      BY <1>3, RegionFacts, WaitingCount
    <3> QED
      BY <3>1, <3>2, FS_EmptySet
  <2>9. Len(w) \in Nat /\ Len(Tail(w)) = Len(w) - 1
    BY <1>5, <2>1, HeadTailProperties
  <2>10. v.queue[0] = Tail(w) /\ v.queue[1] = queue[1]
    BY <1>10, <2>1, <2>4, RegionFacts
  <2>11. Queued(v.queue) + 1 = Len(w)
    <3>1. Queued(v.queue) = (Len(w) - 1) + 0
      BY <2>8, <2>9, <2>10 DEF Queued
    <3> QED
      BY <2>9, <3>1
  <2>12. \E h1 \in Waiting(queue[0]) :
            /\ h1 # s /\ v.popped = {h1}
            /\ LeftQueues(queue, v.queue, {h1, s})
            /\ Cardinality(Listed(m_sessions)) - (Queued(v.queue) + 1) < HardLimit
    BY <2>1, <2>2, <2>5, <2>7, <2>11
  <2> QED
    BY <1>9, <2>1, <2>12 DEF Removes
<1> QED
  BY <1>11, <1>12

(* A session of m_sessions leaves it with everything that follows in the   *)
(* queue.                                                                  *)
(* The session of account a leaves m_sessions with everything that follows *)
(* in the queue, v being the result of RemoveQueuedSession.                *)
Leaves(a, v, d, m2, d2, ss2, l2) ==
    LET s == m_sessions[a]
        ss1 == OnPassedQueue(sess, v.popped)
        l1 == CountUp(logged, sess, v.popped)
    IN  /\ v = RemoveQueuedSession(s)
        /\ m2 = [m_sessions EXCEPT ![a] = NoSession]
        /\ ss2 \in [Slots -> Sessions \cup {NoSession}]
        /\ \A t \in Slots : t # s => ss2[t] = ss1[t]
        /\ \/ ss2[s] = NoSession /\ d2 = d /\ l2 = CountDown(l1, ss1, {s})
           \/ /\ ss1[s].inWorld /\ Same(ss1[s], ss2[s])
              /\ d2 = d \cup {s} /\ l2 = l1

(* A session that is let in while another leaves is one of the queues, and *)
(* not the one that leaves.                                                *)
LEMMA PoppedWaits ==
  ASSUME NEW n, NEW d, Good(n, m_sessions, d, sess, queue, logged),
         NEW a \in Listed(m_sessions), NEW v, v = RemoveQueuedSession(m_sessions[a])
  PROVE  /\ m_sessions[a] \in Slots /\ m_sessions[a] \notin v.popped
         /\ OnPassedQueue(sess, v.popped)[m_sessions[a]] = sess[m_sessions[a]]
         /\ v.popped \in SUBSET (Waiting(queue[0]) \cup Waiting(queue[1]))
         /\ \A t \in v.popped : t \in Slots /\ sess[t] # NoSession /\ sess[t].inQueue
         /\ OnPassedQueue(sess, v.popped) \in [Slots -> Sessions \cup {NoSession}]
         /\ CountUp(logged, sess, v.popped) \in [Region -> Nat]
         /\ v.found <=> sess[m_sessions[a]].inQueue
<1>1. Sound(priorityQueue, n, m_sessions, d, sess, queue, logged)
  BY DEF Good
<1>2. m_sessions[a] \in Slots
  BY <1>1 DEF Sound, TablesOK, Listed
<1>3. Removes(m_sessions[a], v)
  BY <1>1, RemoveQueued
<1>4. /\ m_sessions[a] \notin v.popped
      /\ v.popped \in SUBSET (Waiting(queue[0]) \cup Waiting(queue[1]))
      /\ v.found <=> sess[m_sessions[a]].inQueue
  BY <1>3 DEF Removes
<1>5. OnPassedQueue(sess, v.popped)[m_sessions[a]] = sess[m_sessions[a]]
  BY <1>2, <1>4 DEF OnPassedQueue
<1>6. CountUp(logged, sess, v.popped) \in [Region -> Nat]
  <2>1. v.popped \in SUBSET Slots
    <3>1. \A j \in Region : queue[j] \in Seq(Entries)
      BY <1>1 DEF Sound, TablesOK
    <3>2. Waiting(queue[0]) \in SUBSET Slots /\ Waiting(queue[1]) \in SUBSET Slots
      BY <3>1, RegionFacts, WaitingCount
    <3> QED
      BY <1>4, <3>2
  <2>2. \A i \in Region : PassedOf(i, sess, v.popped) \in Nat
    <3> TAKE i \in Region
    <3>1. {t \in v.popped : GetQueueIndex(sess[t].acct) = i} \in SUBSET Slots
      BY <2>1
    <3> QED
      BY <3>1, FS_Subset, FS_CardinalityType, LoginAssumption DEF PassedOf
  <2>3. logged \in [Region -> Nat]
    BY <1>1 DEF Sound, CountInv
  <2> QED
    BY <2>2, <2>3 DEF CountUp
<1>7. \A t \in v.popped : t \in Slots /\ sess[t] # NoSession /\ sess[t].inQueue
  <2>1. \A j \in Region : queue[j] \in Seq(Entries)
    BY <1>1 DEF Sound, TablesOK
  <2>2. Waiting(queue[0]) \in SUBSET Slots /\ Waiting(queue[1]) \in SUBSET Slots
    BY <2>1, RegionFacts, WaitingCount
  <2> QED
    BY <1>1, <1>4, <2>2, RegionFacts DEF Sound, WaitInv
<1>8. OnPassedQueue(sess, v.popped) \in [Slots -> Sessions \cup {NoSession}]
  <2>1. sess \in [Slots -> Sessions \cup {NoSession}]
    BY <1>1 DEF Sound, TablesOK
  <2>2. v.popped \in SUBSET Slots
    BY <1>7
  <2> QED
    BY <1>7, <2>1, <2>2, PassedFlags
<1> QED
  BY <1>2, <1>4, <1>5, <1>6, <1>7, <1>8

(* The tables stay good when the session of an account leaves m_sessions.  *)
LEMMA LeavesGood ==
  ASSUME NEW n, NEW d, Good(n, m_sessions, d, sess, queue, logged),
         NEW a \in Listed(m_sessions), NEW v, NEW m2, NEW d2, NEW ss2, NEW l2,
         Leaves(a, v, d, m2, d2, ss2, l2)
  PROVE  Good(n, m2, d2, ss2, v.queue, l2)
<1>1. PICK ss1, l1 : /\ ss1 = OnPassedQueue(sess, v.popped)
                     /\ l1 = CountUp(logged, sess, v.popped)
  OBVIOUS
<1>2. /\ v = RemoveQueuedSession(m_sessions[a])
      /\ m2 = [m_sessions EXCEPT ![a] = NoSession]
      /\ ss2 \in [Slots -> Sessions \cup {NoSession}]
      /\ \A t \in Slots : t # m_sessions[a] => ss2[t] = ss1[t]
      /\ \/ /\ ss2[m_sessions[a]] = NoSession /\ d2 = d
            /\ l2 = CountDown(l1, ss1, {m_sessions[a]})
         \/ /\ ss1[m_sessions[a]].inWorld /\ Same(ss1[m_sessions[a]], ss2[m_sessions[a]])
            /\ d2 = d \cup {m_sessions[a]} /\ l2 = l1
  BY <1>1 DEF Leaves
<1>3. /\ Sound(priorityQueue, n, m_sessions, d, sess, queue, logged)
      /\ Cardinality(Entered(m_sessions, sess)) <= Bound(priorityQueue)
  BY DEF Good
<1>4. Removes(m_sessions[a], v)
  BY <1>2, <1>3, RemoveQueued
<1>5. CASE v.popped = {} /\ LeftQueues(queue, v.queue, {m_sessions[a]})
  <2>1. ss1 = sess /\ l1 = logged
    <3>1. sess \in [Slots -> Sessions \cup {NoSession}] /\ logged \in [Region -> Nat]
      BY <1>3 DEF Sound, TablesOK, CountInv
    <3> QED
      BY <1>1, <1>5, <3>1, NobodyCounted DEF OnPassedQueue
  <2>2. Departs(a, m_sessions, d, sess, queue, logged, m2, d2, ss2, v.queue, l2)
    BY <1>2, <1>5, <2>1 DEF Departs
  <2>3. /\ Sound(priorityQueue, n, m2, d2, ss2, v.queue, l2)
        /\ Entered(m2, ss2) = Entered(m_sessions, sess) \ {a}
    BY <1>3, <2>2, Depart
  <2>4. Cardinality(Entered(m2, ss2)) <= Bound(priorityQueue)
    <3>1. /\ IsFiniteSet(Entered(m_sessions, sess))
          /\ Cardinality(Entered(m_sessions, sess)) \in Nat
      BY <1>3, ActiveCount, FS_Subset
    <3>2. Cardinality(Entered(m2, ss2)) <= Cardinality(Entered(m_sessions, sess))
      BY <2>3, <3>1, FS_Subset
    <3>3. Cardinality(Entered(m2, ss2)) \in Nat
      BY <2>3, ActiveCount
    <3> QED
      BY <1>3, <3>1, <3>2, <3>3, BoundIsNat
  <2> QED
    BY <2>3, <2>4 DEF Good
<1>6. CASE ~(v.popped = {} /\ LeftQueues(queue, v.queue, {m_sessions[a]}))
  <2>1. PICK h \in Waiting(queue[0]) :
            /\ h # m_sessions[a] /\ v.popped = {h}
            /\ LeftQueues(queue, v.queue, {h, m_sessions[a]})
            /\ Cardinality(Listed(m_sessions)) - (Queued(v.queue) + 1) < HardLimit
    BY <1>4, <1>6 DEF Removes
  <2>2. PICK w : w = Without(queue[0], h)
    OBVIOUS
  <2>3. /\ queue \in [Region -> Seq(Entries)]
        /\ \A j \in Region : queue[j] \in Seq(Entries) /\ Distinct(queue[j])
    BY <1>3 DEF Sound, TablesOK, WaitInv
  <2>4. w \in Seq(Entries) /\ Distinct(w) /\ Waiting(w) = Waiting(queue[0]) \ {h}
    BY <2>2, <2>3, WithoutOne, RegionFacts
  <2>5. h \notin Waiting(queue[1])
    BY <1>3, <2>1, RegionFacts DEF Sound, WaitInv
  <2>6. PICK r : r = [queue EXCEPT ![0] = w]
    OBVIOUS
  <2>7. r \in [Region -> Seq(Entries)] /\ r[0] = w /\ r[1] = queue[1]
    BY <2>3, <2>4, <2>6, RegionFacts
  <2>8. \A j \in Region : Distinct(r[j]) /\ Waiting(r[j]) = Waiting(queue[j]) \ {h}
    <3> TAKE j \in Region
    <3>1. CASE j = 0
      BY <2>4, <2>7, <3>1
    <3>2. CASE j = 1
      <4>1. Waiting(queue[1]) = Waiting(queue[1]) \ {h}
        BY <2>5
      <4> QED
        BY <2>3, <2>7, <3>2, <4>1
    <3> QED
      BY <3>1, <3>2, RegionFacts
  <2>9. LeftQueues(queue, r, v.popped)
    BY <2>1, <2>7, <2>8 DEF LeftQueues
  <2>10. v.popped \in SUBSET Waiting(queue[0])
    BY <2>1
  <2>11. Sound(priorityQueue, n, m_sessions, d, ss1, r, l1)
    BY <1>1, <1>3, <2>9, <2>10, RegionFacts, Admit
  <2>12. LeftQueues(r, v.queue, {m_sessions[a]})
    BY <2>1, <2>8 DEF LeftQueues
  <2>13. Departs(a, m_sessions, d, ss1, r, l1, m2, d2, ss2, v.queue, l2)
    BY <1>2, <2>12 DEF Departs
  <2>14. /\ Sound(priorityQueue, n, m2, d2, ss2, v.queue, l2)
         /\ Listed(m2) = Listed(m_sessions) \ {a}
    BY <2>11, <2>13, Depart
  <2>15. Cardinality(Entered(m2, ss2)) <= Bound(priorityQueue)
    <3>1. IsFiniteSet(Listed(m_sessions)) /\ Cardinality(Listed(m_sessions)) \in Nat
      BY <1>3, ActiveCount
    <3>2. Cardinality(Listed(m2)) = Cardinality(Listed(m_sessions)) - 1
      BY <2>14, <3>1, FS_RemoveElement
    <3>3. /\ Queued(v.queue) \in Nat /\ Cardinality(Entered(m2, ss2)) \in Nat
          /\ Cardinality(Playing(m2, ss2)) \in Nat
          /\ Cardinality(Entered(m2, ss2)) <= Cardinality(Playing(m2, ss2))
          /\ Cardinality(Playing(m2, ss2)) = Cardinality(Listed(m2)) - Queued(v.queue)
      <4>1. Sound(priorityQueue, n, m2, d2, ss2, v.queue, l2)
        BY <2>14
      <4> QED
        BY <4>1, ActiveCount
    <3>4. Cardinality(Playing(m2, ss2)) < HardLimit
      BY <2>1, <3>1, <3>2, <3>3, LoginAssumption
    <3> QED
      BY <3>3, <3>4, BoundIsNat, LoginAssumption
  <2> QED
    BY <2>14, <2>15 DEF Good
<1> QED
  BY <1>5, <1>6

(* The session s, first of addSessQueue, is added for account a, which has *)
(* no other: it waits if there is no room, or it is let in.                *)
Adds(base, s, a, n, m, ss, q, l, m2, ss2, r, l2) ==
    LET i == GetQueueIndex(a)
        full == l[i] >= MaxPop[i] \/ GetActiveSessionCount(m2, q) >= HardLimit
    IN  /\ n # <<>> /\ s = Head(n) /\ a = ss[s].acct /\ base \in 0 .. MaxBase
        /\ m[a] = NoSession /\ m2 = [m EXCEPT ![a] = s]
        /\ ss2 \in [Slots -> Sessions \cup {NoSession}]
        /\ \A t \in Slots : t # s => ss2[t] = ss[t]
        /\ \/ /\ ss2[s] = [ss[s] EXCEPT !.inQueue = TRUE, !.hadQueue = TRUE]
              /\ r = [q EXCEPT ![QueueOf(a)] = Inserted(@, [prio |-> base, s |-> s])]
              /\ l2 = l
           \/ /\ ss2[s] = [ss[s] EXCEPT !.passed = TRUE, !.skipped = full]
              /\ r = q /\ l2 = [l EXCEPT ![i] = @ + 1]

(* The tables stay good when AddSession_ adds a session for an account     *)
(* that has none in m_sessions.                                            *)
LEMMA AddedGood ==
  ASSUME NEW n, NEW m, NEW d, NEW ss, NEW q, NEW l, Good(n, m, d, ss, q, l),
         NEW base, NEW s, NEW a, NEW m2, NEW ss2, NEW r, NEW l2,
         Adds(base, s, a, n, m, ss, q, l, m2, ss2, r, l2)
  PROVE  Good(Tail(n), m2, d, ss2, r, l2)
<1>1. PICK full \in BOOLEAN :
        /\ ~full => GetActiveSessionCount(m2, q) < HardLimit
        /\ n # <<>> /\ s = Head(n) /\ a = ss[s].acct /\ base \in 0 .. MaxBase
        /\ m[a] = NoSession /\ m2 = [m EXCEPT ![a] = s]
        /\ ss2 \in [Slots -> Sessions \cup {NoSession}]
        /\ \A t \in Slots : t # s => ss2[t] = ss[t]
        /\ \/ /\ ss2[s] = [ss[s] EXCEPT !.inQueue = TRUE, !.hadQueue = TRUE]
              /\ r = [q EXCEPT ![QueueOf(a)] = Inserted(@, [prio |-> base, s |-> s])]
              /\ l2 = l
           \/ /\ ss2[s] = [ss[s] EXCEPT !.passed = TRUE, !.skipped = full]
              /\ r = q /\ l2 = [l EXCEPT ![GetQueueIndex(a)] = @ + 1]
  <2> DEFINE full == l[GetQueueIndex(a)] >= MaxPop[GetQueueIndex(a)]
                     \/ GetActiveSessionCount(m2, q) >= HardLimit
  <2>1. ~full => GetActiveSessionCount(m2, q) < HardLimit
    <3>1. q \in [Region -> Seq(Entries)] /\ IsFiniteSet(Listed(m2))
      <4>1. Listed(m2) \in SUBSET Accounts
        BY DEF Listed
      <4> QED
        BY <4>1, FS_Subset, LoginAssumption DEF Good, Sound, TablesOK
    <3>2. Cardinality(Listed(m2)) \in Nat
      BY <3>1, FS_CardinalityType
    <3>3. Queued(q) \in Nat
      BY ActiveCount DEF Good
    <3>4. GetActiveSessionCount(m2, q) \in Int
      BY <3>2, <3>3 DEF GetActiveSessionCount
    <3> QED
      BY <3>4, LoginAssumption
  <2> WITNESS full \in BOOLEAN
  <2> HIDE DEF full
  <2> QED
    BY <2>1 DEF Adds, full
<1>2. /\ Sound(priorityQueue, n, m, d, ss, q, l)
      /\ Cardinality(Entered(m, ss)) <= Bound(priorityQueue)
  BY DEF Good
<1>3. s \in Slots /\ ss[s] \in Sessions /\ ~ss[s].inQueue /\ ~ss[s].passed
  <2>1. n \in Seq(Slots) /\ \A k, j \in 1 .. Len(n) : n[k] = n[j] => k = j
    BY <1>2 DEF Sound, TablesOK, OwnInv
  <2>2. 1 \in 1 .. Len(n) /\ s = n[1] /\ s \in Slots
    BY <1>1, <2>1, FirstLeaves
  <2>3. ss[s] # NoSession /\ ~ss[s].inQueue /\ ~ss[s].passed
    BY <1>2, <2>2 DEF Sound, OwnInv
  <2> QED
    BY <1>2, <2>2, <2>3 DEF Sound, TablesOK
<1>4. \A j \in Region : q[j] \in Seq(Entries) /\ Distinct(q[j]) /\ s \notin Waiting(q[j])
  BY <1>2, <1>3 DEF Sound, TablesOK, WaitInv
<1>5. q \in [Region -> Seq(Entries)]
  BY <1>2 DEF Sound, TablesOK
<1>6. NoSession \notin Sessions
  BY LoginAssumption
<1>7. CASE /\ ss2[s] = [ss[s] EXCEPT !.inQueue = TRUE, !.hadQueue = TRUE]
           /\ r = [q EXCEPT ![QueueOf(a)] = Inserted(@, [prio |-> base, s |-> s])]
           /\ l2 = l
  <2>1. PICK e : e = [prio |-> base, s |-> s]
    OBVIOUS
  <2>2. e \in Entries /\ e.s = s
    BY <1>1, <1>3, <2>1 DEF Entries
  <2>3. PICK i \in Region : i = QueueOf(a)
    BY RegionFacts
  <2>4. PICK z : z = Inserted(q[i], e)
    OBVIOUS
  <2>5. z \in Seq(Entries) /\ Distinct(z) /\ Waiting(z) = Waiting(q[i]) \cup {s}
    BY <1>4, <2>2, <2>4, InsertOne
  <2>6. r = [q EXCEPT ![i] = z]
    BY <1>7, <2>1, <2>3, <2>4
  <2>7. /\ r \in [Region -> Seq(Entries)] /\ \A j \in Region : Distinct(r[j])
        /\ \A j \in Region : Waiting(r[j]) = IF j = i THEN Waiting(q[j]) \cup {s}
                                             ELSE Waiting(q[j])
    BY <1>4, <1>5, <2>5, <2>6
  <2>8. /\ ss2[s] \in Sessions /\ ss2[s].acct = ss[s].acct
        /\ ss2[s].inQueue /\ ss2[s].passed = ss[s].passed
        /\ ss2[s].loading = ss[s].loading /\ ss2[s].inWorld = ss[s].inWorld
    BY <1>3, <1>7 DEF Sessions
  <2>9. /\ ss2[s] # NoSession /\ ss2[s].acct = a /\ ss2[s].inQueue /\ ~ss2[s].passed
        /\ (ss2[s].loading <=> ss[s].loading) /\ (ss2[s].inWorld <=> ss[s].inWorld)
    BY <1>1, <1>3, <1>6, <2>8
  <2>10. Joins(s, a, n, m, ss, q, l, m2, ss2, r, l2)
    BY <1>1, <1>7, <2>3, <2>7, <2>9 DEF Joins
  <2>11. Sound(priorityQueue, Tail(n), m2, d, ss2, r, l2) /\ Entered(m2, ss2) = Entered(m, ss)
    BY <1>2, <2>9, <2>10, Join
  <2> QED
    BY <1>2, <2>11 DEF Good
<1>8. CASE /\ ss2[s] = [ss[s] EXCEPT !.passed = TRUE, !.skipped = full]
           /\ r = q /\ l2 = [l EXCEPT ![GetQueueIndex(a)] = @ + 1]
  <2>1. /\ ss2[s] \in Sessions /\ ss2[s].acct = ss[s].acct
        /\ ss2[s].inQueue = ss[s].inQueue /\ ss2[s].passed
        /\ ss2[s].loading = ss[s].loading /\ ss2[s].inWorld = ss[s].inWorld
        /\ ss2[s].skipped = full
    BY <1>3, <1>8 DEF Sessions
  <2>2. /\ ss2[s] # NoSession /\ ss2[s].acct = a /\ ~ss2[s].inQueue /\ ss2[s].passed
        /\ (ss2[s].loading <=> ss[s].loading) /\ (ss2[s].inWorld <=> ss[s].inWorld)
        /\ (ss2[s].skipped <=> full)
    BY <1>1, <1>3, <1>6, <2>1
  <2>3. Joins(s, a, n, m, ss, q, l, m2, ss2, r, l2)
    BY <1>1, <1>4, <1>5, <1>8, <2>2 DEF Joins
  <2>4. /\ Sound(priorityQueue, Tail(n), m2, d, ss2, r, l2)
        /\ ss2[s].inQueue \/ ss2[s].skipped => Entered(m2, ss2) = Entered(m, ss)
    BY <1>2, <2>3, Join
  <2>5. Cardinality(Entered(m2, ss2)) <= Bound(priorityQueue)
    <3>1. CASE full
      BY <1>2, <2>2, <2>4, <3>1
    <3>2. CASE ~full
      <4>1. Sound(priorityQueue, Tail(n), m2, d, ss2, q, l2)
        BY <1>8, <2>4
      <4>2. /\ Cardinality(Entered(m2, ss2)) \in Nat
            /\ Cardinality(Playing(m2, ss2)) \in Nat
            /\ Cardinality(Entered(m2, ss2)) <= Cardinality(Playing(m2, ss2))
            /\ Cardinality(Playing(m2, ss2)) = Cardinality(Listed(m2)) - Queued(q)
        BY <4>1, ActiveCount
      <4>3. Cardinality(Playing(m2, ss2)) < HardLimit
        BY <1>1, <3>2, <4>2 DEF GetActiveSessionCount
      <4> QED
        BY <4>2, <4>3, BoundIsNat, LoginAssumption
    <3> QED
      BY <3>1, <3>2
  <2> QED
    BY <2>4, <2>5 DEF Good
<1> QED
  BY <1>1, <1>7, <1>8

-----------------------------------------------------------------------------
(* Every step keeps the invariant.                                         *)

(* Changes of a session that the tables do not depend on keep them good.   *)
LEMMA FlagsGood ==
  ASSUME NEW n, NEW m, NEW d, NEW ss, NEW q, NEW l, Good(n, m, d, ss, q, l),
         NEW ss2 \in [Slots -> Sessions \cup {NoSession}],
         \A s \in Slots : ss[s] = NoSession => ss2[s] = NoSession,
         \A s \in Slots : ss[s] # NoSession => Same(ss[s], ss2[s])
  PROVE  Good(n, m, d, ss2, q, l)
<1>1. Sound(priorityQueue, n, m, d, ss, q, l)
  BY DEF Good
<1>2. Sound(priorityQueue, n, m, d, ss2, q, l) /\ Entered(m, ss2) = Entered(m, ss)
  BY <1>1, FlagsKeep
<1> QED
  BY <1>2 DEF Good

(* A session is the same as itself.                                        *)
LEMMA SameSelf ==
  ASSUME NEW n, NEW m, NEW d, NEW ss, NEW q, NEW l, Good(n, m, d, ss, q, l),
         NEW s \in Slots, ss[s] # NoSession
  PROVE  Same(ss[s], ss[s])
  BY DEF Good, Sound, PlayInv, Same

(* What the steps need to know of the session of an account.               *)
LEMMA ListedSession ==
  ASSUME LoginInv, NEW a \in Listed(m_sessions)
  PROVE  /\ a \in Accounts /\ m_sessions[a] \in Slots
         /\ sess[m_sessions[a]] # NoSession /\ sess[m_sessions[a]] \in Sessions
         /\ sess[m_sessions[a]].acct = a
         /\ sess[m_sessions[a]].inQueue \/ sess[m_sessions[a]].passed
         /\ m_sessions[a] \notin m_disconnectedSessions
         /\ sess[m_sessions[a]].loading \/ sess[m_sessions[a]].inWorld
                => sess[m_sessions[a]].passed
         /\ ~(sess[m_sessions[a]].passed /\ sess[m_sessions[a]].inQueue)
<1>1. a \in Accounts /\ m_sessions[a] \in Slots
  BY DEF LoginInv, Good, Sound, TablesOK, Listed
<1>2. /\ sess[m_sessions[a]] # NoSession /\ sess[m_sessions[a]].acct = a
      /\ sess[m_sessions[a]].inQueue \/ sess[m_sessions[a]].passed
      /\ m_sessions[a] \notin m_disconnectedSessions
  BY DEF LoginInv, Good, Sound, OwnInv
<1>3. sess[m_sessions[a]] \in Sessions
  BY <1>1, <1>2 DEF LoginInv, Good, Sound, TablesOK
<1>4. /\ sess[m_sessions[a]].loading \/ sess[m_sessions[a]].inWorld
                => sess[m_sessions[a]].passed
      /\ ~(sess[m_sessions[a]].passed /\ sess[m_sessions[a]].inQueue)
  BY <1>1, <1>2 DEF LoginInv, Good, Sound, PlayInv
<1> QED
  BY <1>1, <1>2, <1>3, <1>4

(* The parts of the invariant, put together after a step.                  *)
LEMMA Together ==
  ASSUME priorityQueue' = priorityQueue, ScalarsOK', TickInv',
         Good(addSessQueue', m_sessions', m_disconnectedSessions', sess', queue', logged')
  PROVE  LoginInv'
  BY DEF LoginInv, Good

(* A network thread hands a new session to addSessQueue.                   *)
LEMMA HandleAuthSessionStep ==
  ASSUME LoginInv, NEW a \in Accounts, NEW s \in Slots, HandleAuthSession(a, s)
  PROVE  LoginInv'
<1> USE DEF HandleAuthSession, counts, tick
<1>1. PICK v : v = [acct |-> a, open |-> TRUE, inQueue |-> FALSE, hadQueue |-> FALSE,
                    passed |-> FALSE, loading |-> FALSE, inWorld |-> FALSE,
                    timer |-> 0, skipped |-> FALSE]
  OBVIOUS
<1>2. v \in Sessions /\ ~v.inQueue /\ ~v.passed /\ ~v.loading /\ ~v.inWorld
  BY <1>1, LoginAssumption DEF Sessions
<1>3. sess' = [sess EXCEPT ![s] = v] /\ addSessQueue' = Append(addSessQueue, s)
  BY <1>1
<1>4. /\ Sound(priorityQueue, addSessQueue, m_sessions, m_disconnectedSessions,
               sess, queue, logged)
      /\ Cardinality(Entered(m_sessions, sess)) <= Bound(priorityQueue)
  BY DEF LoginInv, Good
<1>5. /\ Sound(priorityQueue, addSessQueue', m_sessions, m_disconnectedSessions,
               sess', queue, logged)
      /\ Entered(m_sessions, sess') = Entered(m_sessions, sess)
  <2> HIDE DEF HandleAuthSession
  <2>1. sess[s] = NoSession
    BY DEF HandleAuthSession
  <2>2. Arrives(s, v, addSessQueue, sess, addSessQueue', sess')
    BY <1>2, <1>3, <2>1 DEF Arrives
  <2> QED
    BY <1>4, <2>2, Arrive
<1>6. Good(addSessQueue', m_sessions', m_disconnectedSessions', sess', queue', logged')
  BY <1>4, <1>5 DEF Good
<1>7. ScalarsOK' /\ TickInv' /\ priorityQueue' = priorityQueue
  BY DEF LoginInv, ScalarsOK, TickInv, Listed
<1> QED
  BY <1>6, <1>7, Together

(* A socket is lost: only the open flag of its session changes.            *)
LEMMA SocketClosesStep ==
  ASSUME LoginInv, NEW s \in Slots, SocketCloses(s)
  PROVE  LoginInv'
<1> USE DEF SocketCloses, counts, tick
<1>1. Good(addSessQueue, m_sessions, m_disconnectedSessions, sess, queue, logged)
  BY DEF LoginInv
<1>2. sess \in [Slots -> Sessions \cup {NoSession}]
  BY <1>1 DEF Good, Sound, TablesOK
<1>3. /\ sess' \in [Slots -> Sessions \cup {NoSession}]
      /\ \A t \in Slots : t # s => sess'[t] = sess[t]
      /\ sess'[s] = [sess[s] EXCEPT !.open = FALSE] /\ sess[s] \in Sessions
      /\ sess'[s] \in Sessions
  <2>1. sess[s] \in Sessions
    BY <1>2
  <2>2. [sess[s] EXCEPT !.open = FALSE] \in Sessions
    BY <2>1 DEF Sessions
  <2> QED
    BY <1>2, <2>1, <2>2
<1>4. Same(sess[s], sess'[s])
  <2>1. Same(sess[s], sess[s])
    BY <1>1, SameSelf
  <2>2. /\ sess'[s].acct = sess[s].acct /\ sess'[s].inQueue = sess[s].inQueue
        /\ sess'[s].passed = sess[s].passed /\ sess'[s].skipped = sess[s].skipped
        /\ sess'[s].loading = sess[s].loading /\ sess'[s].inWorld = sess[s].inWorld
    BY <1>3 DEF Sessions
  <2>3. sess'[s] # NoSession
    BY <1>3, LoginAssumption
  <2> QED
    BY <2>1, <2>2, <2>3 DEF Same
<1>5. \A t \in Slots : sess[t] # NoSession => Same(sess[t], sess'[t])
  BY <1>1, <1>3, <1>4, SameSelf
<1>6. \A t \in Slots : sess[t] = NoSession => sess'[t] = NoSession
  BY <1>3
<1>7. Good(addSessQueue, m_sessions, m_disconnectedSessions, sess', queue, logged)
  BY <1>1, <1>3, <1>5, <1>6, FlagsGood
<1>8. ScalarsOK' /\ TickInv' /\ priorityQueue' = priorityQueue
  BY DEF LoginInv, ScalarsOK, TickInv, Listed
<1> QED
  BY <1>7, <1>8, Together

(* The grace period of an account ends: no table changes.                  *)
LEMMA GraceExpiresStep ==
  ASSUME LoginInv, NEW a \in Accounts, GraceExpires(a)
  PROVE  LoginInv'
<1> USE DEF GraceExpires, tables, tick
<1>1. ScalarsOK' /\ TickInv' /\ priorityQueue' = priorityQueue
  BY DEF LoginInv, ScalarsOK, TickInv, Listed
<1>2. Good(addSessQueue', m_sessions', m_disconnectedSessions', sess', queue', logged')
  BY DEF LoginInv
<1> QED
  BY <1>1, <1>2, Together

(* The loop over m_sessions starts with the accounts listed in it.         *)
LEMMA AddedAllStep ==
  ASSUME LoginInv, AddedAll
  PROVE  LoginInv'
<1> USE DEF AddedAll, tables, counts
<1>1. ScalarsOK' /\ TickInv' /\ priorityQueue' = priorityQueue
  BY DEF LoginInv, ScalarsOK, TickInv, Listed
<1>2. Good(addSessQueue', m_sessions', m_disconnectedSessions', sess', queue', logged')
  BY DEF LoginInv
<1> QED
  BY <1>1, <1>2, Together

(* A tick starts with the populations of that moment.                      *)
LEMMA NextTickStep ==
  ASSUME LoginInv, NextTick
  PROVE  LoginInv'
<1> USE DEF NextTick, tables
<1>1. Good(addSessQueue', m_sessions', m_disconnectedSessions', sess', queue', logged')
  BY DEF LoginInv
<1>2. logged \in [Region -> Nat]
  BY DEF LoginInv, Good, Sound, CountInv
<1>3. m_playerLimit' \in Nat
  BY LoginAssumption DEF LoginInv, ScalarsOK, Lesser
<1>4. ScalarsOK' /\ TickInv' /\ priorityQueue' = priorityQueue
  BY <1>2, <1>3 DEF LoginInv, ScalarsOK, TickInv, Listed
<1> QED
  BY <1>1, <1>4, Together

(* One session gets a new value v.                                         *)
LEMMA OneChanges ==
  ASSUME LoginInv, NEW s \in Slots, NEW v \in Sessions, sess[s] # NoSession,
         Same(sess[s], v), NEW ss2, ss2 = [sess EXCEPT ![s] = v]
  PROVE  Good(addSessQueue, m_sessions, m_disconnectedSessions, ss2, queue, logged)
<1>1. Good(addSessQueue, m_sessions, m_disconnectedSessions, sess, queue, logged)
  BY DEF LoginInv
<1>2. sess \in [Slots -> Sessions \cup {NoSession}]
  BY <1>1 DEF Good, Sound, TablesOK
<1>3. /\ ss2 \in [Slots -> Sessions \cup {NoSession}] /\ ss2[s] = v
      /\ \A t \in Slots : t # s => ss2[t] = sess[t]
  BY <1>2
<1>4. \A t \in Slots : sess[t] # NoSession => Same(sess[t], ss2[t])
  BY <1>1, <1>3, SameSelf
<1>5. \A t \in Slots : sess[t] = NoSession => ss2[t] = NoSession
  BY <1>3
<1> QED
  BY <1>1, <1>3, <1>4, <1>5, FlagsGood

(* WorldSession::Update of a session that stays.                           *)
LEMMA StaysStep ==
  ASSUME LoginInv, NEW a \in Accounts, Stays(a)
  PROVE  LoginInv'
<1>1. PICK s : s = m_sessions[a]
  OBVIOUS
<1>2. a \in Listed(m_sessions)
  BY DEF Stays, LoginInv, ScalarsOK
<1>3. /\ s \in Slots /\ sess[s] # NoSession /\ sess[s] \in Sessions
      /\ sess[s].inQueue \/ sess[s].passed
      /\ sess[s].loading \/ sess[s].inWorld => sess[s].passed
  BY <1>1, <1>2, ListedSession
<1>4. NoSession \notin Sessions
  BY LoginAssumption
<1>5. Good(addSessQueue, m_sessions, m_disconnectedSessions, sess', queue, logged)
  <2>1. CASE sess' = sess
    BY <2>1 DEF LoginInv
  <2>2. CASE /\ ~sess[s].inQueue /\ ~sess[s].inWorld /\ ~sess[s].loading
             /\ sess' = [sess EXCEPT ![s].loading = TRUE]
    <3>1. PICK v : v = [sess[s] EXCEPT !.loading = TRUE]
      OBVIOUS
    <3>2. /\ v \in Sessions /\ v.acct = sess[s].acct /\ v.inQueue = sess[s].inQueue
          /\ v.passed = sess[s].passed /\ v.skipped = sess[s].skipped
      BY <1>3, <3>1 DEF Sessions
    <3>3. Same(sess[s], v)
      BY <1>3, <1>4, <2>2, <3>2 DEF Same
    <3>4. sess' = [sess EXCEPT ![s] = v]
      BY <2>2, <3>1
    <3> QED
      BY <1>3, <3>2, <3>3, <3>4, OneChanges
  <2>3. CASE sess[s].inWorld /\ sess' = [sess EXCEPT ![s].inWorld = FALSE]
    <3>1. PICK v : v = [sess[s] EXCEPT !.inWorld = FALSE]
      OBVIOUS
    <3>2. /\ v \in Sessions /\ v.acct = sess[s].acct /\ v.inQueue = sess[s].inQueue
          /\ v.passed = sess[s].passed /\ v.skipped = sess[s].skipped
      BY <1>3, <3>1 DEF Sessions
    <3>3. Same(sess[s], v)
      BY <1>3, <1>4, <2>3, <3>2 DEF Same
    <3>4. sess' = [sess EXCEPT ![s] = v]
      BY <2>3, <3>1
    <3> QED
      BY <1>3, <3>2, <3>3, <3>4, OneChanges
  <2> QED
    BY <1>1, <2>1, <2>2, <2>3 DEF Stays
<1>6. ScalarsOK' /\ TickInv' /\ priorityQueue' = priorityQueue
  BY DEF Stays, counts, LoginInv, ScalarsOK, TickInv, Listed
<1>7. Good(addSessQueue', m_sessions', m_disconnectedSessions', sess', queue', logged')
  BY <1>5 DEF Stays, counts
<1> QED
  BY <1>6, <1>7, Together

(* A character enters the world, or is taken over from a disconnected      *)
(* session.                                                                *)
LEMMA HandlePlayerLoginStep ==
  ASSUME LoginInv, NEW a \in Accounts, HandlePlayerLogin(a)
  PROVE  LoginInv'
<1>1. PICK s : s = m_sessions[a]
  OBVIOUS
<1>2. a \in Listed(m_sessions) /\ sess[s].loading
  BY <1>1 DEF HandlePlayerLogin, Listed
<1>3. /\ s \in Slots /\ sess[s] # NoSession /\ sess[s] \in Sessions
      /\ s \notin m_disconnectedSessions /\ sess[s].passed
  BY <1>1, <1>2, ListedSession
<1>4. NoSession \notin Sessions
  BY LoginAssumption
<1>5. Good(addSessQueue, m_sessions, m_disconnectedSessions, sess, queue, logged)
  BY DEF LoginInv
<1>6. sess \in [Slots -> Sessions \cup {NoSession}]
  BY <1>5 DEF Good, Sound, TablesOK
<1>7. PICK v : v = [sess[s] EXCEPT !.loading = FALSE, !.inWorld = TRUE]
  OBVIOUS
<1>8. v \in Sessions /\ Same(sess[s], v)
  <2>1. /\ v \in Sessions /\ v.acct = sess[s].acct /\ v.inQueue = sess[s].inQueue
        /\ v.passed = sess[s].passed /\ v.skipped = sess[s].skipped
    BY <1>3, <1>7 DEF Sessions
  <2> QED
    BY <1>3, <1>4, <2>1 DEF Same
<1>9. Good(addSessQueue, m_sessions, m_disconnectedSessions, sess', queue, logged)
  <2>1. CASE sess' = [sess EXCEPT ![s].loading = FALSE, ![s].inWorld = TRUE]
    <3>1. sess' = [sess EXCEPT ![s] = v]
      BY <1>3, <1>6, <1>7, <2>1
    <3> QED
      BY <1>3, <1>8, <3>1, OneChanges
  <2>2. ASSUME NEW d \in m_disconnectedSessions,
               sess' = [sess EXCEPT ![s].loading = FALSE, ![s].inWorld = TRUE,
                                    ![d].inWorld = FALSE]
        PROVE  Good(addSessQueue, m_sessions, m_disconnectedSessions, sess', queue, logged)
    <3>1. d \in Slots /\ d # s /\ sess[d] # NoSession /\ sess[d].passed
      BY <1>3, <1>5 DEF Good, Sound, TablesOK, OwnInv
    <3>2. PICK w : w = [sess[d] EXCEPT !.inWorld = FALSE]
      OBVIOUS
    <3>3. sess[d] \in Sessions
      BY <1>6, <3>1
    <3>4. /\ w \in Sessions /\ w.acct = sess[d].acct /\ w.inQueue = sess[d].inQueue
          /\ w.passed = sess[d].passed /\ w.skipped = sess[d].skipped
      BY <3>2, <3>3 DEF Sessions
    <3>5. Same(sess[d], w)
      BY <1>4, <3>1, <3>4 DEF Same
    <3>6. /\ sess'[s] = v /\ sess'[d] = w
          /\ \A t \in Slots : t # s /\ t # d => sess'[t] = sess[t]
      BY <1>3, <1>6, <1>7, <2>2, <3>1, <3>2
    <3>7. sess' \in [Slots -> Sessions \cup {NoSession}]
      <4>1. sess' = [[sess EXCEPT ![s] = v] EXCEPT ![d] = w]
        BY <1>3, <1>6, <1>7, <2>2, <3>1, <3>2
      <4> QED
        BY <1>6, <1>8, <3>4, <4>1
    <3>8. \A t \in Slots : sess[t] # NoSession => Same(sess[t], sess'[t])
      BY <1>5, <1>8, <3>5, <3>6, SameSelf
    <3>9. \A t \in Slots : sess[t] = NoSession => sess'[t] = NoSession
      BY <1>3, <3>1, <3>6
    <3> QED
      BY <1>5, <3>7, <3>8, <3>9, FlagsGood
  <2>3. CASE sess' = [sess EXCEPT ![s].loading = FALSE, ![s].open = FALSE]
    <3>1. PICK w : w = [sess[s] EXCEPT !.loading = FALSE, !.open = FALSE]
      OBVIOUS
    <3>2. /\ w \in Sessions /\ w.acct = sess[s].acct /\ w.inQueue = sess[s].inQueue
          /\ w.passed = sess[s].passed /\ w.skipped = sess[s].skipped
      BY <1>3, <3>1 DEF Sessions
    <3>3. Same(sess[s], w)
      BY <1>3, <1>4, <3>2 DEF Same
    <3>4. sess' = [sess EXCEPT ![s] = w]
      BY <1>3, <1>6, <2>3, <3>1
    <3> QED
      BY <1>3, <3>2, <3>3, <3>4, OneChanges
  <2> QED
    BY <1>1, <2>1, <2>2, <2>3 DEF HandlePlayerLogin
<1>10. ScalarsOK' /\ TickInv' /\ priorityQueue' = priorityQueue
  BY DEF HandlePlayerLogin, counts, tick, LoginInv, ScalarsOK, TickInv, Listed
<1>11. Good(addSessQueue', m_sessions', m_disconnectedSessions', sess', queue', logged')
  BY <1>9 DEF HandlePlayerLogin, counts
<1> QED
  BY <1>10, <1>11, Together

(* A session moves from m_sessions to m_disconnectedSessions.              *)
LEMMA SetSessionDisconnectedStep ==
  ASSUME LoginInv, NEW a \in Accounts, SetSessionDisconnected(a)
  PROVE  LoginInv'
<1>1. PICK s : s = m_sessions[a]
  OBVIOUS
<1>2. a \in Listed(m_sessions) /\ sess[s].inWorld
  BY <1>1 DEF SetSessionDisconnected, LoginInv, ScalarsOK
<1>3. /\ s \in Slots /\ sess[s] # NoSession /\ sess[s] \in Sessions
      /\ sess[s].passed /\ ~sess[s].inQueue
  BY <1>1, <1>2, ListedSession
<1>4. /\ Sound(priorityQueue, addSessQueue, m_sessions, m_disconnectedSessions,
               sess, queue, logged)
      /\ Cardinality(Entered(m_sessions, sess)) <= Bound(priorityQueue)
  BY DEF LoginInv, Good
<1>5. LeftQueues(queue, queue, {s})
  <2>1. queue \in [Region -> Seq(Entries)] /\ \A i \in Region : Distinct(queue[i])
    BY <1>4 DEF Sound, TablesOK, WaitInv
  <2>2. \A i \in Region : s \notin Waiting(queue[i])
    BY <1>3, <1>4 DEF Sound, WaitInv
  <2> QED
    BY <2>1, <2>2 DEF LeftQueues
<1>6. PICK v : v = [sess[s] EXCEPT !.timer = LogoutTicks]
  OBVIOUS
<1>7. v \in Sessions /\ Same(sess[s], v)
  <2>1. LogoutTicks \in 0 .. LogoutTicks
    BY LoginAssumption
  <2>2. /\ v \in Sessions /\ v.acct = sess[s].acct /\ v.inQueue = sess[s].inQueue
        /\ v.passed = sess[s].passed /\ v.skipped = sess[s].skipped
    BY <1>3, <1>6, <2>1 DEF Sessions
  <2>3. v # NoSession
    BY <2>2, LoginAssumption
  <2> QED
    BY <1>3, <2>2, <2>3 DEF Same
<1>8. /\ sess' = [sess EXCEPT ![s] = v]
      /\ m_sessions' = [m_sessions EXCEPT ![a] = NoSession]
      /\ m_disconnectedSessions' = m_disconnectedSessions \cup {s}
      /\ UNCHANGED <<priorityQueue, addSessQueue, queue, logged, m_playerLimit, pc, pops>>
  BY <1>1, <1>6 DEF SetSessionDisconnected
<1>9. /\ sess' \in [Slots -> Sessions \cup {NoSession}] /\ sess'[s] = v
      /\ \A t \in Slots : t # s => sess'[t] = sess[t]
  BY <1>3, <1>4, <1>7, <1>8 DEF Sound, TablesOK
<1>10. Departs(a, m_sessions, m_disconnectedSessions, sess, queue, logged,
               m_sessions', m_disconnectedSessions', sess', queue', logged')
  BY <1>1, <1>2, <1>5, <1>7, <1>8, <1>9 DEF Departs
<1>11. /\ Sound(priorityQueue, addSessQueue, m_sessions', m_disconnectedSessions',
                sess', queue', logged')
       /\ Entered(m_sessions', sess') = Entered(m_sessions, sess) \ {a}
       /\ Listed(m_sessions') = Listed(m_sessions) \ {a}
  BY <1>4, <1>10, Depart
<1>12. Cardinality(Entered(m_sessions', sess')) <= Bound(priorityQueue)
  <2>1. /\ IsFiniteSet(Entered(m_sessions, sess))
        /\ Cardinality(Entered(m_sessions, sess)) \in Nat
    BY <1>4, ActiveCount, FS_Subset
  <2>2. Cardinality(Entered(m_sessions', sess')) <= Cardinality(Entered(m_sessions, sess))
    BY <1>11, <2>1, FS_Subset
  <2>3. Cardinality(Entered(m_sessions', sess')) \in Nat
    BY <1>11, ActiveCount
  <2> QED
    BY <1>4, <2>1, <2>2, <2>3, BoundIsNat
<1>13. Good(addSessQueue', m_sessions', m_disconnectedSessions', sess', queue', logged')
  BY <1>8, <1>11, <1>12 DEF Good
<1>14. todo' \in SUBSET Listed(m_sessions')
  <2>1. todo' \in SUBSET (todo \ {a})
    BY DEF SetSessionDisconnected, AfterErase
  <2> QED
    BY <1>11, <2>1 DEF LoginInv, ScalarsOK
<1>15. graced' \in SUBSET Accounts
  BY DEF SetSessionDisconnected, LoginInv, ScalarsOK
<1>16. Listed(m_sessions)' = Listed(m_sessions')
  BY DEF Listed
<1>17. ScalarsOK' /\ TickInv' /\ priorityQueue' = priorityQueue
  BY <1>8, <1>14, <1>15, <1>16 DEF LoginInv, ScalarsOK, TickInv
<1> QED
  BY <1>13, <1>17, Together

(* Disconnected sessions are deleted, and counted down once each.          *)
LEMMA UpdateDisconnectedStep ==
  ASSUME LoginInv, UpdateDisconnected
  PROVE  LoginInv'
<1>1. PICK over \in SUBSET m_disconnectedSessions :
      /\ \A d \in m_disconnectedSessions : ~sess[d].inWorld \/ sess[d].timer = 0 => d \in over
      /\ m_disconnectedSessions' = m_disconnectedSessions \ over
      /\ sess' = [s \in Slots |->
            CASE s \in over -> NoSession
              [] s \in m_disconnectedSessions \ over ->
                    [sess[s] EXCEPT !.timer = @ - 1]
              [] OTHER -> sess[s]]
      /\ logged' = CountDown(logged, sess, over)
      /\ pc' = "results"
      /\ UNCHANGED <<priorityQueue, addSessQueue, m_sessions, queue,
                     m_playerLimit, graced, pops, todo>>
  <2>1. PICK away \in SUBSET m_disconnectedSessions :
          UpdateDisconnected!(away)
    BY DEF UpdateDisconnected
  <2> QED
    BY <2>1
<1>2. /\ m_disconnectedSessions' = m_disconnectedSessions \ over
      /\ sess' = [s \in Slots |->
            CASE s \in over -> NoSession
              [] s \in m_disconnectedSessions \ over ->
                    [sess[s] EXCEPT !.timer = @ - 1]
              [] OTHER -> sess[s]]
      /\ logged' = CountDown(logged, sess, over)
      /\ pc' = "results"
      /\ UNCHANGED <<priorityQueue, addSessQueue, m_sessions, queue,
                     m_playerLimit, graced, pops, todo>>
  BY <1>1
<1>3. /\ Sound(priorityQueue, addSessQueue, m_sessions, m_disconnectedSessions,
               sess, queue, logged)
      /\ Cardinality(Entered(m_sessions, sess)) <= Bound(priorityQueue)
  BY DEF LoginInv, Good
<1>4. m_disconnectedSessions \in SUBSET Slots /\ over \in SUBSET m_disconnectedSessions
  BY <1>1, <1>3 DEF Sound, TablesOK
<1>5. /\ \A s \in over : sess'[s] = NoSession
      /\ \A s \in m_disconnectedSessions \ over :
            sess'[s] = [sess[s] EXCEPT !.timer = sess[s].timer - 1]
      /\ \A s \in Slots : s \notin m_disconnectedSessions => sess'[s] = sess[s]
  BY <1>2, <1>4
<1>6. ASSUME NEW s \in m_disconnectedSessions \ over
      PROVE  sess'[s] \in Sessions /\ Same(sess[s], sess'[s])
  <2>1. s \in Slots /\ sess[s] # NoSession /\ sess[s].passed /\ sess[s].timer # 0
    BY <1>1, <1>3, <1>4, <1>6 DEF Sound, OwnInv
  <2>2. sess[s] \in Sessions
    BY <1>3, <2>1 DEF Sound, TablesOK
  <2>3. sess[s].timer - 1 \in 0 .. LogoutTicks
    <3>1. sess[s].timer \in 0 .. LogoutTicks
      BY <2>2 DEF Sessions
    <3> QED
      BY <2>1, <3>1, LoginAssumption
  <2>4. PICK v : v = [sess[s] EXCEPT !.timer = sess[s].timer - 1]
    OBVIOUS
  <2>5. /\ v \in Sessions /\ v.acct = sess[s].acct /\ v.inQueue = sess[s].inQueue
        /\ v.passed = sess[s].passed /\ v.skipped = sess[s].skipped
    BY <2>2, <2>3, <2>4 DEF Sessions
  <2>6. v # NoSession
    BY <2>5, LoginAssumption
  <2>7. Same(sess[s], v)
    BY <2>1, <2>5, <2>6 DEF Same
  <2> QED
    BY <1>5, <1>6, <2>4, <2>5, <2>7
<1>7. sess' \in [Slots -> Sessions \cup {NoSession}]
  <2>1. \A s \in Slots : sess'[s] \in Sessions \cup {NoSession}
    BY <1>3, <1>5, <1>6 DEF Sound, TablesOK
  <2>2. sess' = [s \in Slots |-> sess'[s]]
    BY <1>2
  <2> QED
    BY <2>1, <2>2
<1>8. /\ Sound(priorityQueue, addSessQueue, m_sessions, m_disconnectedSessions \ over,
               sess', queue, logged')
      /\ Entered(m_sessions, sess') = Entered(m_sessions, sess)
  <2>1. \A s \in m_disconnectedSessions \ over : Same(sess[s], sess'[s])
    BY <1>6
  <2>2. logged' = CountDown(logged, sess, over)
    BY <1>2
  <2> QED
    BY <1>3, <1>4, <1>5, <1>7, <2>1, <2>2, Expire
<1>9. Good(addSessQueue', m_sessions', m_disconnectedSessions', sess', queue', logged')
  BY <1>2, <1>3, <1>8 DEF Good
<1>10. ScalarsOK' /\ TickInv' /\ priorityQueue' = priorityQueue
  BY <1>2 DEF LoginInv, ScalarsOK, TickInv, Listed
<1> QED
  BY <1>9, <1>10, Together

(* The destructor counts what it reads of the session.                     *)
LEMMA CountDownSame ==
  ASSUME NEW l, NEW x, NEW y, NEW s, x[s] = y[s]
  PROVE  CountDown(l, x, {s}) = CountDown(l, y, {s})
<1>1. {t \in {s} : x[t].passed} = {t \in {s} : y[t].passed}
  OBVIOUS
<1>2. \A i : PassedOf(i, x, {t \in {s} : x[t].passed})
                = PassedOf(i, y, {t \in {s} : y[t].passed})
  <2> TAKE i
  <2>1. {u \in {t \in {s} : x[t].passed} : GetQueueIndex(x[u].acct) = i}
            = {u \in {t \in {s} : y[t].passed} : GetQueueIndex(y[u].acct) = i}
    OBVIOUS
  <2> QED
    BY <2>1 DEF PassedOf
<1> QED
  BY <1>2 DEF CountDown

(* A session is deleted, leaves its queue and may let another one in.      *)
LEMMA RemoveSessionStep ==
  ASSUME LoginInv, NEW a \in Accounts, RemoveSession(a)
  PROVE  LoginInv'
<1>1. PICK s : s = m_sessions[a]
  OBVIOUS
<1>2. PICK v : v = RemoveQueuedSession(s)
  OBVIOUS
<1>3. PICK ss1 : ss1 = OnPassedQueue(sess, v.popped)
  OBVIOUS
<1>4. /\ a \in todo
      /\ graced' \in SUBSET (graced \cup {a})
      /\ queue' = v.queue
      /\ logged' = CountDown(CountUp(logged, sess, v.popped), sess, {s})
      /\ sess' = [ss1 EXCEPT ![s] = NoSession]
      /\ m_sessions' = [m_sessions EXCEPT ![a] = NoSession]
      /\ todo' = todo \ {a} /\ pc = "update"
      /\ UNCHANGED <<priorityQueue, addSessQueue, m_disconnectedSessions,
                     m_playerLimit, pc, pops>>
  BY <1>1, <1>2, <1>3 DEF RemoveSession
<1>5. a \in Listed(m_sessions)
  BY <1>4 DEF LoginInv, ScalarsOK
<1>6. Good(addSessQueue, m_sessions, m_disconnectedSessions, sess, queue, logged)
  BY DEF LoginInv
<1>7. s \in Slots /\ ss1[s] = sess[s] /\ ss1 \in [Slots -> Sessions \cup {NoSession}]
  BY <1>1, <1>2, <1>3, <1>5, <1>6, PoppedWaits
<1>8. logged' = CountDown(CountUp(logged, sess, v.popped), ss1, {s})
  BY <1>4, <1>7, CountDownSame
<1>9. /\ sess' \in [Slots -> Sessions \cup {NoSession}] /\ sess'[s] = NoSession
      /\ \A t \in Slots : t # s => sess'[t] = ss1[t]
  BY <1>4, <1>7
<1>10. Leaves(a, v, m_disconnectedSessions, m_sessions', m_disconnectedSessions', sess', logged')
  BY <1>1, <1>2, <1>3, <1>4, <1>8, <1>9 DEF Leaves
<1>11. Good(addSessQueue, m_sessions', m_disconnectedSessions', sess', v.queue, logged')
  BY <1>5, <1>6, <1>10, LeavesGood
<1>12. Good(addSessQueue', m_sessions', m_disconnectedSessions', sess', queue', logged')
  BY <1>4, <1>11
<1>13. Listed(m_sessions)' = Listed(m_sessions) \ {a}
  <2>1. m_sessions \in [Accounts -> Slots \cup {NoSession}]
    BY <1>6 DEF Good, Sound, TablesOK
  <2> QED
    BY <1>4, <2>1 DEF Listed
<1>14. ScalarsOK' /\ TickInv' /\ priorityQueue' = priorityQueue
  BY <1>4, <1>13 DEF LoginInv, ScalarsOK, TickInv
<1> QED
  BY <1>12, <1>14, Together

(* A round of AcceptQueued lets the first sessions of a queue in.          *)
LEMMA AcceptQueuedStep ==
  ASSUME LoginInv, NEW i \in Region, AcceptQueued(i)
  PROVE  LoginInv'
<1>1. /\ pc = IF i = 0 THEN "regional" ELSE "nonregional"
      /\ pc' = IF i = 0 THEN "nonregional" ELSE "add"
      /\ pops' = IF i = 0 THEN pops ELSE [r \in Region |-> 0]
      /\ UNCHANGED <<priorityQueue, addSessQueue, m_sessions,
                     m_disconnectedSessions, graced, todo>>
  BY DEF AcceptQueued
<1>2. Good(addSessQueue, m_sessions, m_disconnectedSessions, sess, queue, logged)
  BY DEF LoginInv
<1>3. logged \in [Region -> Nat]
  BY <1>2 DEF Good, Sound, CountInv
<1>4. /\ Good(addSessQueue, m_sessions, m_disconnectedSessions, sess', queue', logged')
      /\ m_playerLimit' \in Nat /\ \A j \in Region : logged'[j] >= logged[j]
  <2>1. CASE UNCHANGED <<m_playerLimit, queue, sess, logged>>
    BY <1>2, <1>3, <2>1 DEF LoginInv, ScalarsOK
  <2>2. CASE priorityQueue /\ pops[i] < MaxPop[i] /\ queue[i] # <<>> /\ LoginPerTick # 0
    <3> DEFINE limit == Lesser(m_playerLimit + LoginPerTick,
                               pops[0] + pops[1] + LoginPerTick)
               full == RoundIsFull(limit)
               n == IF full THEN 0 ELSE Lesser(LoginPerTick, Len(queue[i]))
               G == {queue[i][k].s : k \in 1 .. n}
               w == [k \in 1 .. Len(queue[i]) - n |->
                        [queue[i][k + n] EXCEPT !.prio = Lesser(@ + 1, MaxBase)]]
    <3>1. /\ m_playerLimit' = IF full THEN HardLimit ELSE limit
          /\ queue' = [queue EXCEPT ![i] = w]
          /\ sess' = OnPassedQueue(sess, G)
          /\ logged' = CountUp(logged, sess, G)
      BY <2>2 DEF AcceptQueued
    <3>2. queue \in [Region -> Seq(Entries)] /\ Distinct(queue[i])
          /\ \A j \in Region : Distinct(queue[j])
      BY <1>2 DEF Good, Sound, TablesOK, WaitInv
    <3>3. queue[i] \in Seq(Entries) /\ Len(queue[i]) \in Nat
      BY <3>2
    <3>4. n \in 0 .. Len(queue[i]) /\ n <= LoginPerTick /\ n \in Nat
      BY <3>3, LoginAssumption DEF Lesser
    <3>5. m_playerLimit' \in Nat
      <4>1. pops[0] \in Nat /\ pops[1] \in Nat /\ m_playerLimit \in Nat
        BY RegionFacts DEF LoginInv, ScalarsOK
      <4>2. limit \in Nat
        BY <4>1, LoginAssumption DEF Lesser
      <4> QED
        BY <3>1, <4>2, LoginAssumption
    <3>6. full \/ GetActiveSessionCount(m_sessions, queue) < HardLimit
      <4>1. Cardinality(Listed(m_sessions)) \in Nat /\ Queued(queue) \in Nat
        BY <1>2, ActiveCount DEF Good
      <4>2. GetActiveSessionCount(m_sessions, queue) \in Int
        BY <4>1 DEF GetActiveSessionCount
      <4> QED
        BY <4>2, LoginAssumption DEF RoundIsFull
    <3>7. full => n = 0
      OBVIOUS
    <3> HIDE DEF limit, full, n
    <3>8. /\ w \in Seq(Entries) /\ Distinct(w) /\ G \in SUBSET Waiting(queue[i])
          /\ Waiting(w) = Waiting(queue[i]) \ G /\ Len(w) = Len(queue[i]) - n
      BY <3>2, <3>3, <3>4, DropSome
    <3> HIDE DEF w, G
    <3>9. LeftQueues(queue, queue', G)
      <4>1. \A j \in Region : j # i => Waiting(queue[j]) = Waiting(queue[j]) \ G
        BY <1>2, <3>8 DEF Good, Sound, WaitInv
      <4> QED
        BY <3>1, <3>2, <3>8, <4>1 DEF LeftQueues
    <3>10. /\ Sound(priorityQueue, addSessQueue, m_sessions, m_disconnectedSessions,
                    sess', queue', logged')
           /\ \A j \in Region : logged'[j] >= logged[j]
      <4>1. Sound(priorityQueue, addSessQueue, m_sessions, m_disconnectedSessions,
                  sess, queue, logged)
        BY <1>2 DEF Good
      <4> QED
        BY <3>1, <3>8, <3>9, <4>1, Admit
    <3>11. Cardinality(Entered(m_sessions, sess')) <= Bound(priorityQueue)
      <4>1. CASE full
        <5>1. G = {}
          BY <3>7, <4>1 DEF G
        <5>2. sess \in [Slots -> Sessions \cup {NoSession}]
          BY <1>2 DEF Good, Sound, TablesOK
        <5>3. sess' = sess
          BY <3>1, <5>1, <5>2 DEF OnPassedQueue
        <5> QED
          BY <1>2, <5>3 DEF Good
      <4>2. CASE ~full
        <5>1. Queued(queue') = Queued(queue) - n /\ Queued(queue) \in Nat
          <6>1. queue'[i] = w /\ \A j \in Region : j # i => queue'[j] = queue[j]
            BY <3>1, <3>2
          <6>2. \A j \in Region : Len(queue[j]) \in Nat
            BY <3>2
          <6>3. Len(queue[0]) \in Nat /\ Len(queue[1]) \in Nat
            BY <6>2, RegionFacts
          <6>4. \/ Len(queue'[0]) = Len(queue[0]) - n /\ Len(queue'[1]) = Len(queue[1])
                \/ Len(queue'[0]) = Len(queue[0]) /\ Len(queue'[1]) = Len(queue[1]) - n
            BY <3>8, <6>1, RegionFacts
          <6>5. \A x, y, k \in Nat : /\ x + y \in Nat
                                     /\ (x - k) + y = (x + y) - k
                                     /\ x + (y - k) = (x + y) - k
            OBVIOUS
          <6>6. /\ Queued(queue) = Len(queue[0]) + Len(queue[1])
                /\ Queued(queue') = Len(queue'[0]) + Len(queue'[1])
            BY DEF Queued
          <6> HIDE DEF Queued
          <6>7. CASE Len(queue'[0]) = Len(queue[0]) - n /\ Len(queue'[1]) = Len(queue[1])
            <7>1. (Len(queue[0]) - n) + Len(queue[1]) = (Len(queue[0]) + Len(queue[1])) - n
              BY <3>4, <6>3, <6>5
            <7>2. Len(queue[0]) + Len(queue[1]) \in Nat
              BY <6>3, <6>5
            <7>3. Queued(queue') = (Len(queue[0]) - n) + Len(queue[1])
              BY <6>6, <6>7
            <7> QED
              BY <6>6, <7>1, <7>2, <7>3
          <6>8. CASE Len(queue'[0]) = Len(queue[0]) /\ Len(queue'[1]) = Len(queue[1]) - n
            <7>1. Len(queue[0]) + (Len(queue[1]) - n) = (Len(queue[0]) + Len(queue[1])) - n
              BY <3>4, <6>3, <6>5
            <7>2. Len(queue[0]) + Len(queue[1]) \in Nat
              BY <6>3, <6>5
            <7>3. Queued(queue') = Len(queue[0]) + (Len(queue[1]) - n)
              BY <6>6, <6>8
            <7> QED
              BY <6>6, <7>1, <7>2, <7>3
          <6> QED
            BY <6>4, <6>7, <6>8
        <5>2. /\ Cardinality(Listed(m_sessions)) \in Nat
              /\ Cardinality(Entered(m_sessions, sess')) \in Nat
              /\ Cardinality(Playing(m_sessions, sess')) \in Nat
              /\ Cardinality(Entered(m_sessions, sess')) <= Cardinality(Playing(m_sessions, sess'))
              /\ Cardinality(Playing(m_sessions, sess')) =
                    Cardinality(Listed(m_sessions)) - Queued(queue')
          <6>1. Sound(priorityQueue, addSessQueue, m_sessions, m_disconnectedSessions,
                    sess', queue', logged')
            BY <3>10
          <6> QED
            BY <6>1, ActiveCount
        <5>3. Cardinality(Listed(m_sessions)) - Queued(queue) < HardLimit
          BY <3>6, <4>2 DEF GetActiveSessionCount
        <5>4. Cardinality(Playing(m_sessions, sess')) < HardLimit + LoginPerTick
          BY <3>4, <5>1, <5>2, <5>3, LoginAssumption
        <5>5. Bound(priorityQueue) = HardLimit + (LoginPerTick - 1)
          BY <2>2 DEF Bound
        <5>6. LoginPerTick \in Nat /\ HardLimit \in Nat
          BY LoginAssumption
        <5>7. \A x, y, h, p \in Nat : x <= y /\ y < h + p => x <= h + (p - 1)
          OBVIOUS
        <5> QED
          BY <5>2, <5>4, <5>5, <5>6, <5>7
      <4> QED
        BY <4>1, <4>2
    <3> QED
      BY <3>5, <3>10, <3>11 DEF Good
  <2> QED
    BY <2>1, <2>2 DEF AcceptQueued
<1>5. Good(addSessQueue', m_sessions', m_disconnectedSessions', sess', queue', logged')
  BY <1>1, <1>4
<1>6. TickInv'
  <2>1. CASE i = 0
    <3>1. \A j \in Region : pops[j] <= logged[j]
      BY <1>1, <2>1 DEF LoginInv, TickInv
    <3>2. \A j \in Region : logged'[j] \in Nat /\ pops[j] \in Nat
      BY <1>4 DEF Good, Sound, CountInv, LoginInv, ScalarsOK
    <3>3. \A j \in Region : pops'[j] <= logged'[j]
      BY <1>1, <1>3, <1>4, <2>1, <3>1, <3>2
    <3> QED
      BY <3>3 DEF TickInv
  <2>2. CASE i # 0
    BY <1>1, <2>2 DEF TickInv
  <2> QED
    BY <2>1, <2>2
<1>7. pops' \in [Region -> Nat]
  BY <1>1 DEF LoginInv, ScalarsOK
<1>8. ScalarsOK' /\ priorityQueue' = priorityQueue
  BY <1>1, <1>4, <1>7 DEF LoginInv, ScalarsOK, Listed
<1> QED
  BY <1>5, <1>6, <1>8, Together

(* AddSession_: the session the account had departs, the new one joins.    *)
LEMMA AddSessionStep ==
  ASSUME LoginInv, NEW teleporting \in BOOLEAN, NEW base \in 0 .. MaxBase,
         AddSession(teleporting, base)
  PROVE  LoginInv'
<1> DEFINE s == Head(addSessQueue)
           a == sess[s].acct
           old == m_sessions[a]
           gone == IF old = NoSession
                   THEN [queue |-> queue, popped |-> {}] ELSE RemoveQueuedSession(old)
           stays == old # NoSession /\ sess[old].inWorld /\ ~teleporting
           deleted == IF old # NoSession /\ ~stays THEN {old} ELSE {}
           members == [m_sessions EXCEPT ![a] = s]
           ss == OnPassedQueue(sess, gone.popped)
           l == CountDown(CountUp(logged, sess, gone.popped), ss, deleted)
           g == IF stays /\ sess[old].hadQueue THEN graced \cup {a} ELSE graced
           i == GetQueueIndex(a)
           full == \/ l[i] >= MaxPop[i]
                   \/ GetActiveSessionCount(members, gone.queue) >= HardLimit
           waits == full /\ ~CanSkipQueue(a, g)
           joined == IF waits
                     THEN [sess[s] EXCEPT !.inQueue = TRUE, !.hadQueue = TRUE]
                     ELSE [sess[s] EXCEPT !.passed = TRUE, !.skipped = full]
<1>1. /\ pc = "add" /\ addSessQueue # <<>> /\ addSessQueue' = Tail(addSessQueue)
      /\ IF old # NoSession /\ sess[old].loading
         THEN /\ sess' = [sess EXCEPT ![s] = NoSession]
              /\ UNCHANGED <<m_sessions, m_disconnectedSessions, counts>>
         ELSE /\ m_sessions' = members
              /\ m_disconnectedSessions' = IF stays THEN m_disconnectedSessions \cup {old}
                                           ELSE m_disconnectedSessions
              /\ sess' = [t \in Slots |->
                      CASE t = s -> joined
                        [] t \in deleted -> NoSession
                        [] t = old /\ stays ->
                              [ss[t] EXCEPT !.open = FALSE, !.timer = LogoutTicks]
                        [] OTHER -> ss[t]]
              /\ graced' = g
              /\ queue' = IF waits
                          THEN [gone.queue EXCEPT ![QueueOf(a)] =
                                  Inserted(@, [prio |-> base, s |-> s])]
                          ELSE gone.queue
              /\ logged' = IF waits THEN l ELSE [l EXCEPT ![i] = @ + 1]
              /\ UNCHANGED m_playerLimit
      /\ UNCHANGED <<priorityQueue, tick>>
  BY DEF AddSession, NoRoom
<1>2. stays \in BOOLEAN /\ full \in BOOLEAN /\ waits \in BOOLEAN
  OBVIOUS
<1>3. stays => old # NoSession /\ sess[old].inWorld
  OBVIOUS
<1>4. /\ old = NoSession => gone = [queue |-> queue, popped |-> {}]
      /\ old # NoSession => gone = RemoveQueuedSession(old)
  OBVIOUS
<1>5. /\ old # NoSession /\ ~stays => deleted = {old}
      /\ old = NoSession \/ stays => deleted = {}
  OBVIOUS
<1>6. g \in SUBSET (graced \cup {a})
  OBVIOUS
<1>7. /\ waits => joined = [sess[s] EXCEPT !.inQueue = TRUE, !.hadQueue = TRUE]
      /\ ~waits => joined = [sess[s] EXCEPT !.passed = TRUE, !.skipped = full]
  OBVIOUS
<1>8. /\ Good(addSessQueue, m_sessions, m_disconnectedSessions, sess, queue, logged)
      /\ Sound(priorityQueue, addSessQueue, m_sessions, m_disconnectedSessions,
               sess, queue, logged)
      /\ Cardinality(Entered(m_sessions, sess)) <= Bound(priorityQueue)
  BY DEF LoginInv, Good
<1>9. /\ s \in Slots /\ sess[s] # NoSession /\ sess[s] \in Sessions
      /\ ~sess[s].inQueue /\ ~sess[s].passed
  <2>1. /\ addSessQueue \in Seq(Slots)
        /\ \A k, j \in 1 .. Len(addSessQueue) : addSessQueue[k] = addSessQueue[j] => k = j
    BY <1>8 DEF Sound, TablesOK, OwnInv
  <2>2. 1 \in 1 .. Len(addSessQueue) /\ s = addSessQueue[1] /\ s \in Slots
    BY <1>1, <2>1, FirstLeaves
  <2>3. sess[s] # NoSession /\ ~sess[s].inQueue /\ ~sess[s].passed
    BY <1>8, <2>2 DEF Sound, OwnInv
  <2> QED
    BY <1>8, <2>2, <2>3 DEF Sound, TablesOK
<1>10. a \in Accounts
  BY <1>9 DEF Sessions
<1>11. /\ m_sessions \in [Accounts -> Slots \cup {NoSession}]
       /\ sess \in [Slots -> Sessions \cup {NoSession}] /\ logged \in [Region -> Nat]
  BY <1>8 DEF Sound, TablesOK, CountInv
<1>12. s # NoSession
  BY <1>9, LoginAssumption
<1>15. /\ old # s
       /\ old # NoSession => /\ a \in Listed(m_sessions) /\ old \in Slots
                             /\ sess[old] # NoSession /\ sess[old] \in Sessions
                             /\ sess[old].loading \/ sess[old].inWorld => sess[old].passed
  <2> HIDE DEF s, a
  <2>1. CASE old = NoSession
    BY <1>12, <2>1
  <2>2. CASE old # NoSession
    <3>1. a \in Listed(m_sessions)
      BY <1>10, <2>2 DEF Listed
    <3> QED
      BY <1>9, <2>2, <3>1, ListedSession
  <2> QED
    BY <2>1, <2>2
<1>13. CASE old # NoSession /\ sess[old].loading
  <2>1. /\ sess' = [sess EXCEPT ![Head(addSessQueue)] = NoSession]
        /\ UNCHANGED <<m_sessions, m_disconnectedSessions, queue, logged,
                       m_playerLimit, graced>>
    BY <1>1, <1>13 DEF counts
  <2>2. /\ Sound(priorityQueue, Tail(addSessQueue), m_sessions, m_disconnectedSessions,
                 sess', queue, logged)
        /\ Entered(m_sessions, sess') = Entered(m_sessions, sess)
    <3> HIDE DEF s, a, old, gone, stays, deleted, members, ss, l, g, i, full, waits, joined
    <3>1. addSessQueue # <<>>
      BY <1>1
    <3>2. Sound(priorityQueue, addSessQueue, m_sessions, m_disconnectedSessions,
                sess, queue, logged)
      BY <1>8
    <3>3. sess' = [sess EXCEPT ![Head(addSessQueue)] = NoSession]
      BY <2>1
    <3>4. Refused(addSessQueue, sess, sess')
      BY <3>1, <3>3 DEF Refused
    <3> QED
      BY <3>2, <3>4, Refuse
  <2>3. Good(addSessQueue', m_sessions', m_disconnectedSessions', sess', queue', logged')
    BY <1>1, <1>8, <2>1, <2>2 DEF Good
  <2>4. ScalarsOK' /\ TickInv' /\ priorityQueue' = priorityQueue
    BY <1>1, <2>1 DEF tick, LoginInv, ScalarsOK, TickInv, Listed
  <2> QED
    BY <2>3, <2>4, Together
<1>14. CASE ~(old # NoSession /\ sess[old].loading)
  <2>1. /\ m_sessions' = [m_sessions EXCEPT ![a] = s]
        /\ stays => m_disconnectedSessions' = m_disconnectedSessions \cup {old}
        /\ ~stays => m_disconnectedSessions' = m_disconnectedSessions
        /\ graced' = g
        /\ waits => /\ queue' = [gone.queue EXCEPT ![QueueOf(a)] =
                                   Inserted(@, [prio |-> base, s |-> s])]
                    /\ logged' = l
        /\ ~waits => queue' = gone.queue /\ logged' = [l EXCEPT ![i] = @ + 1]
        /\ UNCHANGED <<m_playerLimit, priorityQueue, pc, pops, todo>>
    BY <1>1, <1>14 DEF tick
  <2>2. sess' = [t \in Slots |->
                    CASE t = s -> joined
                      [] t \in deleted -> NoSession
                      [] t = old /\ stays ->
                            [ss[t] EXCEPT !.open = FALSE, !.timer = LogoutTicks]
                      [] OTHER -> ss[t]]
    BY <1>1, <1>14
  <2>3. /\ sess'[s] = joined
        /\ \A t \in Slots : t # s /\ t # old => sess'[t] = ss[t]
        /\ old \in Slots /\ old # s /\ stays =>
             sess'[old] = [ss[old] EXCEPT !.open = FALSE, !.timer = LogoutTicks]
        /\ old \in Slots /\ old # s /\ old # NoSession /\ ~stays => sess'[old] = NoSession
    <3>0. /\ \A t \in Slots : t = s => sess'[t] = joined
          /\ \A t \in Slots : t # s /\ t \in deleted => sess'[t] = NoSession
          /\ \A t \in Slots : t # s /\ t \notin deleted /\ t = old /\ stays =>
                sess'[t] = [ss[t] EXCEPT !.open = FALSE, !.timer = LogoutTicks]
          /\ \A t \in Slots : t # s /\ t \notin deleted /\ ~(t = old /\ stays) =>
                sess'[t] = ss[t]
      <4> HIDE DEF s, a, old, gone, stays, deleted, ss, joined
      <4>1. ASSUME NEW t \in Slots
            PROVE  sess'[t] = CASE t = s -> joined
                                [] t \in deleted -> NoSession
                                [] t = old /\ stays ->
                                      [ss[t] EXCEPT !.open = FALSE, !.timer = LogoutTicks]
                                [] OTHER -> ss[t]
        BY <2>2
      <4>2. ASSUME NEW t \in Slots, t = s PROVE sess'[t] = joined
        <5>1. t \notin deleted /\ ~(t = old /\ stays)
          BY <1>2, <1>5, <1>15, <4>2
        <5> QED
          BY <4>1, <4>2, <5>1
      <4>3. ASSUME NEW t \in Slots, t # s, t \in deleted PROVE sess'[t] = NoSession
        <5>1. ~(t = old /\ stays)
          BY <1>3, <1>5, <4>3
        <5> QED
          BY <4>1, <4>3, <5>1
      <4>4. ASSUME NEW t \in Slots, t # s, t \notin deleted, t = old, stays
            PROVE  sess'[t] = [ss[t] EXCEPT !.open = FALSE, !.timer = LogoutTicks]
        BY <4>1, <4>4
      <4>5. ASSUME NEW t \in Slots, t # s, t \notin deleted, ~(t = old /\ stays)
            PROVE  sess'[t] = ss[t]
        BY <4>1, <4>5
      <4> QED
        BY <4>2, <4>3, <4>4, <4>5
    <3> HIDE DEF s, a, old, gone, stays, deleted, ss, joined
    <3>1. \A t : t \in deleted => t = old
      BY <1>5
    <3> QED
      BY <1>2, <1>3, <1>5, <1>9, <3>0, <3>1
  <2>4. joined \in Sessions
    <3> HIDE DEF s, a, waits, full, joined
    <3> QED
      BY <1>2, <1>7, <1>9 DEF Sessions
  <2>5. ss \in [Slots -> Sessions \cup {NoSession}] /\ ss[s] = sess[s]
    <3>1. CASE old = NoSession
      <4>1. ss = sess
        BY <1>4, <1>11, <3>1 DEF OnPassedQueue
      <4> QED
        BY <1>11, <4>1
    <3>2. CASE old # NoSession
      <4>1. a \in Listed(m_sessions)
        BY <1>10, <3>2 DEF Listed
      <4>2. /\ ss \in [Slots -> Sessions \cup {NoSession}]
            /\ \A t \in gone.popped : sess[t].inQueue
        <5> HIDE DEF s, a, gone
        <5>1. gone = RemoveQueuedSession(m_sessions[a])
          BY <1>4, <3>2
        <5> QED
          BY <1>8, <4>1, <5>1, PoppedWaits
      <4>3. s \notin gone.popped
        BY <1>9, <4>2
      <4> QED
        BY <1>9, <4>2, <4>3 DEF OnPassedQueue
    <3> QED
      BY <3>1, <3>2
  <2>6. l[i] >= MaxPop[i] \/ GetActiveSessionCount(m_sessions', gone.queue) >= HardLimit <=> full
    BY <2>1
  <2>10. /\ old = NoSession => gone.queue = queue /\ ss = sess /\ l = logged
         /\ old # NoSession => /\ ss[old] = sess[old]
                               /\ CountUp(logged, sess, gone.popped) \in [Region -> Nat]
    <3>1. ASSUME old = NoSession PROVE gone.queue = queue /\ ss = sess /\ l = logged
      <4>1. gone.queue = queue /\ gone.popped = {} /\ deleted = {}
        BY <3>1, <1>4, <1>5
      <4>2. ss = OnPassedQueue(sess, {})
        BY <4>1
      <4>3. ss = sess
        BY <1>11, <4>2 DEF OnPassedQueue
      <4>4. l = CountDown(CountUp(logged, sess, {}), ss, {})
        BY <4>1
      <4> HIDE DEF l, ss, gone, deleted
      <4> QED
        BY <1>11, <4>1, <4>3, <4>4, NobodyCounted
    <3>2. ASSUME old # NoSession
          PROVE  /\ ss[old] = sess[old]
                 /\ CountUp(logged, sess, gone.popped) \in [Region -> Nat]
      <4> HIDE DEF s, a, gone
      <4>1. gone = RemoveQueuedSession(m_sessions[a]) /\ a \in Listed(m_sessions)
        BY <1>4, <1>15, <3>2
      <4> QED
        BY <1>8, <4>1, PoppedWaits
    <3> QED
      BY <3>1, <3>2
  <2> HIDE DEF s, a, old, gone, stays, deleted, members, ss, l, g, i, full, waits, joined
  <2>7. Good(addSessQueue', m_sessions', m_disconnectedSessions', sess', queue', logged')
    <3>1. sess' \in [Slots -> Sessions \cup {NoSession}]
      <4>1. ASSUME NEW t \in Slots PROVE sess'[t] \in Sessions \cup {NoSession}
        <5>1. CASE t = s
          BY <2>3, <2>4, <5>1
        <5>2. CASE t # s /\ t # old
          BY <2>3, <2>5, <5>2
        <5>3. CASE t # s /\ t = old /\ ~stays
          BY <1>15, <2>3, <5>3, LoginAssumption
        <5>4. CASE t # s /\ t = old /\ stays
          <6>1. ss[old] \in Sessions
            <7>1. ss[old] # NoSession
              BY <1>3, <1>8, <1>15, <2>10, <5>4
            <7> QED
              BY <1>15, <2>5, <5>4, <7>1
          <6>2. LogoutTicks \in 0 .. LogoutTicks
            BY LoginAssumption
          <6>3. sess'[t] = [ss[old] EXCEPT !.open = FALSE, !.timer = LogoutTicks]
            BY <1>15, <2>3, <5>4
          <6> QED
            BY <6>1, <6>2, <6>3 DEF Sessions
        <5> QED
          BY <1>2, <5>1, <5>2, <5>3, <5>4
      <4>2. sess' = [t \in Slots |-> sess'[t]]
        <5> DEFINE F(t) == CASE t = s -> joined
                             [] t \in deleted -> NoSession
                             [] t = old /\ stays ->
                                   [ss[t] EXCEPT !.open = FALSE, !.timer = LogoutTicks]
                             [] OTHER -> ss[t]
        <5>1. sess' = [t \in Slots |-> F(t)]
          BY <2>2
        <5> HIDE DEF F
        <5> QED
          BY <5>1
      <4> QED
        BY <4>1, <4>2
    <3>3. CASE old = NoSession
      <4>1. gone.queue = queue /\ l = logged /\ ~stays
        BY <1>3, <3>3, <2>10
      <4>2. \A t \in Slots : t # s => sess'[t] = sess[t]
        BY <2>3, <2>10, <3>3, LoginAssumption
      <4>3. m_sessions[a] = NoSession
        BY <3>3 DEF old
      <4>4. Adds(base, s, a, addSessQueue, m_sessions, sess, queue, logged,
                 m_sessions', sess', queue', logged')
        BY <1>1, <1>7, <2>1, <2>3, <2>6, <3>1, <4>1, <4>2, <4>3 DEF Adds, s, a, i
      <4>5. Good(Tail(addSessQueue), m_sessions', m_disconnectedSessions, sess', queue', logged')
        BY <1>8, <4>4, AddedGood
      <4> QED
        BY <1>1, <2>1, <4>1, <4>5
    <3>4. CASE old # NoSession
      <4>1. PICK ss2 : ss2 = [sess' EXCEPT ![s] = sess[s]]
        OBVIOUS
      <4>2. PICK m1 : m1 = [m_sessions EXCEPT ![a] = NoSession]
        OBVIOUS
      <4>3. /\ ss2 \in [Slots -> Sessions \cup {NoSession}] /\ ss2[s] = sess[s]
            /\ \A t \in Slots : t # s => ss2[t] = sess'[t]
        BY <1>9, <3>1, <4>1
      <4>4. Leaves(a, gone, m_disconnectedSessions, m1, m_disconnectedSessions', ss2, l)
        <5>1. PICK l1 : l1 = CountUp(logged, sess, gone.popped)
          OBVIOUS
        <5>2. l1 \in [Region -> Nat] /\ l = CountDown(l1, ss, deleted)
          BY <2>10, <3>4, <5>1 DEF l
        <5>3. /\ gone = RemoveQueuedSession(m_sessions[a]) /\ old = m_sessions[a]
              /\ ss = OnPassedQueue(sess, gone.popped)
          BY <1>4, <3>4 DEF old, ss
        <5>4. \A t \in Slots : t # old => ss2[t] = ss[t]
          BY <2>3, <2>5, <4>3
        <5>5. CASE ~stays
          <6>1. /\ ss2[old] = NoSession /\ m_disconnectedSessions' = m_disconnectedSessions
                /\ l = CountDown(l1, ss, {old})
            BY <1>5, <1>15, <2>1, <2>3, <3>4, <4>3, <5>2, <5>5
          <6> QED
            BY <4>2, <4>3, <5>1, <5>3, <5>4, <6>1 DEF Leaves
        <5>6. CASE stays
          <6>1. m_disconnectedSessions' = m_disconnectedSessions \cup {old} /\ l = l1
            <7>1. l = CountDown(l1, ss, {})
              BY <1>5, <5>2, <5>6
            <7> QED
              BY <2>1, <5>2, <5>6, <7>1, NobodyCounted
          <6>2. ss[old].inWorld /\ ss[old] \in Sessions
            BY <1>3, <1>15, <2>10, <3>4, <5>6
          <6>3. ss2[old] = [ss[old] EXCEPT !.open = FALSE, !.timer = LogoutTicks]
            BY <1>15, <2>3, <3>4, <4>3, <5>6
          <6>4. Same(ss[old], ss2[old])
            <7>1. LogoutTicks \in 0 .. LogoutTicks
              BY LoginAssumption
            <7>2. /\ ss2[old] \in Sessions /\ ss2[old].acct = ss[old].acct
                  /\ ss2[old].inQueue = ss[old].inQueue /\ ss2[old].passed = ss[old].passed
                  /\ ss2[old].skipped = ss[old].skipped
              BY <6>2, <6>3, <7>1 DEF Sessions
            <7>3. ss[old].passed
              BY <1>15, <2>10, <3>4, <6>2
            <7>4. ss2[old] # NoSession
              BY <7>2, LoginAssumption
            <7> QED
              BY <7>2, <7>3, <7>4 DEF Same
          <6> QED
            BY <4>2, <4>3, <5>1, <5>3, <5>4, <6>1, <6>2, <6>4 DEF Leaves
        <5> QED
          BY <1>2, <5>5, <5>6
      <4>5. Good(addSessQueue, m1, m_disconnectedSessions', ss2, gone.queue, l)
        BY <1>8, <1>15, <3>4, <4>4, LeavesGood
      <4>6. m1[a] = NoSession /\ m_sessions' = [m1 EXCEPT ![a] = s]
        BY <1>10, <1>11, <2>1, <4>2
      <4>7. a = ss2[s].acct
        BY <4>3 DEF a
      <4>8. Adds(base, s, a, addSessQueue, m1, ss2, gone.queue, l,
                 m_sessions', sess', queue', logged')
        BY <1>1, <1>7, <2>1, <2>3, <2>6, <3>1, <4>3, <4>6, <4>7 DEF Adds, s, i
      <4>9. Good(Tail(addSessQueue), m_sessions', m_disconnectedSessions', sess', queue', logged')
        BY <4>5, <4>8, AddedGood
      <4> QED
        BY <1>1, <4>9
    <3> QED
      BY <3>3, <3>4
  <2>8. Listed(m_sessions)' = Listed(m_sessions) \cup {a}
    BY <1>10, <1>11, <1>12, <2>1 DEF Listed
  <2>9. ScalarsOK' /\ TickInv' /\ priorityQueue' = priorityQueue
    BY <1>1, <1>6, <1>10, <2>1, <2>8 DEF LoginInv, ScalarsOK, TickInv
  <2> QED
    BY <2>7, <2>9, Together
<1> QED
  BY <1>13, <1>14

(* A step that changes nothing.                                            *)
LEMMA StutterKeeps ==
  ASSUME LoginInv, UNCHANGED vars
  PROVE  LoginInv'
<1> USE DEF vars, tables, counts, tick
<1>1. ScalarsOK' /\ TickInv' /\ priorityQueue' = priorityQueue
  BY DEF LoginInv, ScalarsOK, TickInv, Listed
<1>2. Good(addSessQueue', m_sessions', m_disconnectedSessions', sess', queue', logged')
  BY DEF LoginInv
<1> QED
  BY <1>1, <1>2, Together

(* At start every table is empty.                                          *)
LEMMA InitLoginInv == Init => LoginInv
<1> SUFFICES ASSUME Init PROVE LoginInv
  OBVIOUS
<1> USE DEF Init
<1>1. Listed(m_sessions) = {} /\ NoSession \notin Slots
  BY LoginAssumption DEF Listed
<1>2. ScalarsOK /\ TickInv
  BY <1>1, LoginAssumption DEF ScalarsOK, TickInv
<1>3. TablesOK(addSessQueue, m_sessions, m_disconnectedSessions, sess, queue)
  BY DEF TablesOK
<1>4. PlayInv(sess) /\ OwnInv(addSessQueue, m_sessions, m_disconnectedSessions, sess)
  BY <1>1 DEF PlayInv, OwnInv
<1>5. WaitInv(priorityQueue, m_sessions, sess, queue)
  <2>1. \A i \in Region : Waiting(queue[i]) = {} /\ Distinct(queue[i])
    BY DEF Waiting, Distinct
  <2> QED
    BY <1>1, <2>1 DEF WaitInv
<1>6. CountInv(sess, logged)
  <2>1. \A i \in Region : Population(sess, i) = {}
    BY DEF Population
  <2> QED
    BY <2>1, FS_EmptySet DEF CountInv
<1>7. Cardinality(Entered(m_sessions, sess)) <= Bound(priorityQueue)
  <2>1. Entered(m_sessions, sess) = {}
    BY <1>1 DEF Entered
  <2>2. Cardinality(Entered(m_sessions, sess)) = 0
    BY <2>1, FS_EmptySet
  <2> QED
    BY <2>2, BoundIsNat
<1> QED
  BY <1>2, <1>3, <1>4, <1>5, <1>6, <1>7 DEF LoginInv, Good, Sound

(* Every step of the world thread, of the network threads and of the       *)
(* answers to character logins keeps the invariant.                        *)
LEMMA NextLoginInv == LoginInv /\ [Next]_vars => LoginInv'
<1> SUFFICES ASSUME LoginInv, [Next]_vars PROVE LoginInv'
  OBVIOUS
<1>1. CASE UNCHANGED vars
  BY <1>1, StutterKeeps
<1>2. CASE WorldThread
  BY <1>2, AcceptQueuedStep, AddSessionStep, AddedAllStep, StaysStep,
     SetSessionDisconnectedStep, RemoveSessionStep, UpdateDisconnectedStep,
     NextTickStep DEF WorldThread
<1>3. CASE Network
  BY <1>3, HandleAuthSessionStep, SocketClosesStep, GraceExpiresStep DEF Network
<1>4. CASE \E a \in Accounts : HandlePlayerLogin(a)
  BY <1>4, HandlePlayerLoginStep
<1> QED
  BY <1>1, <1>2, <1>3, <1>4 DEF Next

-----------------------------------------------------------------------------
(* The properties of the login queue, from the invariant.                  *)

(* The tables of the world thread stay good, for every number of accounts  *)
(* and sessions and every limit: the invariant the properties follow from. *)
THEOREM LoginInvariant == Spec => []LoginInv
  BY InitLoginInv, NextLoginInv, PTL DEF Spec

(* The invariant has the types of the tables.                              *)
LEMMA InvTypeOK == LoginInv => TypeOK
<1> SUFFICES ASSUME LoginInv PROVE TypeOK
  OBVIOUS
<1>1. ScalarsOK /\ logged \in [Region -> Nat]
      /\ TablesOK(addSessQueue, m_sessions, m_disconnectedSessions, sess, queue)
  BY DEF LoginInv, Good, Sound, CountInv
<1> QED
  BY <1>1 DEF TypeOK, ScalarsOK, TablesOK

(* The owners of a session, counted.                                       *)
LEMMA InvOneOwner == LoginInv => OneOwner
<1> SUFFICES ASSUME LoginInv PROVE OneOwner
  OBVIOUS
<1>1. /\ TablesOK(addSessQueue, m_sessions, m_disconnectedSessions, sess, queue)
      /\ OwnInv(addSessQueue, m_sessions, m_disconnectedSessions, sess)
  BY DEF LoginInv, Good, Sound
<1>2. \A a \in Listed(m_sessions) : sess[m_sessions[a]].acct = a
  BY <1>1 DEF OwnInv
<1>3. ASSUME NEW s \in Slots
      PROVE  Owners(s) = IF sess[s] = NoSession THEN 0 ELSE 1
  <2> DEFINE N == {k \in 1 .. Len(addSessQueue) : addSessQueue[k] = s}
             M == {a \in Accounts : m_sessions[a] = s}
             D == {d \in m_disconnectedSessions : d = s}
  <2>1. s # NoSession
    BY LoginAssumption
  <2>2. \A a \in M : a \in Listed(m_sessions) /\ m_sessions[a] = s
    BY <2>1 DEF Listed
  <2>3. \A k, j \in N : k = j
    BY <1>1 DEF OwnInv
  <2>4. \A a, b \in M : a = b
    BY <1>2, <2>2
  <2>5. \A d, e \in D : d = e
    OBVIOUS
  <2>6. sess[s] = NoSession => N = {} /\ M = {} /\ D = {}
    BY <1>1, <2>2 DEF OwnInv
  <2>7. /\ N # {} => M = {} /\ D = {}
        /\ M # {} => D = {}
    BY <1>1, <2>2 DEF OwnInv
  <2>8. ASSUME sess[s] # NoSession PROVE N # {} \/ M # {} \/ D # {}
    <3>1. sess[s].acct \in Accounts
      <4>1. sess[s] \in Sessions
        BY <1>1, <2>8 DEF TablesOK
      <4> QED
        BY <4>1 DEF Sessions
    <3>2. \/ \E k \in 1 .. Len(addSessQueue) : addSessQueue[k] = s
          \/ m_sessions[sess[s].acct] = s
          \/ s \in m_disconnectedSessions
      BY <1>1, <2>8 DEF OwnInv
    <3> QED
      BY <3>1, <3>2
  <2>9. Owners(s) = Cardinality(N) + Cardinality(M) + Cardinality(D)
    BY DEF Owners
  <2> HIDE DEF N, M, D
  <2>10. ASSUME NEW S, \A x, y \in S : x = y, S # {} PROVE Cardinality(S) = 1
    <3>1. PICK x : x \in S
      BY <2>10
    <3>2. S = {x}
      BY <2>10, <3>1
    <3> QED
      BY <3>2, FS_Singleton
  <2>11. /\ N = {} => Cardinality(N) = 0
         /\ M = {} => Cardinality(M) = 0
         /\ D = {} => Cardinality(D) = 0
    BY FS_EmptySet
  <2>12. /\ N # {} => Cardinality(N) = 1
         /\ M # {} => Cardinality(M) = 1
         /\ D # {} => Cardinality(D) = 1
    BY <2>3, <2>4, <2>5, <2>10
  <2>13. CASE sess[s] = NoSession
    BY <2>6, <2>9, <2>11, <2>13
  <2>14. CASE sess[s] # NoSession
    BY <2>7, <2>8, <2>9, <2>11, <2>12, <2>14
  <2> QED
    BY <2>13, <2>14
<1> QED
  BY <1>2, <1>3 DEF OneOwner

(* The counters are the populations.                                       *)
LEMMA InvLogged == LoginInv => LoggedIsPopulation
<1> SUFFICES ASSUME LoginInv, NEW i \in Region
             PROVE  logged[i] = Cardinality({s \in Alive :
                        sess[s].passed /\ GetQueueIndex(sess[s].acct) = i})
  BY DEF LoggedIsPopulation
<1>1. {s \in Alive : sess[s].passed /\ GetQueueIndex(sess[s].acct) = i} = Population(sess, i)
  BY DEF Alive, Population
<1> QED
  BY <1>1 DEF LoginInv, Good, Sound, CountInv

(* The sessions that entered are those the bound is about.                 *)
LEMMA InvBound == LoginInv => PopulationBound
<1> SUFFICES ASSUME LoginInv PROVE PopulationBound
  OBVIOUS
<1>1. Admitted = Entered(m_sessions, sess)
  BY DEF Admitted, Entered
<1>2. Cardinality(Admitted) <= Bound(priorityQueue)
  BY <1>1 DEF LoginInv, Good
<1> QED
  BY <1>2 DEF PopulationBound, Bound

(* A session has one place if it is in a queue, and none otherwise.        *)
LEMMA PlacesOf ==
  ASSUME LoginInv, NEW s
  PROVE  /\ \A i \in Region : s \in Waiting(queue[i]) => Cardinality(Places(s)) = 1
         /\ (\A i \in Region : s \notin Waiting(queue[i])) => Places(s) = {}
<1>1. /\ queue \in [Region -> Seq(Entries)]
      /\ WaitInv(priorityQueue, m_sessions, sess, queue)
  BY DEF LoginInv, Good, Sound, TablesOK
<1>2. \A i \in Region : Len(queue[i]) \in Nat
  BY <1>1
<1>3. Queued(queue) \in Nat /\ \A i \in Region : Len(queue[i]) <= Queued(queue)
  <2>1. Len(queue[0]) \in Nat /\ Len(queue[1]) \in Nat
    BY <1>2, RegionFacts
  <2>2. \A x, y \in Nat : x + y \in Nat /\ x <= x + y /\ y <= x + y
    OBVIOUS
  <2>3. Queued(queue) = Len(queue[0]) + Len(queue[1])
    BY DEF Queued
  <2> QED
    BY <2>1, <2>2, <2>3, RegionFacts
<1>4. ASSUME NEW i \in Region, s \in Waiting(queue[i]) PROVE Cardinality(Places(s)) = 1
  <2>1. PICK k \in 1 .. Len(queue[i]) : queue[i][k].s = s
    BY <1>4 DEF Waiting
  <2>2. k \in 1 .. Queued(queue) /\ k <= Len(queue[i])
    BY <1>2, <1>3
  <2>3. <<i, k>> \in Places(s)
    BY <2>1, <2>2 DEF Places
  <2>4. ASSUME NEW p \in Places(s) PROVE p = <<i, k>>
    <3>1. PICK j \in Region, m \in 1 .. Queued(queue) : p = <<j, m>>
      BY DEF Places
    <3>2. m <= Len(queue[j]) /\ queue[j][m].s = s
      BY <3>1 DEF Places
    <3>3. m \in 1 .. Len(queue[j])
      BY <1>2, <1>3, <3>2
    <3>4. s \in Waiting(queue[j])
      BY <3>2, <3>3 DEF Waiting
    <3>5. j = i
      BY <1>1, <1>4, <3>4 DEF WaitInv
    <3>6. m = k
      BY <1>1, <2>1, <3>2, <3>3, <3>5 DEF WaitInv, Distinct
    <3> QED
      BY <3>1, <3>5, <3>6
  <2>5. Places(s) = {<<i, k>>}
    BY <2>3, <2>4
  <2> QED
    BY <2>5, FS_Singleton
<1>5. ASSUME \A i \in Region : s \notin Waiting(queue[i]), NEW p \in Places(s) PROVE FALSE
  <2>1. PICK j \in Region, m \in 1 .. Queued(queue) : p = <<j, m>>
    BY DEF Places
  <2>2. m <= Len(queue[j]) /\ queue[j][m].s = s
    BY <2>1 DEF Places
  <2>3. m \in 1 .. Len(queue[j])
    BY <1>2, <1>3, <2>2
  <2> QED
    BY <1>5, <2>2, <2>3 DEF Waiting
<1> QED
  BY <1>4, <1>5

(* A listed session waits at one place or has passed.                      *)
LEMMA InvWaitsOrPassed == LoginInv => WaitsOrPassed
<1> SUFFICES ASSUME LoginInv PROVE WaitsOrPassed
  OBVIOUS
<1>1. WaitInv(priorityQueue, m_sessions, sess, queue)
  BY DEF LoginInv, Good, Sound
<1>2. ASSUME NEW s \in Slots, NEW a \in Accounts, m_sessions[a] = s
      PROVE  /\ sess[s].inQueue # sess[s].passed
             /\ sess[s].inQueue => /\ Cardinality(Places(s)) = 1
                                  /\ s \in Waiting(queue[QueueOf(sess[s].acct)])
             /\ sess[s].passed => Places(s) = {}
  <2>1. a \in Listed(m_sessions)
    BY <1>2, LoginAssumption DEF Listed
  <2>2. /\ sess[s] \in Sessions /\ sess[s].acct = a
        /\ sess[s].inQueue \/ sess[s].passed
        /\ ~(sess[s].passed /\ sess[s].inQueue)
    BY <1>2, <2>1, ListedSession
  <2>3. sess[s].inQueue \in BOOLEAN /\ sess[s].passed \in BOOLEAN
    BY <2>2 DEF Sessions
  <2>4. sess[s].inQueue # sess[s].passed
    BY <2>2, <2>3
  <2>5. sess[s].inQueue => s \in Waiting(queue[QueueOf(a)])
    BY <1>1, <1>2, <2>1, RegionFacts DEF WaitInv
  <2>6. sess[s].passed => \A i \in Region : s \notin Waiting(queue[i])
    BY <1>1, <2>2 DEF WaitInv
  <2>7. sess[s].inQueue => Cardinality(Places(s)) = 1
    BY <2>5, PlacesOf, RegionFacts
  <2>8. sess[s].passed => Places(s) = {}
    BY <2>6, PlacesOf
  <2> QED
    BY <2>2, <2>4, <2>5, <2>7, <2>8
<1>3. ASSUME NEW s \in Slots, ~\E a \in Accounts : m_sessions[a] = s
      PROVE  Places(s) = {}
  <2>1. \A i \in Region : s \notin Waiting(queue[i])
    <3> SUFFICES ASSUME NEW i \in Region, s \in Waiting(queue[i]) PROVE FALSE
      OBVIOUS
    <3>1. sess[s] # NoSession /\ m_sessions[sess[s].acct] = s
      BY <1>1 DEF WaitInv
    <3>2. sess[s] \in Sessions
      BY <3>1 DEF LoginInv, Good, Sound, TablesOK
    <3>3. sess[s].acct \in Accounts
      BY <3>2 DEF Sessions
    <3> QED
      BY <1>3, <3>1, <3>3
  <2> QED
    BY <2>1, PlacesOf
<1> QED
  BY <1>2, <1>3 DEF WaitsOrPassed

(* An account is let in again only after a session that had passed.        *)
LEMMA GraceStep ==
  ASSUME LoginInv, [Next]_vars, NEW a \in graced' \ graced
  PROVE  m_sessions[a] # NoSession /\ sess[m_sessions[a]].passed
<1> DEFINE Earned == m_sessions[a] # NoSession /\ sess[m_sessions[a]].passed
<1>1. ASSUME a \in Listed(m_sessions), sess[m_sessions[a]].passed PROVE Earned
  BY <1>1 DEF Listed
<1>2. ASSUME UNCHANGED vars PROVE Earned
  BY <1>2 DEF vars, counts
<1>3. ASSUME NEW teleporting \in BOOLEAN, NEW base \in 0 .. MaxBase,
             AddSession(teleporting, base)
      PROVE  Earned
  <2> DEFINE s == Head(addSessQueue)
             b == sess[s].acct
             old == m_sessions[b]
             stays == old # NoSession /\ sess[old].inWorld /\ ~teleporting
  <2>1. graced' = graced \/ graced' = IF stays /\ sess[old].hadQueue THEN graced \cup {b}
                                      ELSE graced
    BY <1>3 DEF AddSession, counts
  <2>2. a = b /\ stays
    BY <2>1
  <2>3. addSessQueue # <<>> /\ addSessQueue \in Seq(Slots)
        /\ \A k, j \in 1 .. Len(addSessQueue) : addSessQueue[k] = addSessQueue[j] => k = j
    BY <1>3 DEF AddSession, LoginInv, Good, Sound, TablesOK, OwnInv
  <2>4. s \in Slots /\ 1 \in 1 .. Len(addSessQueue) /\ s = addSessQueue[1]
    BY <2>3, FirstLeaves
  <2>5. sess[s] # NoSession
    BY <2>4 DEF LoginInv, Good, Sound, OwnInv
  <2>6. sess[s] \in Sessions
    BY <2>4, <2>5 DEF LoginInv, Good, Sound, TablesOK
  <2>7. b \in Accounts
    BY <2>6 DEF Sessions
  <2>8. a \in Listed(m_sessions) /\ sess[m_sessions[a]].inWorld
    BY <2>2, <2>7 DEF Listed
  <2> HIDE DEF s, b, old, stays
  <2>9. sess[m_sessions[a]].passed
    BY <2>8, ListedSession
  <2> QED
    BY <1>1, <2>8, <2>9
<1>4. ASSUME NEW b \in Accounts, SetSessionDisconnected(b) PROVE Earned
  <2>1. a = b /\ b \in Listed(m_sessions) /\ sess[m_sessions[b]].inWorld
    BY <1>4 DEF SetSessionDisconnected, LoginInv, ScalarsOK
  <2>2. sess[m_sessions[b]].passed
    BY <2>1, ListedSession
  <2> QED
    BY <1>1, <2>1, <2>2
<1>5. ASSUME NEW b \in Accounts, RemoveSession(b) PROVE Earned
  <2>1. PICK v : v = RemoveQueuedSession(m_sessions[b])
    OBVIOUS
  <2>2. a = b /\ b \in Listed(m_sessions) /\ ~v.found
    BY <1>5, <2>1 DEF RemoveSession, LoginInv, ScalarsOK
  <2>3. ~sess[m_sessions[b]].inQueue
    BY <2>1, <2>2, PoppedWaits DEF LoginInv
  <2>4. sess[m_sessions[b]].passed
    BY <2>2, <2>3, ListedSession
  <2> QED
    BY <1>1, <2>2, <2>4
<1>6. \A b \in Accounts : ~GraceExpires(b)
  BY DEF GraceExpires
<1>7. \A i \in Region : ~AcceptQueued(i)
  BY DEF AcceptQueued
<1>8. ~AddedAll /\ ~UpdateDisconnected /\ ~NextTick
  BY DEF AddedAll, UpdateDisconnected, NextTick, counts
<1>9. \A b \in Accounts : ~Stays(b) /\ ~HandlePlayerLogin(b)
  BY DEF Stays, HandlePlayerLogin, counts
<1>10. \A b \in Accounts, s \in Slots : ~HandleAuthSession(b, s)
  BY DEF HandleAuthSession, counts
<1>11. \A s \in Slots : ~SocketCloses(s)
  BY DEF SocketCloses, counts
<1> HIDE DEF Earned
<1>12. Earned
  <2>1. CASE WorldThread
    <3>1. CASE \E teleporting \in BOOLEAN, base \in 0 .. MaxBase : AddSession(teleporting, base)
      BY <1>3, <3>1
    <3>2. CASE \E b \in Accounts : SetSessionDisconnected(b)
      BY <1>4, <3>2
    <3>3. CASE \E b \in Accounts : RemoveSession(b)
      BY <1>5, <3>3
    <3> QED
      BY <1>7, <1>8, <1>9, <2>1, <3>1, <3>2, <3>3 DEF WorldThread
  <2>2. ~Network
    BY <1>6, <1>10, <1>11 DEF Network
  <2>3. ~\E b \in Accounts : HandlePlayerLogin(b)
    BY <1>9
  <2>4. Next \/ UNCHANGED vars
    OBVIOUS
  <2> QED
    BY <1>2, <2>1, <2>2, <2>3, <2>4 DEF Next
<1> QED
  BY <1>12 DEF Earned

(* In a state of the invariant the code's count of active sessions is that *)
(* of the accounts that passed the queue.                                  *)
LEMMA ActiveSessions ==
  ASSUME LoginInv
  PROVE  /\ GetActiveSessionCount(m_sessions, queue) = Cardinality(Playing(m_sessions, sess))
         /\ Cardinality(Playing(m_sessions, sess)) \in Nat
         /\ Cardinality(Playing(m_sessions, sess)) <= logged[0] + logged[1]
<1>1. Sound(priorityQueue, addSessQueue, m_sessions, m_disconnectedSessions,
            sess, queue, logged)
  BY DEF LoginInv, Good
<1>2. Cardinality(Playing(m_sessions, sess)) = Cardinality(Listed(m_sessions)) - Queued(queue)
  BY <1>1, ActiveCount
<1>3. /\ Cardinality(Playing(m_sessions, sess)) \in Nat
      /\ Cardinality(Playing(m_sessions, sess)) <= logged[0] + logged[1]
  BY <1>1, ActiveCount
<1> QED
  BY <1>2, <1>3 DEF GetActiveSessionCount

(* A round with room lets somebody in.                                     *)
LEMMA RoundStep ==
  ASSUME LoginInv, [Next]_vars, NEW i \in Region,
         priorityQueue, queue[i] # <<>>, Room(i),
         pc = (IF i = 0 THEN "regional" ELSE "nonregional"), pc' # pc
  PROVE  Len(queue'[i]) < Len(queue[i])
<1>1. AcceptQueued(i)
  <2>1. ~UNCHANGED vars
    BY DEF vars, tick
  <2>2. ~AddedAll /\ ~UpdateDisconnected /\ ~NextTick
    BY DEF AddedAll, UpdateDisconnected, NextTick
  <2>3. \A a \in Accounts : ~Stays(a) /\ ~SetSessionDisconnected(a) /\ ~RemoveSession(a)
                            /\ ~HandlePlayerLogin(a) /\ ~GraceExpires(a)
    BY DEF Stays, SetSessionDisconnected, RemoveSession, HandlePlayerLogin, GraceExpires, tick
  <2>4. \A t \in BOOLEAN, b \in 0 .. MaxBase : ~AddSession(t, b)
    BY DEF AddSession
  <2>5. \A a \in Accounts, s \in Slots : ~HandleAuthSession(a, s)
    BY DEF HandleAuthSession, tick
  <2>6. \A s \in Slots : ~SocketCloses(s)
    BY DEF SocketCloses, tick
  <2>7. \A j \in Region : AcceptQueued(j) => j = i
    BY RegionFacts DEF AcceptQueued
  <2> QED
    BY <2>1, <2>2, <2>3, <2>4, <2>5, <2>6, <2>7 DEF Next, WorldThread, Network
<1> DEFINE limit == Lesser(m_playerLimit + LoginPerTick, pops[0] + pops[1] + LoginPerTick)
           n == IF RoundIsFull(limit) THEN 0 ELSE Lesser(LoginPerTick, Len(queue[i]))
           w == [k \in 1 .. Len(queue[i]) - n |->
                    [queue[i][k + n] EXCEPT !.prio = Lesser(@ + 1, MaxBase)]]
<1>2. /\ logged[0] \in Nat /\ logged[1] \in Nat /\ logged[i] \in Nat
      /\ pops[0] \in Nat /\ pops[1] \in Nat /\ pops[i] \in Nat
      /\ pops[0] <= logged[0] /\ pops[1] <= logged[1] /\ pops[i] <= logged[i]
  BY RegionFacts DEF LoginInv, ScalarsOK, TickInv, Good, Sound, CountInv
<1>3. /\ HardLimit \in Nat /\ LoginPerTick \in Nat /\ MaxPop[i] \in Nat
      /\ m_playerLimit \in Nat
  BY LoginAssumption DEF LoginInv, ScalarsOK
<1>4. LoginPerTick # 0 /\ pops[i] < MaxPop[i]
  BY <1>2, <1>3 DEF Room
<1>5. queue' = [queue EXCEPT ![i] = w]
  BY <1>1, <1>4 DEF AcceptQueued
<1>6. queue \in [Region -> Seq(Entries)] /\ Distinct(queue[i])
  BY DEF LoginInv, Good, Sound, TablesOK, WaitInv
<1>7. queue[i] \in Seq(Entries) /\ Len(queue[i]) \in Nat /\ Len(queue[i]) # 0
  BY <1>6, EmptySeq
<1>8. limit <= HardLimit
  BY <1>2, <1>3, SMTT(30) DEF Lesser, Room
<1>9. GetActiveSessionCount(m_sessions, queue) < HardLimit
  <2> HIDE DEF limit, n, w
  <2>1. logged[0] + logged[1] + LoginPerTick <= HardLimit
    BY DEF Room
  <2>2. \A c, x, y, p, h \in Nat :
          c <= x + y /\ x + y + p <= h /\ p # 0 => c < h
    OBVIOUS
  <2> QED
    BY <1>2, <1>3, <1>4, <2>1, <2>2, ActiveSessions
<1>10. GetActiveSessionCount(m_sessions, queue) \in Int /\ limit \in Nat
  <2>1. limit \in Nat
    BY <1>2, <1>3, SMTT(30) DEF Lesser
  <2> QED
    BY <2>1, ActiveSessions
<1> HIDE DEF limit
<1>11. ~RoundIsFull(limit)
  BY <1>3, <1>8, <1>9, <1>10 DEF RoundIsFull
<1>12. n \in 0 .. Len(queue[i]) /\ n # 0
  BY <1>3, <1>4, <1>7, <1>11 DEF Lesser
<1> HIDE DEF n
<1>13. Len(w) = Len(queue[i]) - n
  BY <1>6, <1>7, <1>12, DropSome
<1> HIDE DEF w
<1>14. queue'[i] = w
  BY <1>5, <1>6
<1> QED
  BY <1>7, <1>12, <1>13, <1>14

(* The tables keep their types whatever the order of ticks, authentication *)
(* and lost sockets; in particular UpdateSessions never has an account to  *)
(* visit that m_sessions no longer lists.                                  *)
THEOREM LoginTypes == Spec => []TypeOK
  BY LoginInvariant, InvTypeOK, PTL

(* A WorldSession is owned by exactly one of addSessQueue, m_sessions and  *)
(* m_disconnectedSessions, for any number of accounts and sessions: none   *)
(* is leaked by a relog, none deleted that a table still points to.        *)
THEOREM SessionsHaveOneOwner == Spec => []OneOwner
  BY LoginInvariant, InvOneOwner, PTL

(* A session of m_sessions waits once, in the queue of its region, or has  *)
(* passed the queue; RemoveQueuedSession and the relogs of AddSession_     *)
(* never leave it in both states or in neither.                            *)
THEOREM WaitingOrPassed == Spec => []WaitsOrPassed
  BY LoginInvariant, InvWaitsOrPassed, PTL

(* loggedRegionSessions and loggedNonRegionSessions are the populations    *)
(* they stand for: every OnPassedQueue is undone by one destructor.        *)
THEOREM LoggedCountsPopulation == Spec => []LoggedIsPopulation
  BY LoginInvariant, InvLogged, PTL

(* Sessions that did not skip the queue never exceed PlayerHardLimit       *)
(* without the priority queue; with it they may (WithinHardLimit), but for *)
(* every limit by less than LoginPerTick.                                  *)
THEOREM PopulationIsBounded == Spec => []PopulationBound
  BY LoginInvariant, InvBound, PTL

(* The grace period is given only for a session that had passed the queue. *)
THEOREM GraceMustBeEarned == Spec => GraceIsEarned
<1> DEFINE Earned == \A a \in graced' \ graced :
                        m_sessions[a] # NoSession /\ sess[m_sessions[a]].passed
<1>1. LoginInv /\ [Next]_vars => [Earned]_vars
  <2> SUFFICES ASSUME LoginInv, [Next]_vars PROVE Earned
    OBVIOUS
  <2> QED
    BY GraceStep
<1> HIDE DEF Earned
<1>2. Spec => [][Earned]_vars
  BY <1>1, LoginInvariant, PTL DEF Spec
<1> QED
  BY <1>2 DEF Earned, GraceIsEarned

(* AcceptQueued lets somebody in whenever the counters leave room for a    *)
(* whole round, for every LoginPerTick and every limit: the stale          *)
(* populations and the count of active sessions are never above the        *)
(* counters.                                                               *)
THEOREM RoundsLetIn == Spec => RoundLetsIn
<1> DEFINE LetsIn == \A i \in Region :
            /\ priorityQueue /\ queue[i] # <<>> /\ Room(i)
            /\ pc = (IF i = 0 THEN "regional" ELSE "nonregional") /\ pc' # pc
            => Len(queue'[i]) < Len(queue[i])
<1>1. LoginInv /\ [Next]_vars => [LetsIn]_vars
  <2> SUFFICES ASSUME LoginInv, [Next]_vars PROVE LetsIn
    OBVIOUS
  <2> QED
    BY RoundStep
<1> HIDE DEF LetsIn
<1>2. Spec => [][LetsIn]_vars
  BY <1>1, LoginInvariant, PTL DEF Spec
<1> QED
  BY <1>2 DEF LetsIn, RoundLetsIn
=============================================================================
