---------------------------- MODULE LFTQueueProofs ----------------------------
(***************************************************************************)
(* Proofs about the dungeon finder. Each operation maps a record that      *)
(* satisfies the invariant to one that does; the operations that fold over *)
(* a sequence keep it at every step of the fold (SeqFolds).                *)
(***************************************************************************)
EXTENDS LFTQueue, SeqFolds, SequenceTheorems

-----------------------------------------------------------------------------
(* Keep, Ascending and the helpers for maps.                               *)

(* The sequences Keep goes through.                                        *)
KeepValues(h, X, seq, P) ==
    /\ h \in [0 .. Len(seq) -> Seq(X)] /\ h[0] = <<>> /\ Keep(seq, P) = h[Len(seq)]
    /\ \A i \in 1 .. Len(seq) :
          h[i] = IF seq[i] \in P THEN Append(h[i - 1], seq[i]) ELSE h[i - 1]

(* Keep goes through the elements one by one.                              *)
LEMMA KeepFold ==
    ASSUME NEW X, NEW seq \in Seq(X), NEW P
    PROVE  \E h : KeepValues(h, X, seq, P)
<1> DEFINE A == Seq(X)
           base == <<>>
           Step(a, x) == IF x \in P THEN Append(a, x) ELSE a
           f == [u \in A \X X |-> Step(u[1], u[2])]
           n == Len(seq)
           Is(g) == g = [s \in SUBSET DOMAIN seq |->
                           IF s = {} THEN base ELSE Step(g[s \ {Max(s)}], seq[Max(s)])]
           it == CHOOSE g : Is(g)
<1>1. n \in Nat /\ DOMAIN seq = 1 .. n /\ base \in A /\ \A i \in 1 .. n : seq[i] \in X
  OBVIOUS
<1>2. \A a \in A, x \in X : Step(a, x) \in A
  OBVIOUS
<1>3. Keep(seq, P) = it[DOMAIN seq]
  BY DEF Keep, FoldLeft, MapThenFoldSet
<1>4. f \in [A \X X -> A] /\ \A a \in A, x \in X : f[<<a, x>>] = Step(a, x)
  BY <1>2
<1> HIDE DEF A, base, Step, f
<1>5. PICK g : FoldValues(g, A, X, base, seq, f)
  BY <1>1, <1>4, IteratesExist
<1>6. Is(g)
  <2>1. \A s \in SUBSET (1 .. n) :
          g[s] = IF s = {} THEN base ELSE Step(g[s \ {Max(s)}], seq[Max(s)])
    BY <1>4, <1>5 DEF FoldValues, Iterates
  <2>2. g = [s \in SUBSET (1 .. n) |-> g[s]]
    BY <1>5 DEF FoldValues
  <2> QED
    BY <1>1, <2>1, <2>2
<1>7. Is(it)
  <2> HIDE DEF Is
  <2> QED
    BY <1>6
<1> HIDE DEF it
<1>8. it[{}] = base
  BY <1>1, <1>7
<1>9. ASSUME NEW i \in 1 .. n
      PROVE  it[1 .. i] = Step(it[1 .. i - 1], seq[i])
  <2>1. 1 .. i \in SUBSET (1 .. n) /\ i \in Nat /\ i # 0
    BY <1>1
  <2> QED
    BY <1>1, <1>7, <2>1, PrefixMax, PrefixLess
<1>10. \A i \in 0 .. n : it[1 .. i] \in A
  <2>1. it[{}] \in A /\ \A i \in 1 .. n : it[1 .. i - 1] \in A => it[1 .. i] \in A
    BY <1>1, <1>2, <1>8, <1>9
  <2> QED
    BY <1>1, <2>1, FoldChain
<1> DEFINE h == [i \in 0 .. n |-> it[1 .. i]]
<1>11. h \in [0 .. n -> A]
  BY <1>10
<1>12. h[0] = base /\ h[n] = Keep(seq, P)
  BY <1>1, <1>3, <1>8
<1>13. \A i \in 1 .. n : h[i] = Step(h[i - 1], seq[i])
  BY <1>1, <1>9
<1> HIDE DEF h
<1> QED
  BY <1>11, <1>12, <1>13 DEF A, base, Step, KeepValues

Distinct(q) == \A i, j \in 1 .. Len(q) : q[i] = q[j] => i = j

(* The elements of a sequence.                                             *)
LEMMA ToSetIs ==
    ASSUME NEW X, NEW q \in Seq(X)
    PROVE  /\ ToSet(q) = {q[i] : i \in 1 .. Len(q)} /\ ToSet(q) \subseteq X
           /\ Len(q) \in Nat
<1>1. DOMAIN q = 1 .. Len(q) /\ Len(q) \in Nat
  OBVIOUS
<1>2. ToSet(q) = {q[i] : i \in 1 .. Len(q)}
  BY <1>1 DEF ToSet
<1> QED
  BY <1>1, <1>2

(* A sequence is one over any set its elements are in.                     *)
LEMMA SeqOver ==
    ASSUME NEW X, NEW q \in Seq(X), NEW S, ToSet(q) \subseteq S
    PROVE  q \in Seq(S)
<1>1. Len(q) \in Nat /\ ToSet(q) = {q[i] : i \in 1 .. Len(q)}
  BY ToSetIs
<1>2. q \in [1 .. Len(q) -> S]
  BY <1>1
<1> QED
  BY <1>1, <1>2, SeqDef

(* Append adds one element, and no repetition if it is new.                *)
LEMMA AppendIs ==
    ASSUME NEW X, NEW q \in Seq(X), NEW e \in X
    PROVE  /\ Append(q, e) \in Seq(X) /\ ToSet(Append(q, e)) = ToSet(q) \cup {e}
           /\ Distinct(q) /\ e \notin ToSet(q) => Distinct(Append(q, e))
<1> DEFINE r == Append(q, e)
<1>1. /\ r \in Seq(X) /\ Len(r) = Len(q) + 1 /\ Len(q) \in Nat /\ r[Len(q) + 1] = e
      /\ \A i \in 1 .. Len(q) : r[i] = q[i]
  OBVIOUS
<1>2. /\ ToSet(q) = {q[i] : i \in 1 .. Len(q)}
      /\ ToSet(r) = {r[i] : i \in 1 .. Len(r)}
  BY <1>1, ToSetIs
<1> HIDE DEF r
<1>3. \A i \in 1 .. Len(r) : i \in 1 .. Len(q) \/ i = Len(q) + 1
  BY <1>1
<1>4. Len(q) + 1 \in 1 .. Len(r) /\ \A i \in 1 .. Len(q) : i \in 1 .. Len(r)
  BY <1>1
<1>5. ToSet(r) = ToSet(q) \cup {e}
  BY <1>1, <1>2, <1>3, <1>4
<1>6. ASSUME Distinct(q), e \notin ToSet(q) PROVE Distinct(r)
  BY <1>1, <1>2, <1>3, <1>6 DEF Distinct
<1> QED
  BY <1>1, <1>5, <1>6 DEF r

(* Keep keeps what is in P, and keeps it distinct.                         *)
LEMMA KeepIs ==
    ASSUME NEW X, NEW seq \in Seq(X), NEW P
    PROVE  /\ Keep(seq, P) \in Seq(X)
           /\ ToSet(Keep(seq, P)) = ToSet(seq) \cap P
           /\ Distinct(seq) => Distinct(Keep(seq, P))
<1>0. PICK h : KeepValues(h, X, seq, P)
  BY KeepFold
<1>1. /\ h \in [0 .. Len(seq) -> Seq(X)] /\ h[0] = <<>> /\ Keep(seq, P) = h[Len(seq)]
      /\ \A i \in 1 .. Len(seq) :
            h[i] = IF seq[i] \in P THEN Append(h[i - 1], seq[i]) ELSE h[i - 1]
  BY <1>0 DEF KeepValues
<1>2. /\ Len(seq) \in Nat /\ \A i \in 1 .. Len(seq) : seq[i] \in X
      /\ ToSet(seq) = {seq[j] : j \in 1 .. Len(seq)}
  <2>1. ToSet(seq) = {seq[j] : j \in 1 .. Len(seq)}
    BY ToSetIs
  <2> QED
    BY <2>1
<1> DEFINE First(i) == {seq[j] : j \in 1 .. i}
           B == {i \in 0 .. Len(seq) :
                   /\ ToSet(h[i]) = First(i) \cap P
                   /\ Distinct(seq) => Distinct(h[i])}
<1>3. 0 \in B
  <2>1. 0 \in 0 .. Len(seq) /\ First(0) = {}
    BY <1>2
  <2>2. h[0] \in Seq(X) /\ Len(h[0]) = 0
    BY <1>1, <1>2
  <2>3. ToSet(h[0]) = {} /\ Distinct(h[0])
    BY <2>2, ToSetIs DEF Distinct
  <2> QED
    BY <2>1, <2>3
<1>4. ASSUME NEW i \in 1 .. Len(seq), i - 1 \in B PROVE i \in B
  <2>1. /\ h[i - 1] \in Seq(X) /\ ToSet(h[i - 1]) = First(i - 1) \cap P
        /\ Distinct(seq) => Distinct(h[i - 1])
    BY <1>1, <1>2, <1>4
  <2>2. First(i) = First(i - 1) \cup {seq[i]}
    <3>1. \A j : j \in 1 .. i <=> j \in 1 .. i - 1 \/ j = i
      BY <1>2
    <3> QED
      BY <3>1
  <2>3. Distinct(seq) => seq[i] \notin First(i - 1)
    <3>1. \A j \in 1 .. i - 1 : j \in 1 .. Len(seq) /\ j # i
      BY <1>2
    <3> QED
      BY <3>1 DEF Distinct
  <2>4. CASE seq[i] \in P
    <3>1. h[i] = Append(h[i - 1], seq[i]) /\ seq[i] \in X
      BY <1>1, <1>2, <2>4
    <3>2. ToSet(h[i]) = ToSet(h[i - 1]) \cup {seq[i]}
      BY <2>1, <3>1, AppendIs
    <3>3. Distinct(seq) => Distinct(h[i])
      <4>1. Distinct(seq) => seq[i] \notin ToSet(h[i - 1])
        BY <2>1, <2>3
      <4> HIDE DEF First
      <4> QED
        BY <2>1, <3>1, <4>1, AppendIs
    <3> HIDE DEF First
    <3> QED
      BY <1>2, <2>1, <2>2, <2>4, <3>2, <3>3
  <2>5. CASE seq[i] \notin P
    <3>1. h[i] = h[i - 1]
      BY <1>1, <2>5
    <3> HIDE DEF First
    <3> QED
      BY <1>2, <2>1, <2>2, <2>5, <3>1
  <2> QED
    BY <2>4, <2>5
<1>5. Len(seq) \in B
  <2> HIDE DEF B
  <2>1. \A i \in 0 .. Len(seq) : i \in B
    BY <1>2, <1>3, <1>4, UpTo
  <2> QED
    BY <1>2, <2>1
<1> QED
  BY <1>1, <1>2, <1>5

(* Ascending lists a finite set.                                           *)
LEMMA AscendingIs ==
    ASSUME NEW S, S \subseteq Nat \ {0}, IsFiniteSet(S)
    PROVE  Ascending(S) \in Seq(S) /\ ToSet(Ascending(S)) = S
<1> DEFINE m == Max(S \cup {1})
           q == [n \in 1 .. m |-> n]
<1>1. IsFiniteSet(S \cup {1})
  BY FS_AddElement
<1>2. S \cup {1} \subseteq Nat
  OBVIOUS
<1>3. m \in Nat /\ \A y \in S : y <= m
  BY <1>1, <1>2, MaxOfFinite
<1>4. q \in Seq(Nat)
  <2>1. q \in [1 .. m -> Nat]
    BY <1>3
  <2> HIDE DEF q, m
  <2> QED
    BY <1>3, <2>1, SeqDef
<1>5. Keep(q, S) \in Seq(Nat) /\ ToSet(Keep(q, S)) = S
  <2>1. Len(q) = m /\ \A i \in 1 .. m : q[i] = i
    BY <1>3, <1>4
  <2> HIDE DEF q, m
  <2>2. ToSet(q) = {q[i] : i \in 1 .. m}
    BY <1>4, <2>1, ToSetIs
  <2>3. \A y \in S : y \in 1 .. m
    BY <1>3
  <2>4. S \subseteq ToSet(q)
    BY <2>1, <2>2, <2>3
  <2>5. Keep(q, S) \in Seq(Nat) /\ ToSet(Keep(q, S)) = ToSet(q) \cap S
    BY <1>4, KeepIs
  <2> QED
    BY <2>4, <2>5
<1>6. Keep(q, S) \in Seq(S)
  BY <1>5, SeqOver
<1> QED
  BY <1>5, <1>6 DEF Ascending

(* The maps of the manager.                                                *)
Maps(K, V) == UNION {[D -> V] : D \in SUBSET K}

(* A map is a function on some of the keys.                                *)
LEMMA MapIs ==
    ASSUME NEW K, NEW V, NEW f
    PROVE  f \in Maps(K, V) <=> DOMAIN f \subseteq K /\ f \in [DOMAIN f -> V]
  BY DEF Maps

(* Put changes one key.                                                    *)
LEMMA PutValues ==
    ASSUME NEW f, NEW k, NEW v
    PROVE  /\ DOMAIN Put(f, k, v) = DOMAIN f \cup {k} /\ Put(f, k, v)[k] = v
           /\ \A x \in DOMAIN f : x # k => Put(f, k, v)[x] = f[x]
  BY DEF Put

(* Put keeps the type of a map.                                            *)
LEMMA PutIn ==
    ASSUME NEW K, NEW V, NEW f, f \in Maps(K, V), NEW k \in K, NEW v \in V
    PROVE  Put(f, k, v) \in Maps(K, V)
<1>1. DOMAIN f \subseteq K /\ f \in [DOMAIN f -> V]
  BY MapIs
<1>2. Put(f, k, v) \in [DOMAIN f \cup {k} -> V] /\ DOMAIN f \cup {k} \subseteq K
  BY <1>1 DEF Put
<1> QED
  BY <1>1, <1>2, MapIs

(* Erase takes the keys out and leaves the other values.                   *)
LEMMA EraseValues ==
    ASSUME NEW f, NEW S
    PROVE  /\ DOMAIN Erase(f, S) = DOMAIN f \ S
           /\ \A x \in DOMAIN f \ S : Erase(f, S)[x] = f[x]
  BY DEF Erase, Restrict

(* Erase keeps the type of a map.                                          *)
LEMMA EraseIn ==
    ASSUME NEW K, NEW V, NEW f, f \in Maps(K, V), NEW S
    PROVE  Erase(f, S) \in Maps(K, V)
<1>1. DOMAIN f \subseteq K /\ f \in [DOMAIN f -> V]
  BY MapIs
<1>2. Erase(f, S) \in [DOMAIN f \ S -> V] /\ DOMAIN f \ S \subseteq K
  BY <1>1 DEF Erase, Restrict
<1> QED
  BY <1>1, <1>2, MapIs

(* The empty map is one of every type.                                     *)
LEMMA EmptyIs ==
    ASSUME NEW K, NEW V
    PROVE  EmptyMap \in Maps(K, V) /\ DOMAIN EmptyMap = {}
<1>1. EmptyMap \in [{} -> V]
  BY DEF EmptyMap
<1> QED
  BY <1>1, MapIs

-----------------------------------------------------------------------------
(* The invariant.                                                          *)

Entries == [leader : Players, instances : SUBSET Instances, roleMask : SUBSET Roles]

Rolechecks == [leader : Players, members : Seq(Players), instances : SUBSET Instances,
               responses : Maps(Players, SUBSET Roles), timer : Int]

Offers == [instance : Instances, roles : Maps(Players, Roles),
           accepted : SUBSET Players, timer : Int]

Managers == [m_queue : Maps(Players, Entries), queueOrder : Seq(Players),
             m_rolechecks : Maps(Players, Rolechecks), m_offers : Maps(OfferIds, Offers),
             m_playerOffers : Maps(Players, OfferIds), lastOffer : Nat]

(* A rolecheck is open: somebody who is asked has not answered.            *)
OpenCheck(c) ==
    /\ Distinct(c.members) /\ DOMAIN c.responses \subseteq ToSet(c.members)
    /\ DOMAIN c.responses # ToSet(c.members)

(* An offer is a full group that not everybody has accepted.               *)
OpenOffer(o) ==
    FullGroup(o.roles) /\ o.accepted \subseteq DOMAIN o.roles /\ o.accepted # DOMAIN o.roles

(* m_playerOffers is the index of m_offers.                                *)
Indexed(s) ==
    /\ \A p \in DOMAIN s.m_playerOffers :
         /\ s.m_playerOffers[p] \in DOMAIN s.m_offers
         /\ p \in DOMAIN s.m_offers[s.m_playerOffers[p]].roles
    /\ \A id \in DOMAIN s.m_offers : \A p \in DOMAIN s.m_offers[id].roles :
         p \in DOMAIN s.m_playerOffers /\ s.m_playerOffers[p] = id

(* The players in offers are as many as the offers need: an id is left.    *)
Counts(s) ==
    /\ IsFiniteSet(DOMAIN s.m_offers)
    /\ Cardinality(DOMAIN s.m_playerOffers) = GroupSize * Cardinality(DOMAIN s.m_offers)

(* The manager knows nobody outside W.                                     *)
Knows(s, W) ==
    /\ DOMAIN s.m_queue \subseteq W /\ DOMAIN s.m_playerOffers \subseteq W
    /\ \A l \in DOMAIN s.m_rolechecks : ToSet(s.m_rolechecks[l].members) \subseteq W

Good(s, W) ==
    /\ s \in Managers /\ ToSet(s.queueOrder) = DOMAIN s.m_queue
    /\ \A l \in DOMAIN s.m_rolechecks : OpenCheck(s.m_rolechecks[l])
    /\ \A id \in DOMAIN s.m_offers : OpenOffer(s.m_offers[id])
    /\ Indexed(s) /\ Counts(s) /\ Knows(s, W)

(* A party has its leader in it, and nobody twice.                         *)
GroupsOK(g) ==
    /\ g \in Maps(Players, Seq(Players))
    /\ \A l \in DOMAIN g : l \in ToSet(g[l]) /\ Distinct(g[l])

Here == {p \in Players : where[p] # "out"}

LFTInv ==
    /\ where \in [Players -> {"out", "loading", "world"}]
    /\ GroupsOK(groups) /\ Good(lft, Here)

(* The types of the manager's fields.                                      *)
LEMMA Fields ==
    ASSUME NEW s \in Managers
    PROVE  /\ s.m_queue \in Maps(Players, Entries) /\ s.queueOrder \in Seq(Players)
           /\ s.m_rolechecks \in Maps(Players, Rolechecks)
           /\ s.m_offers \in Maps(OfferIds, Offers)
           /\ s.m_playerOffers \in Maps(Players, OfferIds) /\ s.lastOffer \in Nat
  BY DEF Managers

-----------------------------------------------------------------------------
(* The operations on the queue, rolechecks and offers.                     *)

(* An entry of the queue.                                                  *)
LEMMA EntryIs ==
    ASSUME NEW s \in Managers, NEW p \in DOMAIN s.m_queue
    PROVE  /\ p \in Players /\ s.m_queue[p].roleMask \in SUBSET Roles
           /\ s.m_queue[p].instances \in SUBSET Instances
<1>1. s.m_queue \in Maps(Players, Entries)
  BY Fields
<1>2. DOMAIN s.m_queue \subseteq Players /\ s.m_queue \in [DOMAIN s.m_queue -> Entries]
  BY <1>1, MapIs
<1>3. s.m_queue[p] \in Entries
  BY <1>2
<1> QED
  BY <1>2, <1>3 DEF Entries

(* Dequeue changes the queue only.                                         *)
LEMMA DequeueIs ==
    ASSUME NEW s \in Managers, NEW P, NEW t, t = Dequeue(s, P)
    PROVE  /\ t \in Managers /\ t.m_queue = Erase(s.m_queue, P)
           /\ DOMAIN t.m_queue = DOMAIN s.m_queue \ P
           /\ ToSet(t.queueOrder) = ToSet(s.queueOrder) \ P
           /\ t.m_rolechecks = s.m_rolechecks /\ t.m_offers = s.m_offers
           /\ t.m_playerOffers = s.m_playerOffers /\ t.lastOffer = s.lastOffer
<1>1. /\ Erase(s.m_queue, P) \in Maps(Players, Entries)
      /\ DOMAIN Erase(s.m_queue, P) = DOMAIN s.m_queue \ P
  <2>1. s.m_queue \in Maps(Players, Entries)
    BY Fields
  <2> QED
    BY <2>1, EraseIn, EraseValues
<1>2. /\ Keep(s.queueOrder, Players \ P) \in Seq(Players)
      /\ ToSet(Keep(s.queueOrder, Players \ P)) = ToSet(s.queueOrder) \ P
  <2>1. s.queueOrder \in Seq(Players)
    BY Fields
  <2> QED
    BY <2>1, KeepIs, ToSetIs
<1>3. t = [s EXCEPT !.m_queue = Erase(s.m_queue, P),
                    !.queueOrder = Keep(s.queueOrder, Players \ P)]
  BY DEF Dequeue
<1>4. /\ t.m_queue = Erase(s.m_queue, P) /\ t.queueOrder = Keep(s.queueOrder, Players \ P)
      /\ t.m_rolechecks = s.m_rolechecks /\ t.m_offers = s.m_offers
      /\ t.m_playerOffers = s.m_playerOffers /\ t.lastOffer = s.lastOffer
      /\ t \in Managers
  BY <1>1, <1>2, <1>3 DEF Managers
<1> QED
  BY <1>1, <1>2, <1>4

(* Whoever leaves the queue, the invariant stays.                          *)
LEMMA DequeueKeeps ==
    ASSUME NEW s, NEW W, Good(s, W), NEW P
    PROVE  Good(Dequeue(s, P), W)
<1> DEFINE t == Dequeue(s, P)
<1>1. /\ t \in Managers
      /\ DOMAIN t.m_queue = DOMAIN s.m_queue \ P
      /\ ToSet(t.queueOrder) = ToSet(s.queueOrder) \ P
      /\ t.m_rolechecks = s.m_rolechecks /\ t.m_offers = s.m_offers
      /\ t.m_playerOffers = s.m_playerOffers
  BY DequeueIs DEF Good
<1> HIDE DEF t
<1> QED
  BY <1>1 DEF t, Good, Indexed, Counts, Knows

(* CancelRolechecks changes the rolechecks only.                           *)
LEMMA CancelChecksIs ==
    ASSUME NEW s \in Managers, NEW L, NEW t, t = CancelRolechecks(s, L)
    PROVE  /\ t \in Managers /\ DOMAIN t.m_rolechecks = DOMAIN s.m_rolechecks \ L
           /\ \A l \in DOMAIN t.m_rolechecks : t.m_rolechecks[l] = s.m_rolechecks[l]
           /\ t.m_queue = s.m_queue /\ t.queueOrder = s.queueOrder /\ t.m_offers = s.m_offers
           /\ t.m_playerOffers = s.m_playerOffers /\ t.lastOffer = s.lastOffer
<1>1. /\ Erase(s.m_rolechecks, L) \in Maps(Players, Rolechecks)
      /\ DOMAIN Erase(s.m_rolechecks, L) = DOMAIN s.m_rolechecks \ L
      /\ \A l \in DOMAIN s.m_rolechecks \ L : Erase(s.m_rolechecks, L)[l] = s.m_rolechecks[l]
  <2>1. s.m_rolechecks \in Maps(Players, Rolechecks)
    BY Fields
  <2> QED
    BY <2>1, EraseIn, EraseValues
<1>2. t = [s EXCEPT !.m_rolechecks = Erase(s.m_rolechecks, L)]
  BY DEF CancelRolechecks
<1>3. /\ t.m_rolechecks = Erase(s.m_rolechecks, L)
      /\ t.m_queue = s.m_queue /\ t.queueOrder = s.queueOrder /\ t.m_offers = s.m_offers
      /\ t.m_playerOffers = s.m_playerOffers /\ t.lastOffer = s.lastOffer /\ t \in Managers
  BY <1>1, <1>2 DEF Managers
<1> QED
  BY <1>1, <1>3

(* Whichever rolechecks end, the invariant stays.                          *)
LEMMA CancelChecksKeeps ==
    ASSUME NEW s, NEW W, Good(s, W), NEW L
    PROVE  Good(CancelRolechecks(s, L), W)
<1> DEFINE t == CancelRolechecks(s, L)
<1>1. /\ t \in Managers /\ DOMAIN t.m_rolechecks = DOMAIN s.m_rolechecks \ L
      /\ \A l \in DOMAIN t.m_rolechecks : t.m_rolechecks[l] = s.m_rolechecks[l]
      /\ t.m_queue = s.m_queue /\ t.queueOrder = s.queueOrder /\ t.m_offers = s.m_offers
      /\ t.m_playerOffers = s.m_playerOffers
  BY CancelChecksIs DEF Good
<1> HIDE DEF t
<1> QED
  BY <1>1 DEF t, Good, Indexed, Counts, Knows

(* An offer ends, by CancelOffer or by a group, and P leaves the queue.    *)
WithoutOffer(s, id, P) ==
    [Dequeue(s, P) EXCEPT !.m_offers = Erase(@, {id}),
                          !.m_playerOffers = Erase(@, DOMAIN s.m_offers[id].roles)]

OfferEnded(s, id, t) ==
    /\ DOMAIN t.m_queue \subseteq DOMAIN s.m_queue
    /\ DOMAIN t.m_offers = DOMAIN s.m_offers \ {id}
    /\ DOMAIN t.m_playerOffers = DOMAIN s.m_playerOffers \ DOMAIN s.m_offers[id].roles
    /\ t.m_rolechecks = s.m_rolechecks

(* An offer that ends leaves the index exact and the ids counted.          *)
LEMMA WithoutKeeps ==
    ASSUME NEW s, NEW W, Good(s, W), NEW id \in DOMAIN s.m_offers, NEW P
    PROVE  /\ Good(WithoutOffer(s, id, P), W)
           /\ OfferEnded(s, id, WithoutOffer(s, id, P))
<1>0. PICK t : t = WithoutOffer(s, id, P)
  OBVIOUS
<1> DEFINE d == Dequeue(s, P)
           R == DOMAIN s.m_offers[id].roles
<1>1. s \in Managers /\ Good(d, W)
  BY DequeueKeeps DEF Good
<1>2. /\ d \in Managers /\ DOMAIN d.m_queue = DOMAIN s.m_queue \ P
      /\ d.m_rolechecks = s.m_rolechecks /\ d.m_offers = s.m_offers
      /\ d.m_playerOffers = s.m_playerOffers
  BY <1>1, DequeueIs
<1> HIDE DEF d
<1>3. /\ Erase(d.m_offers, {id}) \in Maps(OfferIds, Offers)
      /\ DOMAIN Erase(d.m_offers, {id}) = DOMAIN s.m_offers \ {id}
      /\ \A x \in DOMAIN s.m_offers \ {id} : Erase(d.m_offers, {id})[x] = s.m_offers[x]
  <2>1. d.m_offers \in Maps(OfferIds, Offers)
    BY <1>2, Fields
  <2>2. Erase(d.m_offers, {id}) \in Maps(OfferIds, Offers)
    BY <2>1, EraseIn
  <2>3. /\ DOMAIN Erase(d.m_offers, {id}) = DOMAIN d.m_offers \ {id}
        /\ \A x \in DOMAIN d.m_offers \ {id} : Erase(d.m_offers, {id})[x] = d.m_offers[x]
    BY EraseValues
  <2> QED
    BY <1>2, <2>2, <2>3
<1>4. /\ Erase(d.m_playerOffers, R) \in Maps(Players, OfferIds)
      /\ DOMAIN Erase(d.m_playerOffers, R) = DOMAIN s.m_playerOffers \ R
      /\ \A x \in DOMAIN s.m_playerOffers \ R :
            Erase(d.m_playerOffers, R)[x] = s.m_playerOffers[x]
  <2> HIDE DEF R
  <2>1. d.m_playerOffers \in Maps(Players, OfferIds)
    BY <1>2, Fields
  <2>2. Erase(d.m_playerOffers, R) \in Maps(Players, OfferIds)
    BY <2>1, EraseIn
  <2>3. /\ DOMAIN Erase(d.m_playerOffers, R) = DOMAIN d.m_playerOffers \ R
        /\ \A x \in DOMAIN d.m_playerOffers \ R :
              Erase(d.m_playerOffers, R)[x] = d.m_playerOffers[x]
    BY EraseValues
  <2> QED
    BY <1>2, <2>2, <2>3
<1>5. /\ t \in Managers /\ t.m_queue = d.m_queue /\ t.queueOrder = d.queueOrder
      /\ t.m_rolechecks = d.m_rolechecks /\ t.m_offers = Erase(d.m_offers, {id})
      /\ t.m_playerOffers = Erase(d.m_playerOffers, R)
  <2>1. t = [d EXCEPT !.m_offers = Erase(d.m_offers, {id}),
                      !.m_playerOffers = Erase(d.m_playerOffers, R)]
    BY <1>0 DEF d, WithoutOffer
  <2> QED
    BY <1>2, <1>3, <1>4, <2>1 DEF Managers
<1>6. Indexed(t)
  <2>1. Indexed(s)
    BY DEF Good
  <2>2. /\ DOMAIN t.m_offers = DOMAIN s.m_offers \ {id}
        /\ DOMAIN t.m_playerOffers = DOMAIN s.m_playerOffers \ R
        /\ \A x \in DOMAIN t.m_offers : t.m_offers[x] = s.m_offers[x]
        /\ \A p \in DOMAIN t.m_playerOffers : t.m_playerOffers[p] = s.m_playerOffers[p]
    BY <1>3, <1>4, <1>5
  <2>3. ASSUME NEW p \in DOMAIN t.m_playerOffers
        PROVE  /\ t.m_playerOffers[p] \in DOMAIN t.m_offers
               /\ p \in DOMAIN t.m_offers[t.m_playerOffers[p]].roles
    <3>1. PICK k : k = s.m_playerOffers[p]
      OBVIOUS
    <3>2. k \in DOMAIN s.m_offers /\ p \in DOMAIN s.m_offers[k].roles
      BY <2>1, <2>2, <3>1 DEF Indexed
    <3>3. k \in DOMAIN t.m_offers
      BY <2>2, <3>2
    <3> QED
      BY <2>2, <3>1, <3>2, <3>3
  <2>4. ASSUME NEW x \in DOMAIN t.m_offers, NEW p \in DOMAIN t.m_offers[x].roles
        PROVE  p \in DOMAIN t.m_playerOffers /\ t.m_playerOffers[p] = x
    <3>1. p \in DOMAIN s.m_offers[x].roles /\ x \in DOMAIN s.m_offers /\ x # id
      BY <2>2
    <3>2. p \in DOMAIN s.m_playerOffers /\ s.m_playerOffers[p] = x /\ p \notin R
      BY <2>1, <3>1 DEF Indexed
    <3> QED
      BY <2>2, <3>2
  <2> QED
    BY <2>3, <2>4 DEF Indexed
<1>7. Counts(t)
  <2>1. /\ IsFiniteSet(DOMAIN s.m_offers) /\ IsFiniteSet(Players)
        /\ Cardinality(DOMAIN s.m_playerOffers) = GroupSize * Cardinality(DOMAIN s.m_offers)
        /\ GroupSize \in Nat
    BY LFTAssumption DEF Good, Counts, GroupSize
  <2>2. /\ IsFiniteSet(DOMAIN s.m_offers \ {id})
        /\ Cardinality(DOMAIN s.m_offers \ {id}) = Cardinality(DOMAIN s.m_offers) - 1
        /\ Cardinality(DOMAIN s.m_offers) \in Nat
    BY <2>1, FS_RemoveElement, FS_CardinalityType
  <2>3. R \subseteq DOMAIN s.m_playerOffers /\ Cardinality(R) = GroupSize
    BY DEF Good, Indexed, OpenOffer, FullGroup
  <2>4. IsFiniteSet(DOMAIN s.m_playerOffers) /\ IsFiniteSet(R)
    <3>1. DOMAIN s.m_playerOffers \subseteq Players
      BY <1>1, Fields, MapIs
    <3> QED
      BY <2>1, <2>3, <3>1, FS_Subset
  <2>5. /\ DOMAIN s.m_playerOffers \cap R = R
        /\ Cardinality(DOMAIN s.m_playerOffers \ R)
             = Cardinality(DOMAIN s.m_playerOffers) - Cardinality(R)
    <3>1. DOMAIN s.m_playerOffers \cap R = R
      BY <2>3
    <3> QED
      BY <2>4, <3>1, FS_Difference
  <2>6. \A g, c \in Nat : g * c - g = g * (c - 1)
    OBVIOUS
  <2> HIDE DEF R
  <2> QED
    BY <1>3, <1>4, <1>5, <2>1, <2>2, <2>3, <2>5, <2>6 DEF Counts
<1>8. Knows(t, W) /\ ToSet(t.queueOrder) = DOMAIN t.m_queue
  BY <1>1, <1>2, <1>4, <1>5 DEF Good, Knows
<1>9. /\ \A l \in DOMAIN t.m_rolechecks : OpenCheck(t.m_rolechecks[l])
      /\ \A x \in DOMAIN t.m_offers : OpenOffer(t.m_offers[x])
  BY <1>2, <1>3, <1>5 DEF Good
<1>10. Good(t, W)
  BY <1>5, <1>6, <1>7, <1>8, <1>9 DEF Good
<1>11. OfferEnded(s, id, t)
  BY <1>2, <1>3, <1>4, <1>5 DEF OfferEnded
<1> QED
  BY <1>0, <1>10, <1>11

(* CancelOffer ends the offer, whatever is asked of the queue.             *)
LEMMA CancelOfferIs ==
    ASSUME NEW s, NEW W, Good(s, W), NEW id \in DOMAIN s.m_offers,
           NEW requeueAccepted, NEW removeGuid, NEW requeueOthers, NEW t,
           t = CancelOffer(s, id, requeueAccepted, removeGuid, requeueOthers)
    PROVE  Good(t, W) /\ OfferEnded(s, id, t)
<1> DEFINE keepQueued == {p \in DOMAIN s.m_offers[id].roles :
                            /\ requeueAccepted /\ p # removeGuid
                            /\ requeueOthers \/ p \in s.m_offers[id].accepted}
           P == DOMAIN s.m_offers[id].roles \ keepQueued
<1>1. t = WithoutOffer(s, id, P)
  BY Zenon DEF CancelOffer, WithoutOffer
<1> HIDE DEF P
<1> QED
  BY <1>1, WithoutKeeps

(* CancelOffer keeps the invariant also when the offer is gone.            *)
LEMMA CancelOfferKeeps ==
    ASSUME NEW s, NEW W, Good(s, W), NEW id,
           NEW requeueAccepted, NEW removeGuid, NEW requeueOthers, NEW t,
           t = CancelOffer(s, id, requeueAccepted, removeGuid, requeueOthers)
    PROVE  Good(t, W) /\ DOMAIN t.m_offers \subseteq DOMAIN s.m_offers
<1>1. CASE id \in DOMAIN s.m_offers
  <2>1. Good(t, W) /\ OfferEnded(s, id, t)
    BY <1>1, CancelOfferIs
  <2> QED
    BY <2>1 DEF OfferEnded
<1>2. CASE id \notin DOMAIN s.m_offers
  BY <1>2 DEF CancelOffer
<1> QED
  BY <1>1, <1>2

(* CleanupPlayer forgets the player.                                       *)
LEMMA CleanupKeeps ==
    ASSUME NEW s, NEW W, Good(s, W), NEW p
    PROVE  /\ Good(CleanupPlayer(s, p), W) /\ Good(CleanupPlayer(s, p), W \ {p})
           /\ DOMAIN CleanupPlayer(s, p).m_offers \subseteq DOMAIN s.m_offers
<1> DEFINE t == Dequeue(s, {p})
           u == IF p \in DOMAIN t.m_playerOffers
                THEN CancelOffer(t, t.m_playerOffers[p], TRUE, p, TRUE) ELSE t
           v == CancelRolechecks(u, RolechecksOf(u, p))
<1>1. Good(t, W) /\ p \notin DOMAIN t.m_queue /\ t.m_offers = s.m_offers
  <2>1. Good(t, W)
    BY DequeueKeeps
  <2>2. DOMAIN t.m_queue = DOMAIN s.m_queue \ {p} /\ t.m_offers = s.m_offers
    BY DequeueIs DEF Good
  <2> QED
    BY <2>1, <2>2
<1> HIDE DEF t
<1>2. /\ Good(u, W) /\ p \notin DOMAIN u.m_queue /\ p \notin DOMAIN u.m_playerOffers
      /\ DOMAIN u.m_offers \subseteq DOMAIN s.m_offers
  <2>1. CASE p \in DOMAIN t.m_playerOffers
    <3>1. PICK id : id = t.m_playerOffers[p]
      OBVIOUS
    <3>2. id \in DOMAIN t.m_offers /\ p \in DOMAIN t.m_offers[id].roles
      BY <1>1, <2>1, <3>1 DEF Good, Indexed
    <3>3. u = CancelOffer(t, id, TRUE, p, TRUE)
      BY <2>1, <3>1
    <3> HIDE DEF u
    <3>4. Good(u, W) /\ OfferEnded(t, id, u)
      BY <1>1, <3>2, <3>3, CancelOfferIs, Zenon
    <3> QED
      BY <1>1, <3>2, <3>4 DEF OfferEnded
  <2>2. CASE p \notin DOMAIN t.m_playerOffers
    BY <1>1, <2>2
  <2> QED
    BY <2>1, <2>2
<1> HIDE DEF u
<1>3. Good(v, W)
  BY <1>2, CancelChecksKeeps
<1>4. /\ DOMAIN v.m_rolechecks = DOMAIN u.m_rolechecks \ RolechecksOf(u, p)
      /\ \A l \in DOMAIN v.m_rolechecks : v.m_rolechecks[l] = u.m_rolechecks[l]
      /\ v.m_queue = u.m_queue /\ v.m_playerOffers = u.m_playerOffers
      /\ v.m_offers = u.m_offers
  BY <1>2, CancelChecksIs DEF Good
<1>5. CleanupPlayer(s, p) = v
  BY Zenon DEF CleanupPlayer, t, u
<1> HIDE DEF v
<1>6. Knows(v, W \ {p})
  <2>1. \A l \in DOMAIN v.m_rolechecks : p \notin ToSet(v.m_rolechecks[l].members)
    BY <1>4 DEF RolechecksOf
  <2> QED
    BY <1>2, <1>3, <1>4, <2>1 DEF Good, Knows
<1> QED
  BY <1>2, <1>3, <1>4, <1>5, <1>6 DEF Good

(* EnqueuePlayer keeps the invariant for a player who is here.             *)
LEMMA EnqueueKeeps ==
    ASSUME NEW s, NEW W, Good(s, W), NEW p \in Players, p \in W, NEW leader \in Players,
           NEW instances \in SUBSET Instances, NEW roleMask \in SUBSET Roles
    PROVE  Good(EnqueuePlayer(s, p, leader, instances, roleMask), W)
<1> DEFINE e == [leader |-> leader, instances |-> instances, roleMask |-> roleMask]
           k == Keep(s.queueOrder, Players \ {p})
           t == EnqueuePlayer(s, p, leader, instances, roleMask)
<1>1. s \in Managers /\ e \in Entries
  BY DEF Good, Entries
<1>2. k \in Seq(Players) /\ ToSet(k) = ToSet(s.queueOrder) \ {p}
  <2>1. s.queueOrder \in Seq(Players)
    BY <1>1, Fields
  <2> QED
    BY <2>1, KeepIs, ToSetIs
<1>3. t = [s EXCEPT !.m_queue = Put(s.m_queue, p, e), !.queueOrder = Append(k, p)]
  BY DEF EnqueuePlayer
<1> HIDE DEF e, k, t
<1>4. Append(k, p) \in Seq(Players) /\ ToSet(Append(k, p)) = ToSet(k) \cup {p}
  BY <1>2, AppendIs
<1>5. Put(s.m_queue, p, e) \in Maps(Players, Entries)
  <2>1. s.m_queue \in Maps(Players, Entries)
    BY <1>1, Fields
  <2> QED
    BY <1>1, <2>1, PutIn
<1>6. DOMAIN Put(s.m_queue, p, e) = DOMAIN s.m_queue \cup {p}
  BY PutValues
<1>7. /\ t \in Managers /\ t.m_queue = Put(s.m_queue, p, e) /\ t.queueOrder = Append(k, p)
      /\ t.m_rolechecks = s.m_rolechecks /\ t.m_offers = s.m_offers
      /\ t.m_playerOffers = s.m_playerOffers
  BY <1>1, <1>3, <1>4, <1>5 DEF Managers
<1>8. Knows(t, W) /\ ToSet(t.queueOrder) = DOMAIN t.m_queue
  BY <1>2, <1>4, <1>6, <1>7 DEF Good, Knows
<1>9. Indexed(t) /\ Counts(t)
  BY <1>7 DEF Good, Indexed, Counts
<1> QED
  BY <1>7, <1>8, <1>9 DEF Good, t

(* An id is left for one more offer.                                       *)
LEMMA NextIdIs ==
    ASSUME NEW s, NEW W, Good(s, W), NEW R \in SUBSET Players,
           R \cap DOMAIN s.m_playerOffers = {}, Cardinality(R) = GroupSize
    PROVE  NextOfferId(s) \in OfferIds \ DOMAIN s.m_offers
<1> DEFINE D == DOMAIN s.m_offers
           F == OfferIds \ (D \cup {s.lastOffer})
<1>1. /\ IsFiniteSet(D) /\ Cardinality(DOMAIN s.m_playerOffers) = GroupSize * Cardinality(D)
      /\ s \in Managers
  BY DEF Good, Counts
<1>2. DOMAIN s.m_playerOffers \subseteq Players
  BY <1>1, Fields, MapIs
<1>3. IsFiniteSet(Players) /\ GroupSize \in Nat /\ OfferIds \subseteq Nat
      /\ Cardinality(OfferIds) * GroupSize > Cardinality(Players)
  BY LFTAssumption DEF GroupSize
<1>4. /\ IsFiniteSet(R) /\ IsFiniteSet(DOMAIN s.m_playerOffers)
  BY <1>2, <1>3, FS_Subset
<1>5. Cardinality(R \cup DOMAIN s.m_playerOffers) = GroupSize + GroupSize * Cardinality(D)
  <2>1. Cardinality(R \cap DOMAIN s.m_playerOffers) = 0
    BY FS_EmptySet
  <2>2. Cardinality(D) \in Nat
    BY <1>1, FS_CardinalityType
  <2> QED
    <3>1. Cardinality(R \cup DOMAIN s.m_playerOffers)
            = Cardinality(R) + Cardinality(DOMAIN s.m_playerOffers)
                - Cardinality(R \cap DOMAIN s.m_playerOffers)
      BY <1>4, FS_Union
    <3>2. \A g, d \in Nat : g + g * d - 0 = g + g * d
      OBVIOUS
    <3> QED
      BY <1>1, <1>3, <2>1, <2>2, <3>1, <3>2
<1>6. Cardinality(R \cup DOMAIN s.m_playerOffers) <= Cardinality(Players)
  <2>1. R \cup DOMAIN s.m_playerOffers \subseteq Players
    BY <1>2
  <2> QED
    BY <1>3, <2>1, FS_Subset
<1>7. F # {}
  <2> SUFFICES ASSUME F = {} PROVE FALSE
    OBVIOUS
  <2>1. /\ IsFiniteSet(D \cup {s.lastOffer})
        /\ Cardinality(D \cup {s.lastOffer}) <= Cardinality(D) + 1
        /\ Cardinality(D) \in Nat /\ Cardinality(D \cup {s.lastOffer}) \in Nat
    <3>1. IsFiniteSet(D \cup {s.lastOffer})
      BY <1>1, FS_AddElement
    <3>2. Cardinality(D) \in Nat /\ Cardinality(D \cup {s.lastOffer}) \in Nat
      BY <1>1, <3>1, FS_CardinalityType
    <3>3. s.lastOffer \notin D => Cardinality(D \cup {s.lastOffer}) = Cardinality(D) + 1
      BY <1>1, FS_AddElement
    <3>4. s.lastOffer \in D => D \cup {s.lastOffer} = D
      OBVIOUS
    <3> HIDE DEF D
    <3> QED
      BY <3>1, <3>2, <3>3, <3>4
  <2>2. OfferIds \subseteq D \cup {s.lastOffer}
    OBVIOUS
  <2>3. IsFiniteSet(OfferIds) /\ Cardinality(OfferIds) <= Cardinality(D \cup {s.lastOffer})
    BY <2>1, <2>2, FS_Subset
  <2>4. Cardinality(OfferIds) \in Nat /\ Cardinality(Players) \in Nat
    BY <1>3, <2>3, FS_CardinalityType
  <2>5. Cardinality(OfferIds) <= Cardinality(D) + 1
    BY <2>1, <2>3, <2>4
  <2>6. \A c, d, g \in Nat : c <= d + 1 => c * g <= g + g * d
    <3> SUFFICES ASSUME NEW c \in Nat, NEW d \in Nat, NEW g \in Nat, c <= d + 1
                 PROVE  c * g <= g + g * d
      OBVIOUS
    <3>1. PICK e \in Nat : c + e = d + 1
      <4>1. (d + 1) - c \in Nat /\ c + ((d + 1) - c) = d + 1
        OBVIOUS
      <4> QED
        BY <4>1
    <3>2. (c + e) * g = (d + 1) * g /\ e * g \in Nat /\ c * g \in Nat
      BY <3>1
    <3> QED
      BY <3>2
  <2>7. Cardinality(OfferIds) * GroupSize <= GroupSize + GroupSize * Cardinality(D)
    BY <1>3, <2>1, <2>4, <2>5, <2>6
  <2>8. Cardinality(OfferIds) * GroupSize <= Cardinality(Players)
    BY <1>5, <1>6, <2>7, <1>3, <2>4, <2>1
  <2> QED
    BY <1>3, <2>4, <2>8
<1>8. F \subseteq Nat /\ NextOfferId(s) = Min(F)
  BY <1>3 DEF NextOfferId
<1>9. Min(F) \in F
  <2> HIDE DEF F
  <2> QED
    BY <1>7, <1>8, MinOfNats
<1> QED
  BY <1>8, <1>9

-----------------------------------------------------------------------------
(* The matcher.                                                            *)

(* A full group of players who are in no offer becomes one.                *)
LEMMA MakeOfferKeeps ==
    ASSUME NEW s, NEW W, Good(s, W), NEW instance \in Instances,
           NEW roles \in Maps(Players, Roles), FullGroup(roles),
           DOMAIN roles \subseteq DOMAIN s.m_queue \ DOMAIN s.m_playerOffers,
           NEW t, t = MakeOffer(s, instance, roles)
    PROVE  /\ Good(t, W) /\ t.m_queue = s.m_queue /\ t.queueOrder = s.queueOrder
           /\ DOMAIN s.m_playerOffers \subseteq DOMAIN t.m_playerOffers
           /\ \E id \in OfferIds \ DOMAIN s.m_offers :
                /\ DOMAIN t.m_offers = DOMAIN s.m_offers \cup {id}
                /\ \A x \in DOMAIN s.m_offers : t.m_offers[x] = s.m_offers[x]
                /\ t.m_offers[id].roles = roles /\ t.m_offers[id].instance = instance
<1>1. PICK id : id = NextOfferId(s)
  OBVIOUS
<1>2. PICK o : o = [instance |-> instance, roles |-> roles, accepted |-> {}, timer |-> OfferTime]
  OBVIOUS
<1>3. PICK i : i = [p \in DOMAIN s.m_playerOffers \cup DOMAIN roles |->
                      IF p \in DOMAIN roles THEN id ELSE s.m_playerOffers[p]]
  OBVIOUS
<1>4. t = [s EXCEPT !.m_offers = Put(s.m_offers, id, o), !.m_playerOffers = i, !.lastOffer = id]
  BY <1>1, <1>2, <1>3 DEF MakeOffer
<1>5. s \in Managers /\ DOMAIN roles \subseteq Players /\ Cardinality(DOMAIN roles) = GroupSize
  BY MapIs DEF Good, FullGroup
<1>6. id \in OfferIds \ DOMAIN s.m_offers
  <2>1. DOMAIN roles \cap DOMAIN s.m_playerOffers = {}
    OBVIOUS
  <2> QED
    BY <1>1, <1>5, <2>1, NextIdIs
<1>7. o \in Offers /\ OpenOffer(o) /\ o.roles = roles /\ o.instance = instance
  <2>1. OfferTime \in Int /\ GroupSize # 0
    BY LFTAssumption DEF GroupSize
  <2>2. o \in Offers /\ o.roles = roles /\ o.accepted = {} /\ o.instance = instance
    BY <1>2, <2>1 DEF Offers
  <2>3. DOMAIN roles # {}
    BY <1>5, <2>1, FS_EmptySet
  <2> QED
    BY <2>2, <2>3 DEF OpenOffer
<1>8. /\ Put(s.m_offers, id, o) \in Maps(OfferIds, Offers)
      /\ DOMAIN Put(s.m_offers, id, o) = DOMAIN s.m_offers \cup {id}
      /\ Put(s.m_offers, id, o)[id] = o
      /\ \A x \in DOMAIN s.m_offers : Put(s.m_offers, id, o)[x] = s.m_offers[x]
  <2>1. s.m_offers \in Maps(OfferIds, Offers)
    BY <1>5, Fields
  <2>2. Put(s.m_offers, id, o) \in Maps(OfferIds, Offers)
    BY <1>6, <1>7, <2>1, PutIn
  <2>3. /\ DOMAIN Put(s.m_offers, id, o) = DOMAIN s.m_offers \cup {id}
        /\ Put(s.m_offers, id, o)[id] = o
        /\ \A x \in DOMAIN s.m_offers : x # id => Put(s.m_offers, id, o)[x] = s.m_offers[x]
    BY DEF Put
  <2> QED
    BY <1>6, <2>2, <2>3
<1>9. i \in Maps(Players, OfferIds) /\ DOMAIN i = DOMAIN s.m_playerOffers \cup DOMAIN roles
  <2>1. s.m_playerOffers \in [DOMAIN s.m_playerOffers -> OfferIds]
        /\ DOMAIN s.m_playerOffers \subseteq Players
    BY <1>5, Fields, MapIs
  <2>2. i \in [DOMAIN s.m_playerOffers \cup DOMAIN roles -> OfferIds]
    BY <1>3, <1>6, <2>1
  <2>3. DOMAIN i = DOMAIN s.m_playerOffers \cup DOMAIN roles
    BY <1>3
  <2> QED
    BY <1>5, <2>1, <2>2, <2>3, MapIs
<1>10. /\ t \in Managers /\ t.m_offers = Put(s.m_offers, id, o) /\ t.m_playerOffers = i
       /\ t.m_queue = s.m_queue /\ t.queueOrder = s.queueOrder
       /\ t.m_rolechecks = s.m_rolechecks
  <2>1. id \in Nat
    BY <1>6, LFTAssumption
  <2> QED
    BY <1>4, <1>5, <1>8, <1>9, <2>1 DEF Managers
<1>11. /\ DOMAIN t.m_offers = DOMAIN s.m_offers \cup {id} /\ t.m_offers[id] = o
       /\ \A x \in DOMAIN s.m_offers : t.m_offers[x] = s.m_offers[x] /\ x # id
       /\ DOMAIN t.m_playerOffers = DOMAIN s.m_playerOffers \cup DOMAIN roles
       /\ \A p \in DOMAIN roles : t.m_playerOffers[p] = id
       /\ \A p \in DOMAIN s.m_playerOffers :
            p \notin DOMAIN roles /\ t.m_playerOffers[p] = s.m_playerOffers[p]
  BY <1>3, <1>6, <1>8, <1>9, <1>10
<1>12. Indexed(t)
  <2>1. Indexed(s)
    BY DEF Good
  <2>2. ASSUME NEW p \in DOMAIN t.m_playerOffers
        PROVE  /\ t.m_playerOffers[p] \in DOMAIN t.m_offers
               /\ p \in DOMAIN t.m_offers[t.m_playerOffers[p]].roles
    <3>1. CASE p \in DOMAIN roles
      BY <1>7, <1>11, <3>1
    <3>2. CASE p \in DOMAIN s.m_playerOffers
      <4>1. PICK k : k = s.m_playerOffers[p]
        OBVIOUS
      <4>2. k \in DOMAIN s.m_offers /\ p \in DOMAIN s.m_offers[k].roles
        BY <2>1, <3>2, <4>1 DEF Indexed
      <4>3. t.m_playerOffers[p] = k /\ t.m_offers[k] = s.m_offers[k] /\ k \in DOMAIN t.m_offers
        BY <1>11, <3>2, <4>1, <4>2
      <4> QED
        BY <4>2, <4>3
    <3> QED
      BY <1>11, <3>1, <3>2
  <2>3. ASSUME NEW x \in DOMAIN t.m_offers, NEW p \in DOMAIN t.m_offers[x].roles
        PROVE  p \in DOMAIN t.m_playerOffers /\ t.m_playerOffers[p] = x
    <3>1. CASE x = id
      BY <1>7, <1>11, <3>1
    <3>2. CASE x # id
      <4>1. x \in DOMAIN s.m_offers /\ p \in DOMAIN s.m_offers[x].roles
        BY <1>11, <3>2
      <4>2. p \in DOMAIN s.m_playerOffers /\ s.m_playerOffers[p] = x
        BY <2>1, <4>1 DEF Indexed
      <4> QED
        BY <1>11, <4>2
    <3> QED
      BY <3>1, <3>2
  <2> QED
    BY <2>2, <2>3 DEF Indexed
<1>13. Counts(t)
  <2>1. /\ IsFiniteSet(DOMAIN s.m_offers) /\ IsFiniteSet(Players)
        /\ Cardinality(DOMAIN s.m_playerOffers) = GroupSize * Cardinality(DOMAIN s.m_offers)
        /\ GroupSize \in Nat /\ DOMAIN s.m_playerOffers \subseteq Players
    BY <1>5, Fields, MapIs, LFTAssumption DEF Good, Counts, GroupSize
  <2>2. /\ IsFiniteSet(DOMAIN s.m_offers \cup {id})
        /\ Cardinality(DOMAIN s.m_offers \cup {id}) = Cardinality(DOMAIN s.m_offers) + 1
        /\ Cardinality(DOMAIN s.m_offers) \in Nat
    BY <1>6, <2>1, FS_AddElement, FS_CardinalityType
  <2>3. IsFiniteSet(DOMAIN s.m_playerOffers) /\ IsFiniteSet(DOMAIN roles)
    BY <1>5, <2>1, FS_Subset
  <2>4. Cardinality(DOMAIN s.m_playerOffers \cap DOMAIN roles) = 0
    <3>1. DOMAIN s.m_playerOffers \cap DOMAIN roles = {}
      BY <1>11
    <3> QED
      BY <3>1, FS_EmptySet
  <2>5. Cardinality(DOMAIN s.m_playerOffers \cup DOMAIN roles)
          = Cardinality(DOMAIN s.m_playerOffers) + Cardinality(DOMAIN roles)
              - Cardinality(DOMAIN s.m_playerOffers \cap DOMAIN roles)
    BY <2>3, FS_Union
  <2>6. \A g, c \in Nat : g * c + g - 0 = g * (c + 1)
    OBVIOUS
  <2> QED
    BY <1>5, <1>11, <2>1, <2>2, <2>4, <2>5, <2>6 DEF Counts
<1>14. Knows(t, W) /\ ToSet(t.queueOrder) = DOMAIN t.m_queue
  BY <1>10, <1>11 DEF Good, Knows
<1>15. \A l \in DOMAIN t.m_rolechecks : OpenCheck(t.m_rolechecks[l])
  BY <1>10 DEF Good
<1>16. \A x \in DOMAIN t.m_offers : OpenOffer(t.m_offers[x])
  BY <1>7, <1>11 DEF Good
<1>17. Good(t, W)
  BY <1>10, <1>12, <1>13, <1>14, <1>15, <1>16 DEF Good
<1> QED
  BY <1>6, <1>7, <1>10, <1>11, <1>17

(* A role the selection still lacks.                                       *)
Open(roles, r) == Counted(roles, r) < Slots(r)

(* PickRole returns an open role of the mask if there is one.              *)
LEMMA PickRoleIs ==
    ASSUME NEW roleMask \in SUBSET Roles, NEW roles, NEW r, r = PickRole(roleMask, roles)
    PROVE  /\ r # "none" => r \in roleMask /\ Open(roles, r)
           /\ (\E x \in roleMask : Open(roles, x)) => r # "none"
<1> DEFINE open == {x \in roleMask : Counted(roles, x) < Slots(x)}
           order == <<"tank", "healer", "damage">>
           k == Keep(order, open)
<1>1. order \in Seq(Roles) /\ ToSet(order) = Roles
  <2>1. order \in Seq(Roles) /\ Len(order) = 3
    BY DEF Roles
  <2>2. order[1] = "tank" /\ order[2] = "healer" /\ order[3] = "damage"
    OBVIOUS
  <2> HIDE DEF order
  <2>3. ToSet(order) = {order[i] : i \in 1 .. 3}
    BY <2>1, ToSetIs
  <2>4. 1 .. 3 = {1, 2, 3}
    OBVIOUS
  <2>5. ToSet(order) = {order[1], order[2], order[3]}
    BY <2>3, <2>4
  <2> QED
    BY <2>1, <2>2, <2>5 DEF Roles
<1> HIDE DEF order
<1>2. k \in Seq(Roles) /\ ToSet(k) = Roles \cap open
  BY <1>1, KeepIs
<1>3. r = IF open = {} THEN "none" ELSE Head(k)
  BY DEF PickRole, order
<1> HIDE DEF k
<1>4. ASSUME open # {} PROVE Head(k) \in open
  <2>1. ToSet(k) # {} /\ ToSet(k) \subseteq open
    BY <1>2, <1>4
  <2>2. ToSet(k) = {k[i] : i \in 1 .. Len(k)} /\ Len(k) \in Nat
    BY <1>2, ToSetIs
  <2>3. Head(k) = k[1] /\ 1 \in 1 .. Len(k)
    BY <1>2, <2>1, <2>2
  <2> QED
    BY <2>1, <2>2, <2>3
<1>5. \A x : x \in open <=> x \in roleMask /\ Open(roles, x)
  BY DEF Open
<1>6. "none" \notin open
  BY DEF Roles
<1> HIDE DEF open
<1> QED
  BY <1>3, <1>4, <1>5, <1>6

(* The roles share a selection out.                                        *)
LEMMA RoleCounts ==
    ASSUME NEW roles \in Maps(Players, Roles)
    PROVE  /\ \A r \in Roles : Counted(roles, r) \in Nat
           /\ Cardinality(DOMAIN roles) = Counted(roles, "tank")
                + Counted(roles, "healer") + Counted(roles, "damage")
           /\ IsFiniteSet(DOMAIN roles)
<1> DEFINE In(r) == {p \in DOMAIN roles : roles[p] = r}
<1>1. /\ DOMAIN roles \subseteq Players /\ roles \in [DOMAIN roles -> Roles]
      /\ IsFiniteSet(DOMAIN roles)
  BY MapIs, LFTAssumption, FS_Subset
<1>2. \A r : /\ IsFiniteSet(In(r)) /\ Counted(roles, r) = Cardinality(In(r))
             /\ Cardinality(In(r)) \in Nat
  BY <1>1, FS_Subset, FS_CardinalityType DEF Counted
<1>3. DOMAIN roles = (In("tank") \cup In("healer")) \cup In("damage")
  BY <1>1 DEF Roles
<1>4. /\ In("tank") \cap In("healer") = {}
      /\ (In("tank") \cup In("healer")) \cap In("damage") = {}
  OBVIOUS
<1> HIDE DEF In
<1>5. IsFiniteSet(In("tank") \cup In("healer"))
  BY <1>2, FS_Union
<1>6. Cardinality(In("tank") \cup In("healer"))
        = Cardinality(In("tank")) + Cardinality(In("healer"))
            - Cardinality(In("tank") \cap In("healer"))
  BY <1>2, FS_Union
<1>7. Cardinality((In("tank") \cup In("healer")) \cup In("damage"))
        = Cardinality(In("tank") \cup In("healer")) + Cardinality(In("damage"))
            - Cardinality((In("tank") \cup In("healer")) \cap In("damage"))
  BY <1>2, <1>5, FS_Union
<1>8. Cardinality({}) = 0
  BY FS_EmptySet
<1>9. /\ Counted(roles, "tank") = Cardinality(In("tank")) /\ Cardinality(In("tank")) \in Nat
      /\ Counted(roles, "healer") = Cardinality(In("healer"))
      /\ Cardinality(In("healer")) \in Nat
      /\ Counted(roles, "damage") = Cardinality(In("damage"))
      /\ Cardinality(In("damage")) \in Nat
  BY <1>2
<1>10. Cardinality(In("tank") \cup In("healer"))
         = Cardinality(In("tank")) + Cardinality(In("healer"))
  BY <1>4, <1>6, <1>8, <1>9
<1>11. Cardinality(DOMAIN roles) = Cardinality(In("tank")) + Cardinality(In("healer"))
                                     + Cardinality(In("damage"))
  <2>1. /\ Cardinality(DOMAIN roles)
             = Cardinality((In("tank") \cup In("healer")) \cup In("damage"))
        /\ Cardinality((In("tank") \cup In("healer")) \cap In("damage")) = 0
    BY <1>3, <1>4, <1>8, Zenon
  <2> QED
    BY <1>7, <1>9, <1>10, <2>1
<1> QED
  BY <1>1, <1>2, <1>9, <1>11

(* No role has more players than slots.                                    *)
Bounded(roles) == \A r \in Roles : Counted(roles, r) <= Slots(r)

(* A selection with an open role has room; one without is a full group.    *)
LEMMA RoomOrFull ==
    ASSUME NEW roles \in Maps(Players, Roles), Bounded(roles)
    PROVE  /\ (\E r \in Roles : Open(roles, r)) => Cardinality(DOMAIN roles) < GroupSize
           /\ (\A r \in Roles : ~Open(roles, r)) => FullGroup(roles)
<1>1. /\ \A r \in Roles : Counted(roles, r) \in Nat
      /\ Cardinality(DOMAIN roles) = Counted(roles, "tank")
           + Counted(roles, "healer") + Counted(roles, "damage")
  BY RoleCounts
<1>2. /\ DamageSlots \in Nat /\ Slots("tank") = 1 /\ Slots("healer") = 1
      /\ Slots("damage") = DamageSlots /\ Roles = {"tank", "healer", "damage"}
      /\ GroupSize = DamageSlots + 2
  BY LFTAssumption DEF Slots, Roles, GroupSize
<1> QED
  BY <1>1, <1>2 DEF Bounded, Open, FullGroup

(* b has the entries of a, and perhaps more.                               *)
Extends(b, a) == DOMAIN a \subseteq DOMAIN b /\ \A p \in DOMAIN a : b[p] = a[p]

(* What is open in the larger selection was open before.                   *)
LEMMA OpenBefore ==
    ASSUME NEW a \in Maps(Players, Roles), NEW b \in Maps(Players, Roles), Extends(b, a),
           NEW r \in Roles, Open(b, r)
    PROVE  Open(a, r)
<1> DEFINE A == {p \in DOMAIN a : a[p] = r}
           B == {p \in DOMAIN b : b[p] = r}
<1>1. A \subseteq B
  BY DEF Extends
<1>2. IsFiniteSet(B)
  <2>1. B \subseteq Players
    BY MapIs
  <2> QED
    BY <2>1, LFTAssumption, FS_Subset
<1>3. Cardinality(A) <= Cardinality(B) /\ Counted(a, r) = Cardinality(A)
      /\ Counted(b, r) = Cardinality(B)
  BY <1>1, <1>2, FS_Subset DEF Counted
<1>4. Counted(a, r) \in Nat /\ Counted(b, r) \in Nat /\ Slots(r) \in Nat
  BY RoleCounts, LFTAssumption DEF Slots
<1> QED
  BY <1>3, <1>4 DEF Open

(* A player the matcher may take in this role, for this seed.              *)
Fits(s, instance, seed, p, r) ==
    /\ p \in DOMAIN s.m_queue /\ Waiting(s, p, instance) /\ r \in s.m_queue[p].roleMask
    /\ CanQueuedPlayersGroup(seed, p)

(* A selection takes only such players, and no more than there are slots.  *)
Selected(s, instance, seed, roles) ==
    /\ roles \in Maps(Players, Roles) /\ Bounded(roles)
    /\ \A p \in DOMAIN roles : Fits(s, instance, seed, p, roles[p])

(* It splits no block.                                                     *)
Closed(s, roles) == \A p \in DOMAIN roles : ToSet(Block(s, p)) \subseteq DOMAIN roles

(* A block is a part of the queue, the same for each of its members.       *)
LEMMA BlockIs ==
    ASSUME NEW s \in Managers, ToSet(s.queueOrder) = DOMAIN s.m_queue, NEW p
    PROVE  /\ Block(s, p) \in Seq(DOMAIN s.m_queue)
           /\ \A q \in ToSet(Block(s, p)) : Block(s, q) = Block(s, p)
<1> DEFINE B == {q \in DOMAIN s.m_queue : QueueLeader(s, q) = QueueLeader(s, p)}
<1>1. Block(s, p) = Keep(s.queueOrder, B)
  BY DEF Block
<1>2. s.queueOrder \in Seq(Players)
  BY Fields
<1>3. Block(s, p) \in Seq(Players) /\ ToSet(Block(s, p)) = ToSet(s.queueOrder) \cap B
  <2> HIDE DEF B
  <2> QED
    BY <1>1, <1>2, KeepIs
<1>4. Block(s, p) \in Seq(DOMAIN s.m_queue)
  <2>1. ToSet(Block(s, p)) \subseteq DOMAIN s.m_queue
    BY <1>3
  <2> QED
    BY <1>3, <2>1, SeqOver
<1>5. ASSUME NEW q \in ToSet(Block(s, p)) PROVE Block(s, q) = Block(s, p)
  <2>1. QueueLeader(s, q) = QueueLeader(s, p)
    BY <1>3
  <2> QED
    BY <2>1 DEF Block
<1> QED
  BY <1>4, <1>5

(* A player in an open role leaves the roles bounded.                      *)
LEMMA PutBounded ==
    ASSUME NEW roles \in Maps(Players, Roles), Bounded(roles),
           NEW p \in Players, NEW r \in Roles, Open(roles, r)
    PROVE  Bounded(Put(roles, p, r))
<1> DEFINE b == Put(roles, p, r)
<1>1. /\ DOMAIN b = DOMAIN roles \cup {p} /\ b[p] = r
      /\ \A x \in DOMAIN roles : x # p => b[x] = roles[x]
  BY DEF Put
<1>2. \A x \in Roles : Slots(x) \in Nat /\ Counted(roles, x) \in Nat
  BY RoleCounts, LFTAssumption DEF Slots
<1> HIDE DEF b
<1> SUFFICES ASSUME NEW x \in Roles PROVE Counted(b, x) <= Slots(x)
  BY DEF Bounded, b
<1> DEFINE A == {q \in DOMAIN roles : roles[q] = x}
           B == {q \in DOMAIN b : b[q] = x}
<1>3. /\ IsFiniteSet(A) /\ Counted(roles, x) = Cardinality(A)
      /\ Counted(b, x) = Cardinality(B) /\ Cardinality(A) \in Nat
  BY RoleCounts, FS_Subset, FS_CardinalityType DEF Counted
<1>4. CASE x = r
  <2>1. B \subseteq A \cup {p}
    BY <1>1
  <2> HIDE DEF A, B
  <2>2. IsFiniteSet(A \cup {p}) /\ Cardinality(A \cup {p}) <= Cardinality(A) + 1
    <3>1. CASE p \in A
      <4>1. A \cup {p} = A
        BY <3>1
      <4>2. IsFiniteSet(A \cup {p}) /\ Cardinality(A \cup {p}) = Cardinality(A)
        BY <1>3, <4>1, Zenon
      <4> QED
        BY <1>3, <4>2
    <3>2. CASE p \notin A
      <4>1. IsFiniteSet(A \cup {p}) /\ Cardinality(A \cup {p}) = Cardinality(A) + 1
        BY <1>3, <3>2, FS_AddElement
      <4> QED
        BY <1>3, <4>1
    <3> QED
      BY <3>1, <3>2
  <2>3. Cardinality(B) <= Cardinality(A \cup {p}) /\ Cardinality(B) \in Nat
        /\ Cardinality(A \cup {p}) \in Nat
    BY <2>1, <2>2, FS_Subset, FS_CardinalityType
  <2> QED
    BY <1>2, <1>3, <1>4, <2>2, <2>3 DEF Open
<1>5. CASE x # r
  <2>1. B \subseteq A
    BY <1>1, <1>5
  <2> HIDE DEF A, B
  <2>2. Cardinality(B) <= Cardinality(A) /\ Cardinality(B) \in Nat
    BY <1>3, <2>1, FS_Subset, FS_CardinalityType
  <2> QED
    BY <1>2, <1>3, <2>2 DEF Bounded
<1> QED
  BY <1>4, <1>5

(* The accumulators of AddBlock.                                           *)
Partial(s, instance, seed, roles, D) ==
    {a \in [fits : BOOLEAN, roles : Maps(Players, Roles)] :
       /\ Selected(s, instance, seed, a.roles)
       /\ Extends(a.roles, roles) /\ DOMAIN a.roles \subseteq DOMAIN roles \cup D}

FitStep(s, instance, seed, roles, acc, q) ==
    LET r == PickRole(s.m_queue[q].roleMask, acc.roles)
    IN  IF /\ acc.fits /\ q \notin DOMAIN roles /\ Waiting(s, q, instance)
           /\ CanQueuedPlayersGroup(seed, q) /\ r # "none"
        THEN [fits |-> TRUE, roles |-> Put(acc.roles, q, r)]
        ELSE [fits |-> FALSE, roles |-> roles]

(* A step of AddBlock: a block that still fits has taken the player.       *)
LEMMA FitStepIs ==
    ASSUME NEW s \in Managers, NEW instance, NEW seed, NEW roles,
           Selected(s, instance, seed, roles), NEW D, D \subseteq DOMAIN s.m_queue,
           NEW acc \in Partial(s, instance, seed, roles, D), NEW q \in D,
           NEW b, b = FitStep(s, instance, seed, roles, acc, q)
    PROVE  /\ b \in Partial(s, instance, seed, roles, D)
           /\ b.fits => acc.fits /\ DOMAIN b.roles = DOMAIN acc.roles \cup {q}
<1> DEFINE r == PickRole(s.m_queue[q].roleMask, acc.roles)
           ok == /\ acc.fits /\ q \notin DOMAIN roles /\ Waiting(s, q, instance)
                 /\ CanQueuedPlayersGroup(seed, q) /\ r # "none"
<1>1. /\ acc.fits \in BOOLEAN /\ Selected(s, instance, seed, acc.roles)
      /\ acc.roles \in Maps(Players, Roles) /\ roles \in Maps(Players, Roles)
      /\ Extends(acc.roles, roles) /\ DOMAIN acc.roles \subseteq DOMAIN roles \cup D
  BY DEF Partial, Selected
<1>2. q \in Players /\ q \in DOMAIN s.m_queue /\ s.m_queue[q].roleMask \in SUBSET Roles
  BY EntryIs
<1>3. CASE ok
  <2>1. r \in s.m_queue[q].roleMask /\ r \in Roles /\ Open(acc.roles, r)
    <3>1. r # "none"
      BY <1>3
    <3> QED
      BY <1>2, <3>1, PickRoleIs
  <2>2. Fits(s, instance, seed, q, r)
    BY <1>2, <1>3, <2>1 DEF Fits
  <2>3. b = [fits |-> TRUE, roles |-> Put(acc.roles, q, r)]
    BY <1>3 DEF FitStep
  <2> HIDE DEF r
  <2>4. /\ Selected(s, instance, seed, Put(acc.roles, q, r))
        /\ DOMAIN Put(acc.roles, q, r) = DOMAIN acc.roles \cup {q}
    <3> SUFFICES ASSUME NEW a, a = acc.roles, NEW x, x = r
                 PROVE  /\ Selected(s, instance, seed, Put(a, q, x))
                        /\ DOMAIN Put(a, q, x) = DOMAIN a \cup {q}
      OBVIOUS
    <3>1. /\ Selected(s, instance, seed, a) /\ Open(a, x) /\ q \in Players /\ x \in Roles
          /\ Fits(s, instance, seed, q, x)
      BY <1>1, <1>2, <2>1, <2>2
    <3>2. Put(a, q, x) \in Maps(Players, Roles)
      BY <3>1, PutIn DEF Selected
    <3>3. Bounded(Put(a, q, x))
      BY <3>1, PutBounded DEF Selected
    <3>4. /\ DOMAIN Put(a, q, x) = DOMAIN a \cup {q} /\ Put(a, q, x)[q] = x
          /\ \A y \in DOMAIN a : y # q => Put(a, q, x)[y] = a[y]
      BY DEF Put
    <3> QED
      BY <3>1, <3>2, <3>3, <3>4 DEF Selected
  <2>5. Put(acc.roles, q, r) \in Maps(Players, Roles)
    BY <2>4 DEF Selected
  <2>6. b.fits = TRUE /\ b.roles = Put(acc.roles, q, r)
        /\ b \in [fits : BOOLEAN, roles : Maps(Players, Roles)]
    BY <2>3, <2>5
  <2>7. acc.fits /\ q \notin DOMAIN roles
    BY <1>3
  <2>8. Extends(Put(acc.roles, q, r), roles)
    BY <1>1, <2>4, <2>7 DEF Extends, Put
  <2> QED
    BY <1>1, <2>4, <2>6, <2>7, <2>8 DEF Partial
<1>4. CASE ~ok
  <2>1. b = [fits |-> FALSE, roles |-> roles]
    BY <1>4 DEF FitStep
  <2>2. b.fits = FALSE /\ b.roles = roles
        /\ b \in [fits : BOOLEAN, roles : Maps(Players, Roles)]
    BY <1>1, <2>1
  <2>3. Extends(roles, roles)
    BY DEF Extends
  <2> QED
    BY <1>1, <2>2, <2>3 DEF Partial
<1> QED
  BY <1>3, <1>4

(* A player who is a block alone and may still be taken.                   *)
Alone(s, instance, seed, p) ==
    /\ p \in DOMAIN s.m_queue /\ Len(Block(s, p)) = 1
    /\ Waiting(s, p, instance) /\ CanQueuedPlayersGroup(seed, p)

Wanted(s, roles, p) ==
    \E r \in s.m_queue[p].roleMask : Open(roles, r)

(* There is room for a player with an open role.                           *)
LEMMA WantedRoom ==
    ASSUME NEW s \in Managers, NEW p \in DOMAIN s.m_queue,
           NEW roles \in Maps(Players, Roles), Bounded(roles), Wanted(s, roles, p)
    PROVE  Cardinality(DOMAIN roles) < GroupSize
<1>1. s.m_queue[p].roleMask \in SUBSET Roles
  BY EntryIs
<1>2. \E r \in Roles : Open(roles, r)
  BY <1>1 DEF Wanted
<1> QED
  BY <1>2, RoomOrFull

(* Who may be taken late could have been taken before.                     *)
LEMMA WantedBefore ==
    ASSUME NEW s \in Managers, NEW p \in DOMAIN s.m_queue,
           NEW a \in Maps(Players, Roles), NEW b \in Maps(Players, Roles), Extends(b, a),
           Wanted(s, b, p)
    PROVE  Wanted(s, a, p)
<1>1. s.m_queue[p].roleMask \in SUBSET Roles
  BY EntryIs
<1>2. PICK r \in s.m_queue[p].roleMask : Open(b, r)
  BY DEF Wanted
<1>3. Open(a, r)
  BY <1>1, <1>2, OpenBefore
<1> QED
  BY <1>3 DEF Wanted

(* A player who waits is in the player's own block.                        *)
LEMMA BlockHas ==
    ASSUME NEW s \in Managers, ToSet(s.queueOrder) = DOMAIN s.m_queue,
           NEW p \in DOMAIN s.m_queue
    PROVE  p \in ToSet(Block(s, p))
<1> DEFINE B == {q \in DOMAIN s.m_queue : QueueLeader(s, q) = QueueLeader(s, p)}
<1>1. Block(s, p) = Keep(s.queueOrder, B) /\ p \in B
  BY DEF Block
<1>2. s.queueOrder \in Seq(Players)
  BY Fields
<1> HIDE DEF B
<1>3. ToSet(Block(s, p)) = ToSet(s.queueOrder) \cap B
  BY <1>1, <1>2, KeepIs
<1> QED
  BY <1>1, <1>3

(* A step of AddBlock takes a player who may be taken.                     *)
LEMMA FitStepTakes ==
    ASSUME NEW s \in Managers, NEW instance, NEW seed, NEW roles \in Maps(Players, Roles),
           NEW p \in DOMAIN s.m_queue \ DOMAIN roles, Waiting(s, p, instance),
           CanQueuedPlayersGroup(seed, p), Wanted(s, roles, p),
           NEW b, b = FitStep(s, instance, seed, roles, [fits |-> TRUE, roles |-> roles], p)
    PROVE  b.fits /\ DOMAIN b.roles = DOMAIN roles \cup {p}
<1> DEFINE acc == [fits |-> TRUE, roles |-> roles]
           r == PickRole(s.m_queue[p].roleMask, acc.roles)
<1>1. s.m_queue[p].roleMask \in SUBSET Roles
  BY EntryIs
<1>2. acc.fits = TRUE /\ acc.roles = roles
  OBVIOUS
<1>3. r # "none"
  BY <1>1, <1>2, PickRoleIs DEF Wanted
<1>4. b = [fits |-> TRUE, roles |-> Put(roles, p, r)]
  BY <1>2, <1>3 DEF FitStep
<1> HIDE DEF r
<1>5. DOMAIN Put(roles, p, r) = DOMAIN roles \cup {p}
  BY PutValues
<1>6. b.fits = TRUE /\ b.roles = Put(roles, p, r)
  BY <1>4
<1> QED
  BY <1>5, <1>6

(* AddBlock keeps a selection one that splits no block, gives nobody a     *)
(* different role, and takes a player who is alone in a block.             *)
LEMMA AddBlockKeeps ==
    ASSUME NEW s \in Managers, ToSet(s.queueOrder) = DOMAIN s.m_queue,
           NEW instance, NEW seed, NEW roles,
           Selected(s, instance, seed, roles), Closed(s, roles), NEW p
    PROVE  /\ Selected(s, instance, seed, AddBlock(s, instance, seed, roles, p))
           /\ Closed(s, AddBlock(s, instance, seed, roles, p))
           /\ Extends(AddBlock(s, instance, seed, roles, p), roles)
           /\ Alone(s, instance, seed, p) /\ Wanted(s, roles, p)
              => p \in DOMAIN AddBlock(s, instance, seed, roles, p)
<1> DEFINE seq == Block(s, p)
           X == ToSet(Block(s, p))
           A == Partial(s, instance, seed, roles, X)
           base == [fits |-> TRUE, roles |-> roles]
           Step(a, x) == FitStep(s, instance, seed, roles, a, x)
           f == [u \in A \X X |-> Step(u[1], u[2])]
           n == Len(seq)
           Is(g) == g = [u \in SUBSET DOMAIN seq |->
                           IF u = {} THEN base ELSE Step(g[u \ {Max(u)}], seq[Max(u)])]
           it == CHOOSE g : Is(g)
           all == it[DOMAIN seq]
           result == AddBlock(s, instance, seed, roles, p)
<1>0. result = IF all.fits /\ Cardinality(DOMAIN all.roles) <= GroupSize
               THEN all.roles ELSE roles
  BY Zenon DEF AddBlock, FoldLeft, MapThenFoldSet, FitStep
<1> HIDE DEF result
<1>1. /\ seq \in Seq(X) /\ X \subseteq DOMAIN s.m_queue /\ n \in Nat /\ DOMAIN seq = 1 .. n
      /\ X = {seq[i] : i \in 1 .. n}
  <2>1. seq \in Seq(DOMAIN s.m_queue)
    BY BlockIs
  <2>2. X \subseteq DOMAIN s.m_queue /\ X = {seq[i] : i \in 1 .. n} /\ n \in Nat
    BY <2>1, ToSetIs
  <2>3. seq \in Seq(X)
    BY <2>1, SeqOver
  <2> QED
    BY <2>1, <2>2, <2>3
<1>2. base \in A
  <2>1. roles \in Maps(Players, Roles) /\ Extends(roles, roles)
    BY DEF Selected, Extends
  <2> QED
    BY <2>1 DEF Partial
<1>3. \A i \in 1 .. n : seq[i] \in X
  BY <1>1
<1>4. ASSUME NEW a \in A, NEW x \in X
      PROVE  /\ Step(a, x) \in A
             /\ Step(a, x).fits => a.fits /\ DOMAIN Step(a, x).roles = DOMAIN a.roles \cup {x}
  <2> HIDE DEF X
  <2> QED
    BY <1>1, FitStepIs
<1>4a. ASSUME Alone(s, instance, seed, p), Wanted(s, roles, p), p \notin DOMAIN roles
       PROVE  Step(base, p).fits /\ DOMAIN Step(base, p).roles = DOMAIN roles \cup {p}
  <2>1. roles \in Maps(Players, Roles)
    BY DEF Selected
  <2> QED
    BY <1>4a, <2>1, FitStepTakes DEF Alone
<1> HIDE DEF Step
<1>5. f \in [A \X X -> A] /\ \A a \in A, x \in X : f[<<a, x>>] = Step(a, x)
  <2> HIDE DEF A
  <2> QED
    BY <1>4
<1> HIDE DEF A, base, f, seq, X
<1>6. PICK g : FoldValues(g, A, X, base, seq, f)
  BY <1>1, <1>2, <1>5, IteratesExist
<1>7. Is(g)
  <2>1. \A u \in SUBSET (1 .. n) :
          g[u] = IF u = {} THEN base ELSE Step(g[u \ {Max(u)}], seq[Max(u)])
    BY <1>5, <1>6 DEF FoldValues, Iterates
  <2>2. g = [u \in SUBSET (1 .. n) |-> g[u]]
    BY <1>6 DEF FoldValues
  <2> QED
    BY <1>1, <2>1, <2>2
<1>8. Is(it)
  <2> HIDE DEF Is
  <2> QED
    BY <1>7
<1> HIDE DEF it
<1>9. it[{}] = base
  BY <1>1, <1>8
<1>10. ASSUME NEW i \in 1 .. n
       PROVE  it[1 .. i] = Step(it[1 .. i - 1], seq[i])
  <2>1. 1 .. i \in SUBSET (1 .. n) /\ i \in Nat /\ i # 0
    BY <1>1
  <2> QED
    BY <1>1, <1>8, <2>1, PrefixMax, PrefixLess
<1> DEFINE T == {i \in 0 .. n : /\ it[1 .. i] \in A
                                /\ it[1 .. i].fits =>
                                     {seq[j] : j \in 1 .. i} \subseteq DOMAIN it[1 .. i].roles}
<1>11. 0 \in T
  BY <1>1, <1>2, <1>9
<1>12. ASSUME NEW i \in 1 .. n, i - 1 \in T PROVE i \in T
  <2>1. PICK a : a = it[1 .. i - 1]
    OBVIOUS
  <2>2. PICK b : b = it[1 .. i]
    OBVIOUS
  <2>3. a \in A /\ (a.fits => {seq[j] : j \in 1 .. i - 1} \subseteq DOMAIN a.roles)
    BY <1>12, <2>1
  <2>4. b = Step(a, seq[i])
    BY <1>10, <2>1, <2>2
  <2>5. b \in A /\ (b.fits => a.fits /\ DOMAIN b.roles = DOMAIN a.roles \cup {seq[i]})
    BY <1>3, <1>4, <2>3, <2>4
  <2>6. \A j : j \in 1 .. i <=> j \in 1 .. i - 1 \/ j = i
    BY <1>1
  <2>7. b.fits => {seq[j] : j \in 1 .. i} \subseteq DOMAIN b.roles
    BY <2>3, <2>5, <2>6
  <2> QED
    BY <1>1, <2>2, <2>5, <2>7
<1>13. n \in T
  <2> HIDE DEF T
  <2>1. \A i \in 0 .. n : i \in T
    BY <1>1, <1>11, <1>12, UpTo
  <2> QED
    BY <1>1, <2>1
<1>14. all \in A /\ (all.fits => X \subseteq DOMAIN all.roles)
  BY <1>1, <1>13
<1> HIDE DEF all
<1>15. /\ Selected(s, instance, seed, all.roles) /\ Extends(all.roles, roles)
       /\ DOMAIN roles \subseteq DOMAIN all.roles
       /\ DOMAIN all.roles \subseteq DOMAIN roles \cup X
  BY <1>14 DEF A, Partial, Extends
<1>16. ASSUME all.fits PROVE Closed(s, all.roles)
  <2> SUFFICES ASSUME NEW q \in DOMAIN all.roles
               PROVE  ToSet(Block(s, q)) \subseteq DOMAIN all.roles
    BY DEF Closed
  <2>1. CASE q \in DOMAIN roles
    BY <1>15, <2>1 DEF Closed
  <2>2. CASE q \in X
    <3>1. Block(s, q) = Block(s, p)
      BY <2>2, BlockIs DEF X
    <3> QED
      BY <1>14, <1>16, <3>1 DEF X
  <2> QED
    BY <1>15, <2>1, <2>2
<1>17. Extends(roles, roles)
  BY DEF Extends
<1>18. ASSUME Alone(s, instance, seed, p), Wanted(s, roles, p) PROVE p \in DOMAIN result
  <2>1. CASE p \in DOMAIN roles
    BY <1>0, <1>15, <2>1
  <2>2. CASE p \notin DOMAIN roles
    <3>1. n = 1 /\ p \in X
      BY <1>18, BlockHas DEF Alone, X, seq
    <3>2. seq[1] = p /\ 1 \in 1 .. n /\ 1 .. 1 - 1 = {}
      BY <1>1, <3>1
    <3>3. it[1 .. 1] = Step(it[1 .. 1 - 1], seq[1])
      BY <1>10, <3>2
    <3>4. all = Step(base, p)
      BY <1>1, <1>9, <3>1, <3>2, <3>3 DEF all
    <3>5. all.fits /\ DOMAIN all.roles = DOMAIN roles \cup {p}
      BY <1>4a, <1>18, <2>2, <3>4
    <3>6. Cardinality(DOMAIN all.roles) <= GroupSize
      <4>1. roles \in Maps(Players, Roles) /\ Bounded(roles)
        BY DEF Selected
      <4>2. Cardinality(DOMAIN roles) < GroupSize
        BY <1>18, <4>1, WantedRoom DEF Alone
      <4>3. /\ IsFiniteSet(DOMAIN roles) /\ Cardinality(DOMAIN roles) \in Nat
            /\ GroupSize \in Nat
        BY <4>1, RoleCounts, FS_CardinalityType, LFTAssumption DEF GroupSize
      <4>4. Cardinality(DOMAIN roles \cup {p}) = Cardinality(DOMAIN roles) + 1
        BY <2>2, <4>3, FS_AddElement
      <4> QED
        BY <3>5, <4>2, <4>3, <4>4
    <3> QED
      BY <1>0, <3>5, <3>6
  <2> QED
    BY <2>1, <2>2
<1> QED
  BY <1>0, <1>15, <1>16, <1>17, <1>18 DEF result

(* The greedy selection takes only players that fit, splits no block, and  *)
(* passes over no player alone in a block while a role of theirs is open.  *)
LEMMA SelectionIs ==
    ASSUME NEW s \in Managers, ToSet(s.queueOrder) = DOMAIN s.m_queue,
           NEW instance, NEW seed
    PROVE  /\ Selected(s, instance, seed, SelectedRoles(s, instance, seed))
           /\ Closed(s, SelectedRoles(s, instance, seed))
           /\ \A p : Alone(s, instance, seed, p) =>
                \/ p \in DOMAIN SelectedRoles(s, instance, seed)
                \/ ~Wanted(s, SelectedRoles(s, instance, seed), p)
<1> DEFINE seq == s.queueOrder
           X == Players
           A == {roles \in Maps(Players, Roles) :
                   Selected(s, instance, seed, roles) /\ Closed(s, roles)}
           base == EmptyMap
           Step(a, x) == IF /\ Cardinality(DOMAIN a) < GroupSize /\ x \notin DOMAIN a
                            /\ Waiting(s, x, instance) /\ CanQueuedPlayersGroup(seed, x)
                         THEN AddBlock(s, instance, seed, a, x) ELSE a
           f == [u \in A \X X |-> Step(u[1], u[2])]
           n == Len(seq)
           Is(g) == g = [u \in SUBSET DOMAIN seq |->
                           IF u = {} THEN base ELSE Step(g[u \ {Max(u)}], seq[Max(u)])]
           it == CHOOSE g : Is(g)
<1>0. SelectedRoles(s, instance, seed) = it[DOMAIN seq]
  BY Zenon DEF SelectedRoles, FoldLeft, MapThenFoldSet
<1>1. seq \in Seq(X) /\ n \in Nat /\ DOMAIN seq = 1 .. n /\ \A i \in 1 .. n : seq[i] \in X
  <2>1. seq \in Seq(X)
    BY Fields
  <2> HIDE DEF seq
  <2> QED
    BY <2>1
<1>2. base \in A
  <2>1. EmptyMap \in Maps(Players, Roles) /\ DOMAIN EmptyMap = {}
    BY EmptyIs
  <2>2. Bounded(EmptyMap)
    <3>1. \A r : {p \in DOMAIN EmptyMap : EmptyMap[p] = r} = {}
      BY <2>1
    <3>2. \A r : Counted(EmptyMap, r) = 0
      BY <3>1, FS_EmptySet DEF Counted
    <3>3. \A r : 0 <= Slots(r)
      BY LFTAssumption DEF Slots
    <3> QED
      BY <3>2, <3>3 DEF Bounded
  <2> QED
    BY <2>1, <2>2 DEF Selected, Closed
<1>3. ASSUME NEW a \in A, NEW x \in X
      PROVE  /\ Step(a, x) \in A /\ Extends(Step(a, x), a)
             /\ Alone(s, instance, seed, x) /\ Wanted(s, a, x) => x \in DOMAIN Step(a, x)
  <2>1. PICK b : b = AddBlock(s, instance, seed, a, x)
    OBVIOUS
  <2>2. /\ Selected(s, instance, seed, b) /\ Closed(s, b) /\ Extends(b, a)
        /\ Alone(s, instance, seed, x) /\ Wanted(s, a, x) => x \in DOMAIN b
    BY <2>1, AddBlockKeeps
  <2>3. b \in Maps(Players, Roles) /\ Extends(a, a)
    BY <2>2 DEF Selected, Extends
  <2>4. Step(a, x) = IF /\ Cardinality(DOMAIN a) < GroupSize /\ x \notin DOMAIN a
                        /\ Waiting(s, x, instance) /\ CanQueuedPlayersGroup(seed, x)
                     THEN b ELSE a
    BY <2>1
  <2> HIDE DEF Step
  <2>5. Step(a, x) \in A /\ Extends(Step(a, x), a)
    BY <2>2, <2>3, <2>4
  <2>6. ASSUME Alone(s, instance, seed, x), Wanted(s, a, x) PROVE x \in DOMAIN Step(a, x)
    <3>1. Cardinality(DOMAIN a) < GroupSize
      BY <2>6, WantedRoom DEF Alone, Selected
    <3> QED
      BY <2>2, <2>4, <2>6, <3>1 DEF Alone
  <2> QED
    BY <2>5, <2>6
<1> HIDE DEF Step
<1>4. f \in [A \X X -> A] /\ \A a \in A, x \in X : f[<<a, x>>] = Step(a, x)
  <2> HIDE DEF A
  <2> QED
    BY <1>3
<1> HIDE DEF A, base, f, seq, X
<1>5. PICK g : FoldValues(g, A, X, base, seq, f)
  BY <1>1, <1>2, <1>4, IteratesExist
<1>6. Is(g)
  <2>1. \A u \in SUBSET (1 .. n) :
          g[u] = IF u = {} THEN base ELSE Step(g[u \ {Max(u)}], seq[Max(u)])
    BY <1>4, <1>5 DEF FoldValues, Iterates
  <2>2. g = [u \in SUBSET (1 .. n) |-> g[u]]
    BY <1>5 DEF FoldValues
  <2> QED
    BY <1>1, <2>1, <2>2
<1>7. Is(it)
  <2> HIDE DEF Is
  <2> QED
    BY <1>6
<1> HIDE DEF it
<1>8. it[{}] = base
  BY <1>1, <1>7
<1>9. ASSUME NEW i \in 1 .. n
      PROVE  it[1 .. i] = Step(it[1 .. i - 1], seq[i])
  <2>1. 1 .. i \in SUBSET (1 .. n) /\ i \in Nat /\ i # 0
    BY <1>1
  <2> QED
    BY <1>1, <1>7, <2>1, PrefixMax, PrefixLess
<1>10. \A i \in 0 .. n : it[1 .. i] \in A
  <2>1. it[{}] \in A /\ \A i \in 1 .. n : it[1 .. i - 1] \in A => it[1 .. i] \in A
    BY <1>1, <1>2, <1>3, <1>8, <1>9
  <2> QED
    BY <1>1, <2>1, FoldChain
<1>11. it[DOMAIN seq] \in A
  BY <1>1, <1>10
<1>12. ASSUME NEW p, Alone(s, instance, seed, p)
       PROVE  p \in DOMAIN it[DOMAIN seq] \/ ~Wanted(s, it[DOMAIN seq], p)
  <2>1. p \in DOMAIN s.m_queue
    BY <1>12 DEF Alone
  <2>2. PICK k \in 1 .. n : seq[k] = p
    BY <1>1, <2>1, ToSetIs DEF seq
  <2> DEFINE T == {i \in 0 .. n : i >= k => \/ p \in DOMAIN it[1 .. i]
                                            \/ ~Wanted(s, it[1 .. i], p)}
  <2>3. 0 \in T
    BY <1>1, <2>2
  <2>4. ASSUME NEW i \in 1 .. n, i - 1 \in T PROVE i \in T
    <3>1. PICK a : a = it[1 .. i - 1]
      OBVIOUS
    <3>2. PICK b : b = it[1 .. i]
      OBVIOUS
    <3>3. i - 1 \in 0 .. n /\ i \in 0 .. n
      BY <1>1
    <3>4. a \in A /\ seq[i] \in X /\ b = Step(a, seq[i])
      BY <1>1, <1>9, <1>10, <3>1, <3>2, <3>3
    <3>5. /\ b \in A /\ Extends(b, a)
          /\ Alone(s, instance, seed, seq[i]) /\ Wanted(s, a, seq[i]) => seq[i] \in DOMAIN b
      BY <1>3, <3>4
    <3>6. Wanted(s, b, p) => Wanted(s, a, p)
      <4>1. a \in Maps(Players, Roles) /\ b \in Maps(Players, Roles)
        BY <3>4, <3>5 DEF A
      <4> QED
        BY <2>1, <3>5, <4>1, WantedBefore
    <3>7. CASE i = k
      <4>1. p \in DOMAIN b \/ ~Wanted(s, b, p)
        BY <1>12, <2>2, <3>5, <3>6, <3>7
      <4> QED
        BY <3>2, <3>3, <4>1
    <3>8. CASE i # k
      <4>1. i >= k => i - 1 >= k
        BY <1>1, <3>8
      <4>2. i >= k => p \in DOMAIN a \/ ~Wanted(s, a, p)
        BY <2>4, <3>1, <4>1
      <4>3. i >= k => p \in DOMAIN b \/ ~Wanted(s, b, p)
        BY <3>5, <3>6, <4>2 DEF Extends
      <4> QED
        BY <3>2, <3>3, <4>3
    <3> QED
      BY <3>7, <3>8
  <2>5. n \in T
    <3> HIDE DEF T
    <3>1. \A i \in 0 .. n : i \in T
      BY <1>1, <2>3, <2>4, UpTo
    <3> QED
      BY <1>1, <3>1
  <2> QED
    BY <1>1, <2>2, <2>5
<1> QED
  BY <1>0, <1>11, <1>12 DEF A

(* What OffersAreSound says of a new offer.                                *)
SoundOffer(s, offer) ==
    /\ FullGroup(offer.roles)
    /\ \A p \in DOMAIN offer.roles :
         /\ p \in DOMAIN s.m_queue
         /\ offer.instance \in s.m_queue[p].instances
         /\ offer.roles[p] \in s.m_queue[p].roleMask
         /\ ToSet(Block(s, p)) \subseteq DOMAIN offer.roles
    /\ \E seed \in DOMAIN s.m_queue :
         /\ offer.instance \in s.m_queue[seed].instances
         /\ \A p \in DOMAIN offer.roles : CanQueuedPlayersGroup(seed, p)

Sound(s, t) ==
    \A id \in DOMAIN t.m_offers \ DOMAIN s.m_offers : SoundOffer(t, t.m_offers[id])

(* No offer is withdrawn.                                                  *)
Grows(s, t) ==
    /\ Extends(t.m_offers, s.m_offers)
    /\ DOMAIN s.m_playerOffers \subseteq DOMAIN t.m_playerOffers

(* The matcher adds sound offers and leaves the queue alone.               *)
Matched(s, t, W) ==
    /\ Good(t, W) /\ t.m_queue = s.m_queue /\ t.queueOrder = s.queueOrder
    /\ Sound(s, t) /\ Grows(s, t)

(* What NoMissedMatch says of a full group of players who wait alone.      *)
Match(s, instance, P) ==
    /\ P \in SUBSET Simple(s, instance)
    /\ FullGroup([p \in P |-> CHOOSE r \in s.m_queue[p].roleMask : TRUE])
    /\ P \X P \subseteq CanPlayersGroup

Offered(s, t, instance) ==
    \E id \in DOMAIN t.m_offers \ DOMAIN s.m_offers : t.m_offers[id].instance = instance

Served(s, t, instance, P) ==
    P \cap DOMAIN t.m_playerOffers # {} \/ Offered(s, t, instance)

(* Whoever of such a group is the seed, the selection is a full group.     *)
LEMMA SeedFinds ==
    ASSUME NEW s \in Managers, ToSet(s.queueOrder) = DOMAIN s.m_queue,
           NEW instance, NEW P, Match(s, instance, P), NEW seed \in P
    PROVE  FullGroup(SelectedRoles(s, instance, seed))
<1> DEFINE R == SelectedRoles(s, instance, seed)
           m == [p \in P |-> CHOOSE r \in s.m_queue[p].roleMask : TRUE]
<1>1. /\ Selected(s, instance, seed, R)
      /\ \A p : Alone(s, instance, seed, p) => p \in DOMAIN R \/ ~Wanted(s, R, p)
  BY SelectionIs
<1> HIDE DEF R
<1>2. R \in Maps(Players, Roles) /\ Bounded(R)
  BY <1>1 DEF Selected
<1>3. ASSUME NEW r \in Roles, Open(R, r) PROVE FALSE
  <2> DEFINE Q == {p \in P : m[p] = r}
             T == {p \in DOMAIN R : R[p] = r}
  <2>1. Cardinality(Q) = Slots(r)
    <3>1. FullGroup(m) /\ DOMAIN m = P
      BY DEF Match
    <3> HIDE DEF m
    <3>2. Counted(m, r) = Cardinality(Q)
      BY <3>1 DEF Counted
    <3>3. Counted(m, r) = Slots(r)
      BY <3>1 DEF FullGroup, Slots, Roles
    <3> QED
      BY <3>2, <3>3
  <2>2. ASSUME NEW p \in Q PROVE p \in T
    <3>1. /\ p \in P /\ p \in DOMAIN s.m_queue /\ Waiting(s, p, instance)
          /\ Len(Block(s, p)) = 1 /\ Cardinality(s.m_queue[p].roleMask) = 1
      BY DEF Match, Simple
    <3>2. s.m_queue[p].roleMask = {r}
      <4>1. IsFiniteSet(s.m_queue[p].roleMask)
        <5>1. s.m_queue[p].roleMask \in SUBSET Roles
          BY <3>1, EntryIs
        <5>2. IsFiniteSet({"tank"}) /\ IsFiniteSet({"healer"}) /\ IsFiniteSet({"damage"})
          BY FS_Singleton
        <5>3. IsFiniteSet({"tank"} \cup {"healer"})
          BY <5>2, FS_Union
        <5>4. IsFiniteSet(({"tank"} \cup {"healer"}) \cup {"damage"})
          BY <5>2, <5>3, FS_Union
        <5>5. Roles = ({"tank"} \cup {"healer"}) \cup {"damage"}
          BY DEF Roles
        <5> QED
          BY <5>1, <5>4, <5>5, FS_Subset
      <4>2. PICK x : s.m_queue[p].roleMask = {x}
        BY <3>1, <4>1, FS_Singleton
      <4>3. m[p] = r /\ m[p] = CHOOSE y \in s.m_queue[p].roleMask : TRUE
        BY <3>1
      <4>4. (CHOOSE y \in {x} : TRUE) = x
        OBVIOUS
      <4> QED
        BY <4>2, <4>3, <4>4
    <3>3. CanQueuedPlayersGroup(seed, p)
      <4>1. <<seed, p>> \in CanPlayersGroup /\ <<seed, p>> \in SameKind
        BY <3>1, LFTAssumption DEF Match
      <4> QED
        BY <4>1 DEF CanQueuedPlayersGroup
    <3>4. Alone(s, instance, seed, p) /\ Wanted(s, R, p)
      BY <1>3, <3>1, <3>2, <3>3 DEF Alone, Wanted
    <3>5. p \in DOMAIN R
      BY <1>1, <3>4
    <3>6. R[p] \in s.m_queue[p].roleMask
      BY <1>1, <3>5 DEF Selected, Fits
    <3> QED
      BY <3>2, <3>5, <3>6
  <2>3. IsFiniteSet(T) /\ Counted(R, r) = Cardinality(T)
    BY <1>2, RoleCounts, FS_Subset DEF Counted
  <2> HIDE DEF Q, T
  <2>4. Q \subseteq T
    BY <2>2
  <2>5. Cardinality(Q) <= Cardinality(T)
    BY <2>3, <2>4, FS_Subset
  <2>6. Slots(r) \in Nat /\ Counted(R, r) \in Nat
    BY <1>2, RoleCounts, LFTAssumption DEF Slots
  <2> QED
    BY <1>3, <2>1, <2>3, <2>5, <2>6 DEF Open
<1> QED
  BY <1>2, <1>3, RoomOrFull DEF R

(* Such a group has somebody in it.                                        *)
LEMMA MatchHas ==
    ASSUME NEW s, NEW instance, NEW P, Match(s, instance, P)
    PROVE  P # {}
<1> DEFINE m == [p \in P |-> CHOOSE r \in s.m_queue[p].roleMask : TRUE]
<1>1. Cardinality(P) = GroupSize
  <2>1. FullGroup(m) /\ DOMAIN m = P
    BY DEF Match
  <2> HIDE DEF m
  <2> QED
    BY <2>1 DEF FullGroup
<1>2. GroupSize # 0
  BY LFTAssumption DEF GroupSize
<1> QED
  BY <1>1, <1>2, FS_EmptySet

(* It stays one as long as nobody of it gets an offer.                     *)
LEMMA MatchStays ==
    ASSUME NEW s, NEW t, t.m_queue = s.m_queue, t.queueOrder = s.queueOrder,
           NEW instance, NEW P, Match(s, instance, P), P \cap DOMAIN t.m_playerOffers = {}
    PROVE  Match(t, instance, P)
<1>1. \A p : Block(s, p) = Block(t, p)
  BY DEF Block, QueueLeader
<1>2. \A p \in P : p \in Simple(s, instance) => p \in Simple(t, instance)
  BY <1>1 DEF Simple, Waiting
<1> QED
  BY <1>2 DEF Match

(* Soundness of an offer depends on the queue alone.                       *)
LEMMA SoundFor ==
    ASSUME NEW s, NEW t, s.m_queue = t.m_queue, s.queueOrder = t.queueOrder, NEW offer,
           SoundOffer(s, offer)
    PROVE  SoundOffer(t, offer)
<1>1. \A p : Block(s, p) = Block(t, p)
  BY DEF Block, QueueLeader
<1> QED
  BY <1>1 DEF SoundOffer

(* One instance more: at most one offer more, a sound one, and one if a    *)
(* full group waits alone.                                                 *)
LEMMA TryBuildKeeps ==
    ASSUME NEW s, NEW t, NEW W, Good(s, W), Matched(s, t, W), NEW instance \in Instances
    PROVE  /\ Matched(s, TryBuildOfferForInstance(t, instance), W)
           /\ Grows(t, TryBuildOfferForInstance(t, instance))
           /\ \A P : Match(t, instance, P) =>
                       Offered(t, TryBuildOfferForInstance(t, instance), instance)
<1> DEFINE Seeds == {p \in DOMAIN t.m_queue :
                       Waiting(t, p, instance) /\ FullGroup(SelectedRoles(t, instance, p))}
           seeds == Keep(t.queueOrder, Seeds)
           seed == Head(seeds)
           roles == SelectedRoles(t, instance, seed)
           u == TryBuildOfferForInstance(t, instance)
<1>0. u = IF seeds = <<>> THEN t ELSE MakeOffer(t, instance, roles)
  BY Zenon DEF TryBuildOfferForInstance
<1> HIDE DEF u
<1>1. t \in Managers /\ ToSet(t.queueOrder) = DOMAIN t.m_queue /\ Good(t, W)
  BY DEF Matched, Good
<1>2. CASE seeds = <<>>
  <2>1. u = t /\ Grows(t, t)
    BY <1>0, <1>2 DEF Grows, Extends
  <2>2. ASSUME NEW P, Match(t, instance, P) PROVE FALSE
    <3>1. PICK p \in P : TRUE
      BY <2>2, MatchHas
    <3>2. FullGroup(SelectedRoles(t, instance, p))
      BY <1>1, <2>2, SeedFinds
    <3>3. p \in Seeds
      BY <2>2, <3>2 DEF Match, Simple
    <3> HIDE DEF Seeds
    <3>4. seeds \in Seq(Players) /\ ToSet(seeds) = ToSet(t.queueOrder) \cap Seeds
      BY <1>1, Fields, KeepIs
    <3>5. p \in ToSet(seeds)
      BY <1>1, <2>2, <3>1, <3>3, <3>4 DEF Match, Simple
    <3> HIDE DEF seeds
    <3>6. ToSet(seeds) = {seeds[i] : i \in 1 .. Len(seeds)}
      BY <3>4, ToSetIs
    <3> QED
      BY <1>2, <3>4, <3>5, <3>6
  <2> QED
    BY <2>1, <2>2 DEF u
<1>3. CASE seeds # <<>>
  <2>1. seeds \in Seq(Players) /\ ToSet(seeds) \subseteq Seeds
    <3>1. t.queueOrder \in Seq(Players)
      BY <1>1, Fields
    <3> HIDE DEF Seeds
    <3> QED
      BY <3>1, KeepIs
  <2>2. seed \in Seeds
    <3> HIDE DEF seeds, Seeds
    <3>1. ToSet(seeds) = {seeds[i] : i \in 1 .. Len(seeds)} /\ Len(seeds) \in Nat
      BY <2>1, ToSetIs
    <3>2. Head(seeds) = seeds[1] /\ 1 \in 1 .. Len(seeds)
      BY <1>3, <2>1, <3>1
    <3> QED
      BY <2>1, <3>1, <3>2
  <2> HIDE DEF seed
  <2>3. seed \in DOMAIN t.m_queue /\ Waiting(t, seed, instance) /\ FullGroup(roles)
    BY <2>2
  <2>4. Selected(t, instance, seed, roles) /\ Closed(t, roles)
    BY <1>1, SelectionIs
  <2> HIDE DEF roles
  <2>5. /\ roles \in Maps(Players, Roles)
        /\ DOMAIN roles \subseteq DOMAIN t.m_queue \ DOMAIN t.m_playerOffers
    BY <2>4 DEF Selected, Fits, Waiting
  <2>6. u = MakeOffer(t, instance, roles)
    BY <1>0, <1>3
  <2>7. /\ Good(u, W) /\ u.m_queue = t.m_queue /\ u.queueOrder = t.queueOrder
        /\ DOMAIN t.m_playerOffers \subseteq DOMAIN u.m_playerOffers
    BY <1>1, <2>3, <2>5, <2>6, MakeOfferKeeps
  <2>8. PICK id \in OfferIds \ DOMAIN t.m_offers :
          /\ DOMAIN u.m_offers = DOMAIN t.m_offers \cup {id}
          /\ \A x \in DOMAIN t.m_offers : u.m_offers[x] = t.m_offers[x]
          /\ u.m_offers[id].roles = roles /\ u.m_offers[id].instance = instance
    BY <1>1, <2>3, <2>5, <2>6, MakeOfferKeeps
  <2>9. SoundOffer(t, u.m_offers[id])
    BY <2>3, <2>4, <2>8 DEF SoundOffer, Selected, Fits, Waiting, Closed
  <2>10. SoundOffer(u, u.m_offers[id])
    BY <2>7, <2>9, SoundFor
  <2>11. ASSUME NEW x \in DOMAIN u.m_offers \ DOMAIN s.m_offers
         PROVE  SoundOffer(u, u.m_offers[x])
    <3>1. CASE x = id
      BY <2>10, <3>1
    <3>2. CASE x # id
      <4>1. x \in DOMAIN t.m_offers \ DOMAIN s.m_offers /\ u.m_offers[x] = t.m_offers[x]
        BY <2>8, <3>2
      <4>2. SoundOffer(t, u.m_offers[x])
        BY <4>1 DEF Matched, Sound
      <4> QED
        BY <2>7, <4>2, SoundFor
    <3> QED
      BY <3>1, <3>2
  <2>12. Grows(t, u) /\ Grows(s, u) /\ Offered(t, u, instance)
    BY <2>7, <2>8 DEF Matched, Grows, Extends, Offered
  <2> QED
    BY <2>7, <2>11, <2>12 DEF Matched, Sound, u
<1> QED
  BY <1>2, <1>3

(* Offers for every instance that somebody waits for.                      *)
LEMMA TryMakeOffersKeeps ==
    ASSUME NEW s, NEW W, Good(s, W)
    PROVE  /\ Matched(s, TryMakeOffers(s), W)
           /\ \A instance, P : Match(s, instance, P) => Served(s, TryMakeOffers(s), instance, P)
<1> DEFINE wanted == UNION {s.m_queue[p].instances :
                              p \in DOMAIN s.m_queue \ DOMAIN s.m_playerOffers}
           seq == Ascending(wanted)
           X == Instances
           A == {t \in Managers : Matched(s, t, W)}
           base == s
           Step(a, x) == TryBuildOfferForInstance(a, x)
           f == [u \in A \X X |-> Step(u[1], u[2])]
           n == Len(seq)
           Is(g) == g = [u \in SUBSET DOMAIN seq |->
                           IF u = {} THEN base ELSE Step(g[u \ {Max(u)}], seq[Max(u)])]
           it == CHOOSE g : Is(g)
<1>0. TryMakeOffers(s) = it[DOMAIN seq]
  BY Zenon DEF TryMakeOffers, FoldLeft, MapThenFoldSet
<1>1. /\ seq \in Seq(X) /\ n \in Nat /\ DOMAIN seq = 1 .. n /\ \A i \in 1 .. n : seq[i] \in X
      /\ wanted = {seq[i] : i \in 1 .. n}
  <2>1. s.m_queue \in Maps(Players, Entries)
    BY Fields DEF Good
  <2>2. s.m_queue \in [DOMAIN s.m_queue -> Entries]
    BY <2>1, MapIs
  <2>3. wanted \subseteq Instances
    BY <2>2 DEF Entries
  <2> HIDE DEF wanted
  <2>4. IsFiniteSet(wanted) /\ wanted \subseteq Nat \ {0}
    BY <2>3, LFTAssumption, FS_Subset
  <2>5. seq \in Seq(wanted) /\ ToSet(seq) = wanted
    BY <2>4, AscendingIs
  <2> HIDE DEF seq
  <2>6. seq \in Seq(X)
    BY <2>3, <2>5
  <2> QED
    BY <2>5, <2>6, ToSetIs
<1>2. base \in A
  BY DEF Matched, Sound, Good, Grows, Extends
<1>3. ASSUME NEW a \in A, NEW x \in X
      PROVE  /\ Step(a, x) \in A /\ Grows(a, Step(a, x))
             /\ \A P : Match(a, x, P) => Offered(a, Step(a, x), x)
  <2>1. /\ Matched(s, Step(a, x), W) /\ Grows(a, Step(a, x))
        /\ \A P : Match(a, x, P) => Offered(a, Step(a, x), x)
    BY TryBuildKeeps
  <2> HIDE DEF Step
  <2>2. Step(a, x) \in Managers
    BY <2>1 DEF Matched, Good
  <2> QED
    BY <2>1, <2>2
<1> HIDE DEF Step
<1>4. f \in [A \X X -> A] /\ \A a \in A, x \in X : f[<<a, x>>] = Step(a, x)
  <2> HIDE DEF A
  <2> QED
    BY <1>3
<1> HIDE DEF A, base, f, seq, X
<1>5. PICK g : FoldValues(g, A, X, base, seq, f)
  BY <1>1, <1>2, <1>4, IteratesExist
<1>6. Is(g)
  <2>1. \A u \in SUBSET (1 .. n) :
          g[u] = IF u = {} THEN base ELSE Step(g[u \ {Max(u)}], seq[Max(u)])
    BY <1>4, <1>5 DEF FoldValues, Iterates
  <2>2. g = [u \in SUBSET (1 .. n) |-> g[u]]
    BY <1>5 DEF FoldValues
  <2> QED
    BY <1>1, <2>1, <2>2
<1>7. Is(it)
  <2> HIDE DEF Is
  <2> QED
    BY <1>6
<1> HIDE DEF it
<1>8. it[{}] = base
  BY <1>1, <1>7
<1>9. ASSUME NEW i \in 1 .. n
      PROVE  it[1 .. i] = Step(it[1 .. i - 1], seq[i])
  <2>1. 1 .. i \in SUBSET (1 .. n) /\ i \in Nat /\ i # 0
    BY <1>1
  <2> QED
    BY <1>1, <1>7, <2>1, PrefixMax, PrefixLess
<1>10. \A i \in 0 .. n : it[1 .. i] \in A
  <2>1. it[{}] \in A /\ \A i \in 1 .. n : it[1 .. i - 1] \in A => it[1 .. i] \in A
    BY <1>1, <1>2, <1>3, <1>8, <1>9
  <2> QED
    BY <1>1, <2>1, FoldChain
<1>11. it[DOMAIN seq] \in A
  BY <1>1, <1>10
<1>12. ASSUME NEW instance, NEW P, Match(s, instance, P)
       PROVE  Served(s, it[DOMAIN seq], instance, P)
  <2>1. instance \in wanted
    <3>1. PICK p \in P : TRUE
      BY <1>12, MatchHas
    <3>2. /\ p \in DOMAIN s.m_queue \ DOMAIN s.m_playerOffers
          /\ instance \in s.m_queue[p].instances
      BY <1>12, <3>1 DEF Match, Simple, Waiting
    <3> QED
      BY <3>2
  <2> HIDE DEF wanted
  <2>2. PICK k \in 1 .. n : seq[k] = instance
    BY <1>1, <2>1
  <2> DEFINE T == {i \in 0 .. n : i >= k => Served(s, it[1 .. i], instance, P)}
  <2>3. 0 \in T
    BY <1>1, <2>2
  <2>4. ASSUME NEW i \in 1 .. n, i - 1 \in T PROVE i \in T
    <3>1. PICK a : a = it[1 .. i - 1]
      OBVIOUS
    <3>2. PICK b : b = it[1 .. i]
      OBVIOUS
    <3>3. i - 1 \in 0 .. n /\ i \in 0 .. n
      BY <1>1
    <3>4. a \in A /\ seq[i] \in X /\ b = Step(a, seq[i])
      BY <1>1, <1>9, <1>10, <3>1, <3>2, <3>3
    <3>5. /\ Grows(a, b) /\ \A Q : Match(a, seq[i], Q) => Offered(a, b, seq[i])
          /\ Matched(s, a, W)
      BY <1>3, <3>4 DEF A
    <3>6. Served(s, a, instance, P) => Served(s, b, instance, P)
      <4>1. P \cap DOMAIN a.m_playerOffers # {} => P \cap DOMAIN b.m_playerOffers # {}
        BY <3>5 DEF Grows
      <4>2. Offered(s, a, instance) => Offered(s, b, instance)
        BY <3>5 DEF Grows, Extends, Offered
      <4> QED
        BY <4>1, <4>2 DEF Served
    <3>7. CASE i = k
      <4>1. Served(s, b, instance, P)
        <5>1. CASE P \cap DOMAIN a.m_playerOffers # {}
          BY <3>6, <5>1 DEF Served
        <5>2. CASE P \cap DOMAIN a.m_playerOffers = {}
          <6>1. Match(a, instance, P)
            BY <1>12, <3>5, <5>2, MatchStays DEF Matched
          <6>2. Offered(a, b, instance)
            BY <2>2, <3>5, <3>7, <6>1
          <6>3. Offered(s, b, instance)
            BY <3>5, <6>2 DEF Matched, Grows, Extends, Offered
          <6> QED
            BY <6>3 DEF Served
        <5> QED
          BY <5>1, <5>2
      <4> QED
        BY <3>2, <3>3, <4>1
    <3>8. CASE i # k
      <4>1. i >= k => i - 1 >= k
        BY <1>1, <3>8
      <4>2. i >= k => Served(s, a, instance, P)
        BY <2>4, <3>1, <4>1
      <4> QED
        BY <3>2, <3>3, <3>6, <4>2
    <3> QED
      BY <3>7, <3>8
  <2>5. n \in T
    <3> HIDE DEF T
    <3>1. \A i \in 0 .. n : i \in T
      BY <1>1, <2>3, <2>4, UpTo
    <3> QED
      BY <1>1, <3>1
  <2> QED
    BY <1>1, <2>2, <2>5
<1> QED
  BY <1>0, <1>11, <1>12 DEF A

-----------------------------------------------------------------------------
(* The handlers' other loops.                                              *)

(* Who answered a rolecheck is in the queue, and the matcher has run.      *)
LEMMA EnqueueRolecheckKeeps ==
    ASSUME LFTInv, NEW s, Good(s, Here), NEW c \in Rolechecks
    PROVE  /\ Good(EnqueueRolecheck(s, c), Here)
           /\ Sound(s, EnqueueRolecheck(s, c))
<1> DEFINE seq == c.members
           X == Players
           A == {t \in Managers : Good(t, Here) /\ t.m_offers = s.m_offers}
           base == s
           Step(a, x) == IF InWorld(x) /\ x \in DOMAIN c.responses
                         THEN EnqueuePlayer(a, x, c.leader, c.instances, c.responses[x])
                         ELSE a
           f == [u \in A \X X |-> Step(u[1], u[2])]
           n == Len(seq)
           Is(g) == g = [u \in SUBSET DOMAIN seq |->
                           IF u = {} THEN base ELSE Step(g[u \ {Max(u)}], seq[Max(u)])]
           it == CHOOSE g : Is(g)
           queued == it[DOMAIN seq]
<1>0. EnqueueRolecheck(s, c) = TryMakeOffers(queued)
  BY Zenon DEF EnqueueRolecheck, FoldLeft, MapThenFoldSet
<1>1. seq \in Seq(X) /\ n \in Nat /\ DOMAIN seq = 1 .. n /\ \A i \in 1 .. n : seq[i] \in X
  <2>1. seq \in Seq(X)
    BY DEF Rolechecks
  <2> HIDE DEF seq
  <2> QED
    BY <2>1
<1>2. base \in A
  BY DEF Good
<1>3. ASSUME NEW a \in A, NEW x \in X PROVE Step(a, x) \in A
  <2>1. CASE InWorld(x) /\ x \in DOMAIN c.responses
    <3>1. x \in Here
      BY <2>1 DEF InWorld, Here
    <3>2. c.leader \in Players /\ c.instances \in SUBSET Instances
          /\ c.responses \in Maps(Players, SUBSET Roles)
      BY DEF Rolechecks
    <3>3. c.responses[x] \in SUBSET Roles
      <4>1. c.responses \in [DOMAIN c.responses -> SUBSET Roles]
        BY <3>2, MapIs
      <4> QED
        BY <2>1, <4>1
    <3>4. Step(a, x) = EnqueuePlayer(a, x, c.leader, c.instances, c.responses[x])
      BY <2>1
    <3> HIDE DEF Step
    <3>5. Good(Step(a, x), Here)
      BY <3>1, <3>2, <3>3, <3>4, EnqueueKeeps
    <3>6. Step(a, x).m_offers = a.m_offers
      BY <3>4 DEF EnqueuePlayer, Managers
    <3>7. Step(a, x) \in Managers
      BY <3>5 DEF Good
    <3> QED
      BY <3>5, <3>6, <3>7
  <2>2. CASE ~(InWorld(x) /\ x \in DOMAIN c.responses)
    BY <2>2
  <2> QED
    BY <2>1, <2>2
<1> HIDE DEF Step
<1>4. f \in [A \X X -> A] /\ \A a \in A, x \in X : f[<<a, x>>] = Step(a, x)
  <2> HIDE DEF A
  <2> QED
    BY <1>3
<1> HIDE DEF A, base, f, seq, X
<1>5. PICK g : FoldValues(g, A, X, base, seq, f)
  BY <1>1, <1>2, <1>4, IteratesExist
<1>6. Is(g)
  <2>1. \A u \in SUBSET (1 .. n) :
          g[u] = IF u = {} THEN base ELSE Step(g[u \ {Max(u)}], seq[Max(u)])
    BY <1>4, <1>5 DEF FoldValues, Iterates
  <2>2. g = [u \in SUBSET (1 .. n) |-> g[u]]
    BY <1>5 DEF FoldValues
  <2> QED
    BY <1>1, <2>1, <2>2
<1>7. Is(it)
  <2> HIDE DEF Is
  <2> QED
    BY <1>6
<1> HIDE DEF it
<1>8. it[{}] = base
  BY <1>1, <1>7
<1>9. ASSUME NEW i \in 1 .. n
      PROVE  it[1 .. i] = Step(it[1 .. i - 1], seq[i])
  <2>1. 1 .. i \in SUBSET (1 .. n) /\ i \in Nat /\ i # 0
    BY <1>1
  <2> QED
    BY <1>1, <1>7, <2>1, PrefixMax, PrefixLess
<1>10. \A i \in 0 .. n : it[1 .. i] \in A
  <2>1. it[{}] \in A /\ \A i \in 1 .. n : it[1 .. i - 1] \in A => it[1 .. i] \in A
    BY <1>1, <1>2, <1>3, <1>8, <1>9
  <2> QED
    BY <1>1, <2>1, FoldChain
<1>11. Good(queued, Here) /\ queued.m_offers = s.m_offers
  <2>1. queued \in A
    BY <1>1, <1>10
  <2> QED
    BY <2>1 DEF A
<1> HIDE DEF queued
<1>12. Matched(queued, TryMakeOffers(queued), Here)
  BY <1>11, TryMakeOffersKeeps
<1> QED
  BY <1>0, <1>11, <1>12 DEF Matched, Sound

(* The timers run: nothing else changes.                                   *)
Ticked(s) ==
    [s EXCEPT !.m_rolechecks = Passed(@), !.m_offers = Passed(@)]

(* The timers say nothing about the invariant.                             *)
LEMMA TimersKeep ==
    ASSUME NEW s, NEW W, Good(s, W)
    PROVE  Good(Ticked(s), W) /\ DOMAIN Ticked(s).m_offers = DOMAIN s.m_offers
<1> DEFINE c == Passed(s.m_rolechecks)
           o == Passed(s.m_offers)
           t == Ticked(s)
<1>0. t = [s EXCEPT !.m_rolechecks = c, !.m_offers = o]
  BY DEF Ticked
<1>1. /\ s \in Managers /\ s.m_rolechecks \in Maps(Players, Rolechecks)
      /\ s.m_offers \in Maps(OfferIds, Offers)
  BY Fields DEF Good
<1>2. /\ DOMAIN s.m_rolechecks \subseteq Players
      /\ \A l \in DOMAIN s.m_rolechecks : s.m_rolechecks[l] \in Rolechecks
      /\ DOMAIN s.m_offers \subseteq OfferIds
      /\ \A id \in DOMAIN s.m_offers : s.m_offers[id] \in Offers
  <2>1. DOMAIN s.m_rolechecks \subseteq Players
        /\ s.m_rolechecks \in [DOMAIN s.m_rolechecks -> Rolechecks]
    BY <1>1, MapIs
  <2>2. DOMAIN s.m_offers \subseteq OfferIds /\ s.m_offers \in [DOMAIN s.m_offers -> Offers]
    BY <1>1, MapIs
  <2> QED
    BY <2>1, <2>2
<1>3. ASSUME NEW l \in DOMAIN s.m_rolechecks
      PROVE  /\ c[l] \in Rolechecks /\ c[l].members = s.m_rolechecks[l].members
             /\ c[l].responses = s.m_rolechecks[l].responses
  <2>1. PICK r \in Rolechecks : r = s.m_rolechecks[l]
    BY <1>2
  <2>2. c[l] = [r EXCEPT !.timer = r.timer - 1]
    BY <2>1 DEF Passed
  <2> HIDE DEF c
  <2> QED
    BY <2>1, <2>2 DEF Rolechecks
<1>4. ASSUME NEW id \in DOMAIN s.m_offers
      PROVE  /\ o[id] \in Offers /\ o[id].roles = s.m_offers[id].roles
             /\ o[id].accepted = s.m_offers[id].accepted
  <2>1. PICK r \in Offers : r = s.m_offers[id]
    BY <1>2
  <2>2. o[id] = [r EXCEPT !.timer = r.timer - 1]
    BY <2>1 DEF Passed
  <2> HIDE DEF o
  <2> QED
    BY <2>1, <2>2 DEF Offers
<1>5. DOMAIN c = DOMAIN s.m_rolechecks /\ DOMAIN o = DOMAIN s.m_offers
      /\ c = [l \in DOMAIN c |-> c[l]] /\ o = [id \in DOMAIN o |-> o[id]]
  BY DEF Passed
<1> HIDE DEF c, o, t
<1>6. c \in Maps(Players, Rolechecks) /\ o \in Maps(OfferIds, Offers)
  <2>1. c \in [DOMAIN c -> Rolechecks] /\ o \in [DOMAIN o -> Offers]
    BY <1>3, <1>4, <1>5
  <2> QED
    BY <1>2, <1>5, <2>1, MapIs
<1>7. /\ t \in Managers /\ t.m_rolechecks = c /\ t.m_offers = o
      /\ t.m_queue = s.m_queue /\ t.queueOrder = s.queueOrder
      /\ t.m_playerOffers = s.m_playerOffers
  BY <1>0, <1>1, <1>6 DEF Managers
<1>8. \A l \in DOMAIN c : OpenCheck(c[l])
  BY <1>3, <1>5 DEF Good, OpenCheck
<1>9. \A id \in DOMAIN o : OpenOffer(o[id])
  BY <1>4, <1>5 DEF Good, OpenOffer
<1>10. Indexed(t)
  <2>1. ASSUME NEW p \in DOMAIN s.m_playerOffers
        PROVE  /\ s.m_playerOffers[p] \in DOMAIN o
               /\ p \in DOMAIN o[s.m_playerOffers[p]].roles
    <3>1. PICK k : k = s.m_playerOffers[p]
      OBVIOUS
    <3>2. k \in DOMAIN s.m_offers /\ p \in DOMAIN s.m_offers[k].roles
      BY <3>1 DEF Good, Indexed
    <3> QED
      BY <1>4, <1>5, <3>1, <3>2
  <2>2. ASSUME NEW id \in DOMAIN o, NEW p \in DOMAIN o[id].roles
        PROVE  p \in DOMAIN s.m_playerOffers /\ s.m_playerOffers[p] = id
    BY <1>4, <1>5 DEF Good, Indexed
  <2> QED
    BY <1>7, <2>1, <2>2 DEF Indexed
<1>11. Counts(t) /\ Knows(t, W) /\ ToSet(t.queueOrder) = DOMAIN t.m_queue
  BY <1>3, <1>5, <1>7 DEF Good, Counts, Knows
<1> QED
  BY <1>5, <1>7, <1>8, <1>9, <1>10, <1>11 DEF Good, t

(* The loops of Update over the timers make no offer.                      *)
LEMMA TickKeeps ==
    ASSUME NEW s, NEW W, Good(s, W)
    PROVE  Good(Tick(s), W) /\ DOMAIN Tick(s).m_offers \subseteq DOMAIN s.m_offers
<1> DEFINE lateChecks == {l \in DOMAIN s.m_rolechecks : s.m_rolechecks[l].timer <= 1}
           lateOffers == {id \in DOMAIN s.m_offers : s.m_offers[id].timer <= 1}
           seq == Ascending(lateOffers)
           X == OfferIds
           A == {t \in Managers : Good(t, W) /\ DOMAIN t.m_offers \subseteq DOMAIN s.m_offers}
           base == CancelRolechecks(s, lateChecks)
           Step(a, x) == CancelOffer(a, x, TRUE, NoGuid, FALSE)
           f == [u \in A \X X |-> Step(u[1], u[2])]
           n == Len(seq)
           Is(g) == g = [u \in SUBSET DOMAIN seq |->
                           IF u = {} THEN base ELSE Step(g[u \ {Max(u)}], seq[Max(u)])]
           it == CHOOSE g : Is(g)
           t == it[DOMAIN seq]
<1>0. Tick(s) = Ticked(t)
  BY Zenon DEF Tick, Ticked, FoldLeft, MapThenFoldSet
<1>1. seq \in Seq(X) /\ n \in Nat /\ DOMAIN seq = 1 .. n /\ \A i \in 1 .. n : seq[i] \in X
  <2>1. lateOffers \subseteq DOMAIN s.m_offers /\ IsFiniteSet(DOMAIN s.m_offers)
    BY DEF Good, Counts
  <2>2. DOMAIN s.m_offers \subseteq OfferIds
    <3>1. s.m_offers \in Maps(OfferIds, Offers)
      BY Fields DEF Good
    <3> QED
      BY <3>1, MapIs
  <2> HIDE DEF lateOffers
  <2>3. IsFiniteSet(lateOffers) /\ lateOffers \subseteq Nat \ {0}
    <3>1. OfferIds \subseteq Nat \ {0}
      BY LFTAssumption
    <3>2. IsFiniteSet(lateOffers)
      BY <2>1, FS_Subset
    <3> QED
      BY <2>1, <2>2, <3>1, <3>2
  <2>4. seq \in Seq(lateOffers)
    BY <2>3, AscendingIs
  <2> HIDE DEF seq
  <2>5. seq \in Seq(X)
    BY <2>1, <2>2, <2>4
  <2> QED
    BY <2>5
<1>2. base \in A
  <2> HIDE DEF lateChecks
  <2>1. Good(base, W)
    BY CancelChecksKeeps
  <2>2. base.m_offers = s.m_offers
    BY CancelChecksIs DEF Good
  <2> HIDE DEF base
  <2>3. base \in Managers
    BY <2>1 DEF Good
  <2> QED
    BY <2>1, <2>2, <2>3
<1>3. ASSUME NEW a \in A, NEW x \in X PROVE Step(a, x) \in A
  <2>1. Good(Step(a, x), W) /\ DOMAIN Step(a, x).m_offers \subseteq DOMAIN a.m_offers
    BY CancelOfferKeeps, ZenonT(40)
  <2> HIDE DEF Step
  <2> QED
    BY <2>1 DEF Good
<1> HIDE DEF Step
<1>4. f \in [A \X X -> A] /\ \A a \in A, x \in X : f[<<a, x>>] = Step(a, x)
  <2> HIDE DEF A
  <2> QED
    BY <1>3
<1> HIDE DEF A, base, f, seq, X
<1>5. PICK g : FoldValues(g, A, X, base, seq, f)
  BY <1>1, <1>2, <1>4, IteratesExist
<1>6. Is(g)
  <2>1. \A u \in SUBSET (1 .. n) :
          g[u] = IF u = {} THEN base ELSE Step(g[u \ {Max(u)}], seq[Max(u)])
    BY <1>4, <1>5 DEF FoldValues, Iterates
  <2>2. g = [u \in SUBSET (1 .. n) |-> g[u]]
    BY <1>5 DEF FoldValues
  <2> QED
    BY <1>1, <2>1, <2>2
<1>7. Is(it)
  <2> HIDE DEF Is
  <2> QED
    BY <1>6
<1> HIDE DEF it
<1>8. it[{}] = base
  BY <1>1, <1>7
<1>9. ASSUME NEW i \in 1 .. n
      PROVE  it[1 .. i] = Step(it[1 .. i - 1], seq[i])
  <2>1. 1 .. i \in SUBSET (1 .. n) /\ i \in Nat /\ i # 0
    BY <1>1
  <2> QED
    BY <1>1, <1>7, <2>1, PrefixMax, PrefixLess
<1>10. \A i \in 0 .. n : it[1 .. i] \in A
  <2>1. it[{}] \in A /\ \A i \in 1 .. n : it[1 .. i - 1] \in A => it[1 .. i] \in A
    BY <1>1, <1>2, <1>3, <1>8, <1>9
  <2> QED
    BY <1>1, <2>1, FoldChain
<1>11. Good(t, W) /\ DOMAIN t.m_offers \subseteq DOMAIN s.m_offers
  <2>1. t \in A
    BY <1>1, <1>10
  <2> QED
    BY <2>1 DEF A
<1> HIDE DEF t
<1>12. Good(Ticked(t), W) /\ DOMAIN Ticked(t).m_offers = DOMAIN t.m_offers
  BY <1>11, TimersKeep
<1> QED
  BY <1>0, <1>11, <1>12

-----------------------------------------------------------------------------
(* Parties.                                                                *)

(* A party of g is set to a sequence that has the leader, nobody twice.    *)
LEMMA PutGroup ==
    ASSUME NEW g, GroupsOK(g), NEW l \in Players, NEW q \in Seq(Players),
           l \in ToSet(q), Distinct(q)
    PROVE  GroupsOK(Put(g, l, q)) /\ DOMAIN Put(g, l, q) = DOMAIN g \cup {l}
<1>1. Put(g, l, q) \in Maps(Players, Seq(Players))
  BY PutIn DEF GroupsOK
<1>2. /\ DOMAIN Put(g, l, q) = DOMAIN g \cup {l} /\ Put(g, l, q)[l] = q
      /\ \A x \in DOMAIN g : x # l => Put(g, l, q)[x] = g[x]
  BY DEF Put
<1> QED
  BY <1>1, <1>2 DEF GroupsOK

(* A party disbands.                                                       *)
LEMMA EraseGroup ==
    ASSUME NEW g, GroupsOK(g), NEW L
    PROVE  GroupsOK(Erase(g, L))
<1>1. Erase(g, L) \in Maps(Players, Seq(Players))
  BY EraseIn DEF GroupsOK
<1>2. /\ DOMAIN Erase(g, L) = DOMAIN g \ L
      /\ \A x \in DOMAIN g \ L : Erase(g, L)[x] = g[x]
  BY EraseValues
<1> QED
  BY <1>1, <1>2 DEF GroupsOK

(* What the invariant says of one party.                                   *)
LEMMA GroupIs ==
    ASSUME NEW g, GroupsOK(g), NEW l \in DOMAIN g
    PROVE  /\ g[l] \in Seq(Players) /\ l \in ToSet(g[l]) /\ Distinct(g[l])
           /\ l \in Players /\ ToSet(g[l]) \subseteq Players
<1>1. DOMAIN g \subseteq Players /\ g \in [DOMAIN g -> Seq(Players)]
  BY MapIs DEF GroupsOK
<1>2. g[l] \in Seq(Players)
  BY <1>1
<1>3. ToSet(g[l]) \subseteq Players
  BY <1>2, ToSetIs
<1> QED
  BY <1>1, <1>2, <1>3 DEF GroupsOK

(* A party of one.                                                         *)
LEMMA OneMember ==
    ASSUME NEW p \in Players
    PROVE  <<p>> \in Seq(Players) /\ ToSet(<<p>>) = {p} /\ Distinct(<<p>>)
<1> DEFINE q == <<p>>
<1>1. q \in Seq(Players) /\ Len(q) = 1 /\ q[1] = p /\ 1 .. 1 = {1}
  OBVIOUS
<1> HIDE DEF q
<1>2. ToSet(q) = {q[i] : i \in 1 .. Len(q)}
  BY <1>1, ToSetIs
<1>3. ToSet(q) = {p} /\ Distinct(q)
  BY <1>1, <1>2 DEF Distinct
<1> QED
  BY <1>1, <1>3 DEF q

(* The states of the loop of CompleteOffer over its players.               *)
Forming ==
    {a \in [added : BOOLEAN, key : Players \cup {NoGuid},
            groups : Maps(Players, Seq(Players))] :
       GroupsOK(a.groups) /\ (a.key # NoGuid => a.key \in DOMAIN a.groups)}

(* AddPlayerToGroup keeps the parties ones with their leader in them.      *)
LEMMA AddPlayerIs ==
    ASSUME NEW acc \in Forming, NEW leader \in Players, NEW p \in Players
    PROVE  AddPlayerToGroup(acc, leader, p) \in Forming
<1> DEFINE known == IF acc.key # NoGuid THEN {acc.key} ELSE GroupsOf(acc.groups, leader)
           key == IF known = {} THEN leader ELSE CHOOSE l \in known : TRUE
           g == IF known = {} THEN Put(acc.groups, leader, <<leader>>) ELSE acc.groups
           joins == /\ GroupsOf(g, p) = {} /\ ~IsFull(g, key)
                    /\ InWorld(leader) => <<leader, p>> \in CanPlayersGroup
           b == AddPlayerToGroup(acc, leader, p)
<1>0. b = IF ~acc.added \/ ~InWorld(p) \/ (acc.key = NoGuid /\ ~InWorld(leader))
          THEN [acc EXCEPT !.added = FALSE]
          ELSE IF p \in ToSet(g[key]) THEN [added |-> TRUE, key |-> key, groups |-> g]
          ELSE [added |-> joins, key |-> key,
                groups |-> IF joins THEN Put(g, key, Append(g[key], p)) ELSE g]
  BY Zenon DEF AddPlayerToGroup
<1>1. /\ acc.added \in BOOLEAN /\ acc.key \in Players \cup {NoGuid} /\ GroupsOK(acc.groups)
      /\ acc.key # NoGuid => acc.key \in DOMAIN acc.groups
  BY DEF Forming
<1>2. GroupsOK(g) /\ key \in DOMAIN g
  <2>1. CASE known = {}
    <3>1. g = Put(acc.groups, leader, <<leader>>) /\ key = leader
      BY <2>1
    <3>2. /\ <<leader>> \in Seq(Players) /\ leader \in ToSet(<<leader>>)
          /\ Distinct(<<leader>>)
      BY OneMember
    <3> HIDE DEF g, key
    <3>3. /\ GroupsOK(Put(acc.groups, leader, <<leader>>))
          /\ DOMAIN Put(acc.groups, leader, <<leader>>) = DOMAIN acc.groups \cup {leader}
      BY <1>1, <3>2, PutGroup
    <3> QED
      BY <3>1, <3>3
  <2>2. CASE known # {}
    <3>1. known \subseteq DOMAIN acc.groups
      BY <1>1 DEF GroupsOf
    <3>2. g = acc.groups /\ key \in known
      BY <2>2
    <3> QED
      BY <1>1, <3>1, <3>2
  <2> QED
    BY <2>1, <2>2
<1>3. joins \in BOOLEAN
  OBVIOUS
<1> HIDE DEF g, key, b
<1>4. /\ g[key] \in Seq(Players) /\ key \in ToSet(g[key]) /\ Distinct(g[key])
      /\ key \in Players /\ key # NoGuid
  BY <1>2, GroupIs, LFTAssumption DEF NoGuid
<1>5. GroupsOK(g) => g \in Maps(Players, Seq(Players))
  BY DEF GroupsOK
<1>6. CASE ~acc.added \/ ~InWorld(p) \/ (acc.key = NoGuid /\ ~InWorld(leader))
  <2>1. b = [acc EXCEPT !.added = FALSE]
    BY <1>0, <1>6
  <2> QED
    BY <2>1 DEF Forming, b
<1>7. CASE /\ ~(~acc.added \/ ~InWorld(p) \/ (acc.key = NoGuid /\ ~InWorld(leader)))
           /\ p \in ToSet(g[key])
  <2>1. b = [added |-> TRUE, key |-> key, groups |-> g]
    BY <1>0, <1>7
  <2> QED
    BY <1>2, <1>4, <1>5, <2>1 DEF Forming, b
<1>8. CASE /\ ~(~acc.added \/ ~InWorld(p) \/ (acc.key = NoGuid /\ ~InWorld(leader)))
           /\ p \notin ToSet(g[key])
  <2> DEFINE h == IF joins THEN Put(g, key, Append(g[key], p)) ELSE g
  <2>1. b = [added |-> joins, key |-> key, groups |-> h]
    BY <1>0, <1>8
  <2> HIDE DEF joins
  <2>2. GroupsOK(h) /\ key \in DOMAIN h
    <3>1. /\ Append(g[key], p) \in Seq(Players) /\ key \in ToSet(Append(g[key], p))
          /\ Distinct(Append(g[key], p))
      BY <1>4, <1>8, AppendIs
    <3>2. /\ GroupsOK(Put(g, key, Append(g[key], p)))
          /\ DOMAIN Put(g, key, Append(g[key], p)) = DOMAIN g \cup {key}
      BY <1>2, <1>4, <3>1, PutGroup
    <3> QED
      BY <1>2, <3>2
  <2> HIDE DEF h
  <2>3. h \in Maps(Players, Seq(Players))
    BY <2>2 DEF GroupsOK
  <2> QED
    BY <1>3, <1>4, <2>1, <2>2, <2>3 DEF Forming, b
<1> QED
  BY <1>6, <1>7, <1>8

(* An offer has a leader: the queue's or its tank.                         *)
LEMMA OfferLeaderIs ==
    ASSUME NEW s \in Managers, NEW offer \in Offers, FullGroup(offer.roles)
    PROVE  OfferLeader(s, offer) \in Players
<1> DEFINE led == {p \in DOMAIN offer.roles \cap DOMAIN s.m_queue :
                     s.m_queue[p].leader # NoGuid}
<1>1. offer.roles \in Maps(Players, Roles) /\ s.m_queue \in Maps(Players, Entries)
  BY Fields DEF Offers
<1>2. /\ DOMAIN offer.roles \subseteq Players
      /\ s.m_queue \in [DOMAIN s.m_queue -> Entries] /\ Players \subseteq Nat
  BY <1>1, MapIs, LFTAssumption
<1>3. CASE led # {}
  <2>1. led \subseteq Nat
    BY <1>2
  <2>2. Min(led) \in led
    BY <1>3, <2>1, MinOfNats
  <2>3. s.m_queue[Min(led)].leader \in Players
    BY <1>2, <2>2 DEF Entries
  <2> QED
    BY <1>3, <2>3 DEF OfferLeader
<1>4. CASE led = {}
  <2>1. {p \in DOMAIN offer.roles : offer.roles[p] = "tank"} # {}
    <3>1. Cardinality({p \in DOMAIN offer.roles : offer.roles[p] = "tank"}) = 1
      BY DEF FullGroup, Counted
    <3> QED
      BY <3>1, FS_EmptySet
  <2>2. OfferLeader(s, offer) = CHOOSE p \in DOMAIN offer.roles : offer.roles[p] = "tank"
    BY <1>4 DEF OfferLeader
  <2> QED
    BY <1>2, <2>1, <2>2
<1> QED
  BY <1>3, <1>4

(* The parties stay ones with their leader in them.                        *)
LEMMA FormedIs ==
    ASSUME LFTInv, NEW s \in Managers, NEW offer \in Offers, FullGroup(offer.roles)
    PROVE  GroupsOK(FormedGroup(s, offer).groups)
<1> DEFINE leader == OfferLeader(s, offer)
           seq == Ascending(DOMAIN offer.roles)
           X == Players
           A == Forming
           base == [added |-> TRUE, key |-> NoGuid, groups |-> groups]
           Step(a, x) == AddPlayerToGroup(a, leader, x)
           f == [u \in A \X X |-> Step(u[1], u[2])]
           n == Len(seq)
           Is(g) == g = [u \in SUBSET DOMAIN seq |->
                           IF u = {} THEN base ELSE Step(g[u \ {Max(u)}], seq[Max(u)])]
           it == CHOOSE g : Is(g)
<1>0. FormedGroup(s, offer) = it[DOMAIN seq]
  BY Zenon DEF FormedGroup, FoldLeft, MapThenFoldSet
<1>1. seq \in Seq(X) /\ n \in Nat /\ DOMAIN seq = 1 .. n /\ \A i \in 1 .. n : seq[i] \in X
  <2>1. DOMAIN offer.roles \subseteq Players
    BY MapIs DEF Offers
  <2>2. IsFiniteSet(DOMAIN offer.roles) /\ DOMAIN offer.roles \subseteq Nat \ {0}
    BY <2>1, LFTAssumption, FS_Subset
  <2>3. seq \in Seq(DOMAIN offer.roles)
    BY <2>2, AscendingIs
  <2> HIDE DEF seq
  <2>4. seq \in Seq(X)
    BY <2>1, <2>3
  <2> QED
    BY <2>4
<1>2. base \in A
  <2>1. GroupsOK(groups) /\ groups \in Maps(Players, Seq(Players))
    BY DEF LFTInv, GroupsOK
  <2> QED
    BY <2>1 DEF Forming
<1>3. ASSUME NEW a \in A, NEW x \in X PROVE Step(a, x) \in A
  <2>1. leader \in Players
    BY OfferLeaderIs
  <2> HIDE DEF leader
  <2> QED
    BY <2>1, AddPlayerIs
<1> HIDE DEF Step
<1>4. f \in [A \X X -> A] /\ \A a \in A, x \in X : f[<<a, x>>] = Step(a, x)
  <2> HIDE DEF A
  <2> QED
    BY <1>3
<1> HIDE DEF A, base, f, seq, X
<1>5. PICK g : FoldValues(g, A, X, base, seq, f)
  BY <1>1, <1>2, <1>4, IteratesExist
<1>6. Is(g)
  <2>1. \A u \in SUBSET (1 .. n) :
          g[u] = IF u = {} THEN base ELSE Step(g[u \ {Max(u)}], seq[Max(u)])
    BY <1>4, <1>5 DEF FoldValues, Iterates
  <2>2. g = [u \in SUBSET (1 .. n) |-> g[u]]
    BY <1>5 DEF FoldValues
  <2> QED
    BY <1>1, <2>1, <2>2
<1>7. Is(it)
  <2> HIDE DEF Is
  <2> QED
    BY <1>6
<1> HIDE DEF it
<1>8. it[{}] = base
  BY <1>1, <1>7
<1>9. ASSUME NEW i \in 1 .. n
      PROVE  it[1 .. i] = Step(it[1 .. i - 1], seq[i])
  <2>1. 1 .. i \in SUBSET (1 .. n) /\ i \in Nat /\ i # 0
    BY <1>1
  <2> QED
    BY <1>1, <1>7, <2>1, PrefixMax, PrefixLess
<1>10. \A i \in 0 .. n : it[1 .. i] \in A
  <2>1. it[{}] \in A /\ \A i \in 1 .. n : it[1 .. i - 1] \in A => it[1 .. i] \in A
    BY <1>1, <1>2, <1>3, <1>8, <1>9
  <2> QED
    BY <1>1, <2>1, FoldChain
<1>11. it[DOMAIN seq] \in A
  BY <1>1, <1>10
<1> QED
  BY <1>0, <1>11 DEF A, Forming

(* A party of two.                                                         *)
LEMMA TwoMembers ==
    ASSUME NEW l \in Players, NEW p \in Players, l # p
    PROVE  <<l, p>> \in Seq(Players) /\ l \in ToSet(<<l, p>>) /\ Distinct(<<l, p>>)
<1> DEFINE q == <<l, p>>
<1>1. q \in Seq(Players) /\ Len(q) = 2 /\ q[1] = l /\ q[2] = p /\ 1 .. 2 = {1, 2}
  OBVIOUS
<1> HIDE DEF q
<1>2. ToSet(q) = {q[i] : i \in 1 .. Len(q)}
  BY <1>1, ToSetIs
<1>3. l \in ToSet(q) /\ Distinct(q)
  BY <1>1, <1>2 DEF Distinct
<1> QED
  BY <1>1, <1>3 DEF q

(* A sequence without repetition is as long as its set is large.           *)
LEMMA DistinctCount ==
    ASSUME NEW q \in Seq(Players), Distinct(q)
    PROVE  Cardinality(ToSet(q)) = Len(q)
<1>1. Len(q) \in Nat /\ ToSet(q) = {q[i] : i \in 1 .. Len(q)}
  BY ToSetIs
<1> DEFINE f == [i \in 1 .. Len(q) |-> q[i]]
<1>2. f \in [1 .. Len(q) -> ToSet(q)] /\ \A i \in 1 .. Len(q) : f[i] = q[i]
  BY <1>1
<1> HIDE DEF f
<1>3. f \in Bijection(1 .. Len(q), ToSet(q))
  <2>1. \A i, j \in 1 .. Len(q) : f[i] = f[j] => i = j
    BY <1>2 DEF Distinct
  <2>2. \A x \in ToSet(q) : \E i \in 1 .. Len(q) : f[i] = x
    BY <1>1, <1>2
  <2> QED
    BY <1>2, <2>1, <2>2 DEF Bijection, Injection, Surjection, IsInjective
<1>4. ExistsBijection(1 .. Len(q), ToSet(q))
  BY <1>3 DEF ExistsBijection
<1> QED
  BY <1>1, <1>4, FS_CountingElements

(* A rolecheck that is open, among players who are here, is set.           *)
LEMMA PutCheck ==
    ASSUME NEW s, NEW W, Good(s, W), NEW l \in Players, NEW c \in Rolechecks,
           OpenCheck(c), ToSet(c.members) \subseteq W, NEW t,
           t = [s EXCEPT !.m_rolechecks = Put(s.m_rolechecks, l, c)]
    PROVE  Good(t, W) /\ t.m_offers = s.m_offers
<1>1. s \in Managers /\ s.m_rolechecks \in Maps(Players, Rolechecks)
  BY Fields DEF Good
<1>2. Put(s.m_rolechecks, l, c) \in Maps(Players, Rolechecks)
  BY <1>1, PutIn
<1>3. /\ DOMAIN Put(s.m_rolechecks, l, c) = DOMAIN s.m_rolechecks \cup {l}
      /\ Put(s.m_rolechecks, l, c)[l] = c
      /\ \A x \in DOMAIN s.m_rolechecks : x # l =>
            Put(s.m_rolechecks, l, c)[x] = s.m_rolechecks[x]
  BY DEF Put
<1>4. /\ t \in Managers /\ t.m_rolechecks = Put(s.m_rolechecks, l, c)
      /\ t.m_queue = s.m_queue /\ t.queueOrder = s.queueOrder /\ t.m_offers = s.m_offers
      /\ t.m_playerOffers = s.m_playerOffers
  BY <1>1, <1>2 DEF Managers
<1>5. \A x \in DOMAIN t.m_rolechecks :
         OpenCheck(t.m_rolechecks[x]) /\ ToSet(t.m_rolechecks[x].members) \subseteq W
  BY <1>3, <1>4 DEF Good, Knows
<1> QED
  BY <1>4, <1>5 DEF Good, Indexed, Counts, Knows

(* A player accepts: the same offer but for that.                          *)
Accepted(s, id, p) == [s EXCEPT !.m_offers[id].accepted = @ \cup {p}]

OnlyAccepted(s, id, p, t) ==
    /\ t \in Managers /\ id \in DOMAIN s.m_offers /\ p \in DOMAIN s.m_offers[id].roles
    /\ t.m_queue = s.m_queue /\ t.queueOrder = s.queueOrder /\ t.lastOffer = s.lastOffer
    /\ t.m_rolechecks = s.m_rolechecks /\ t.m_playerOffers = s.m_playerOffers
    /\ DOMAIN t.m_offers = DOMAIN s.m_offers /\ t.m_offers[id] \in Offers
    /\ t.m_offers[id].roles = s.m_offers[id].roles
    /\ t.m_offers[id].accepted = s.m_offers[id].accepted \cup {p}
    /\ \A x \in DOMAIN s.m_offers : x # id => t.m_offers[x] = s.m_offers[x]

(* Accepting changes the offer's accepted players only.                    *)
LEMMA AcceptedIs ==
    ASSUME NEW s, NEW W, Good(s, W), NEW p \in DOMAIN s.m_playerOffers,
           NEW id, id = s.m_playerOffers[p], NEW t, t = Accepted(s, id, p)
    PROVE  OnlyAccepted(s, id, p, t)
<1>1. /\ s \in Managers /\ s.m_offers \in Maps(OfferIds, Offers)
      /\ s.m_playerOffers \in Maps(Players, OfferIds)
  BY Fields DEF Good
<1>2. id \in DOMAIN s.m_offers /\ p \in DOMAIN s.m_offers[id].roles
  BY DEF Good, Indexed
<1>3. DOMAIN s.m_offers \subseteq OfferIds /\ s.m_offers \in [DOMAIN s.m_offers -> Offers]
  BY <1>1, MapIs
<1>4. p \in Players
  BY <1>1, MapIs
<1>5. PICK o \in Offers : o = s.m_offers[id]
  BY <1>2, <1>3
<1>6. PICK b : b = [o EXCEPT !.accepted = o.accepted \cup {p}]
  OBVIOUS
<1>7. b \in Offers /\ b.roles = o.roles /\ b.accepted = o.accepted \cup {p}
  BY <1>4, <1>5, <1>6 DEF Offers
<1>8. PICK m : m = [s.m_offers EXCEPT ![id] = b]
  OBVIOUS
<1>9. /\ m \in [DOMAIN s.m_offers -> Offers] /\ DOMAIN m = DOMAIN s.m_offers /\ m[id] = b
      /\ \A x \in DOMAIN s.m_offers : x # id => m[x] = s.m_offers[x]
  BY <1>2, <1>3, <1>7, <1>8
<1>10. m \in Maps(OfferIds, Offers)
  BY <1>3, <1>9, MapIs
<1>11. t = [s EXCEPT !.m_offers = m]
  BY <1>5, <1>6, <1>8 DEF Accepted
<1>12. /\ t \in Managers /\ t.m_offers = m /\ t.m_queue = s.m_queue
       /\ t.queueOrder = s.queueOrder /\ t.m_rolechecks = s.m_rolechecks
       /\ t.m_playerOffers = s.m_playerOffers /\ t.lastOffer = s.lastOffer
  BY <1>1, <1>10, <1>11 DEF Managers
<1> QED
  BY <1>2, <1>5, <1>7, <1>9, <1>11, <1>12 DEF OnlyAccepted

(* An accept that is not the last keeps the offer open.                    *)
LEMMA AcceptedKeeps ==
    ASSUME NEW s, NEW W, Good(s, W), NEW p \in DOMAIN s.m_playerOffers,
           NEW id, id = s.m_playerOffers[p], NEW t, t = Accepted(s, id, p),
           t.m_offers[id].accepted # DOMAIN t.m_offers[id].roles
    PROVE  Good(t, W)
<1>0. s \in Managers /\ OnlyAccepted(s, id, p, t)
  BY AcceptedIs DEF Good
<1>1. /\ t \in Managers /\ id \in DOMAIN s.m_offers /\ p \in DOMAIN s.m_offers[id].roles
      /\ t.m_queue = s.m_queue /\ t.queueOrder = s.queueOrder
      /\ t.m_rolechecks = s.m_rolechecks /\ t.m_playerOffers = s.m_playerOffers
      /\ DOMAIN t.m_offers = DOMAIN s.m_offers
      /\ t.m_offers[id].roles = s.m_offers[id].roles
      /\ t.m_offers[id].accepted = s.m_offers[id].accepted \cup {p}
      /\ \A x \in DOMAIN s.m_offers : x # id => t.m_offers[x] = s.m_offers[x]
  BY <1>0 DEF OnlyAccepted
<1>2. \A x \in DOMAIN s.m_offers : t.m_offers[x].roles = s.m_offers[x].roles
  BY <1>1
<1>3. \A x \in DOMAIN t.m_offers : OpenOffer(t.m_offers[x])
  <2>1. OpenOffer(t.m_offers[id])
    BY <1>1 DEF Good, OpenOffer
  <2>2. \A x \in DOMAIN s.m_offers : OpenOffer(s.m_offers[x])
    BY DEF Good
  <2> QED
    BY <1>1, <2>1, <2>2
<1>4. Indexed(t)
  <2>1. Indexed(s)
    BY DEF Good
  <2>2. DOMAIN t.m_offers = DOMAIN s.m_offers /\ t.m_playerOffers = s.m_playerOffers
    BY <1>1
  <2>3. ASSUME NEW q \in DOMAIN t.m_playerOffers
        PROVE  /\ t.m_playerOffers[q] \in DOMAIN t.m_offers
               /\ q \in DOMAIN t.m_offers[t.m_playerOffers[q]].roles
    <3>1. PICK k : k = s.m_playerOffers[q]
      OBVIOUS
    <3>2. k \in DOMAIN s.m_offers /\ q \in DOMAIN s.m_offers[k].roles
      BY <2>1, <2>2, <3>1 DEF Indexed
    <3>3. t.m_offers[k].roles = s.m_offers[k].roles
      BY <1>2, <3>2
    <3> QED
      BY <2>2, <3>1, <3>2, <3>3
  <2>4. ASSUME NEW x \in DOMAIN t.m_offers, NEW q \in DOMAIN t.m_offers[x].roles
        PROVE  q \in DOMAIN t.m_playerOffers /\ t.m_playerOffers[q] = x
    <3>1. x \in DOMAIN s.m_offers /\ q \in DOMAIN s.m_offers[x].roles
      BY <1>2, <2>2
    <3> QED
      BY <2>1, <2>2, <3>1 DEF Indexed
  <2> QED
    BY <2>3, <2>4 DEF Indexed
<1>5. Counts(t) /\ Knows(t, W) /\ ToSet(t.queueOrder) = DOMAIN t.m_queue
  BY <1>1 DEF Good, Counts, Knows
<1> QED
  BY <1>1, <1>3, <1>4, <1>5 DEF Good

(* The last accept: the offer ends whether the group is formed or not.     *)
LEMMA AcceptedEnds ==
    ASSUME NEW s, NEW W, Good(s, W), NEW p \in DOMAIN s.m_playerOffers,
           NEW id, id = s.m_playerOffers[p], NEW t, t = Accepted(s, id, p), NEW P
    PROVE  WithoutOffer(t, id, P) = WithoutOffer(s, id, P)
<1>0. s \in Managers /\ OnlyAccepted(s, id, p, t)
  BY AcceptedIs DEF Good
<1>1. /\ t \in Managers /\ s \in Managers /\ id \in DOMAIN s.m_offers
      /\ t.m_queue = s.m_queue /\ t.queueOrder = s.queueOrder
      /\ t.m_rolechecks = s.m_rolechecks /\ t.m_playerOffers = s.m_playerOffers
      /\ DOMAIN t.m_offers = DOMAIN s.m_offers
      /\ t.m_offers[id].roles = s.m_offers[id].roles
      /\ \A x \in DOMAIN s.m_offers : x # id => t.m_offers[x] = s.m_offers[x]
      /\ t.lastOffer = s.lastOffer
  BY <1>0 DEF OnlyAccepted
<1>2. Erase(t.m_offers, {id}) = Erase(s.m_offers, {id})
  BY <1>1 DEF Erase, Restrict
<1>3. PICK q : q = Erase(s.m_queue, P)
  OBVIOUS
<1>4. PICK k : k = Keep(s.queueOrder, Players \ P)
  OBVIOUS
<1>5. PICK e : e = Erase(s.m_playerOffers, DOMAIN s.m_offers[id].roles)
  OBVIOUS
<1>6. PICK m : m = Erase(s.m_offers, {id})
  OBVIOUS
<1>7. WithoutOffer(t, id, P) = [m_queue |-> q, queueOrder |-> k, m_offers |-> m,
        m_playerOffers |-> e, m_rolechecks |-> t.m_rolechecks, lastOffer |-> t.lastOffer]
  <2>1. PICK d : d = Dequeue(t, P)
    OBVIOUS
  <2>2. d = [t EXCEPT !.m_queue = q, !.queueOrder = k]
    BY <1>1, <1>3, <1>4, <2>1 DEF Dequeue
  <2>3. d.m_offers = t.m_offers /\ d.m_playerOffers = t.m_playerOffers
    BY <1>1, <2>2 DEF Managers
  <2>4. WithoutOffer(t, id, P) = [d EXCEPT !.m_offers = m, !.m_playerOffers = e]
    BY <1>1, <1>2, <1>5, <1>6, <2>1, <2>3 DEF WithoutOffer
  <2> QED
    BY <1>1, <2>2, <2>4 DEF Managers
<1>8. WithoutOffer(s, id, P) = [m_queue |-> q, queueOrder |-> k, m_offers |-> m,
        m_playerOffers |-> e, m_rolechecks |-> s.m_rolechecks, lastOffer |-> s.lastOffer]
  <2>1. PICK d : d = Dequeue(s, P)
    OBVIOUS
  <2>2. d = [s EXCEPT !.m_queue = q, !.queueOrder = k]
    BY <1>1, <1>3, <1>4, <2>1 DEF Dequeue
  <2>3. d.m_offers = s.m_offers /\ d.m_playerOffers = s.m_playerOffers
    BY <1>1, <2>2 DEF Managers
  <2>4. WithoutOffer(s, id, P) = [d EXCEPT !.m_offers = m, !.m_playerOffers = e]
    BY <1>5, <1>6, <2>1, <2>3 DEF WithoutOffer
  <2> QED
    BY <1>1, <2>2, <2>4 DEF Managers
<1> QED
  BY <1>1, <1>7, <1>8

-----------------------------------------------------------------------------
(* One lemma for each action: it keeps the invariant, and the offers it    *)
(* makes are sound.                                                        *)

Kept == LFTInv' /\ Sound(lft, lft')

(* An operation that makes no offer, then the matcher.                     *)
LEMMA SoundAfter ==
    ASSUME NEW s, NEW t, NEW u, NEW W, Matched(t, u, W),
           DOMAIN t.m_offers \subseteq DOMAIN s.m_offers
    PROVE  Sound(s, u)
  BY DEF Matched, Sound

(* A handler that leaves parties and places alone.                         *)
LEMMA KeptBy ==
    ASSUME LFTInv, UNCHANGED <<groups, where>>, Good(lft', Here), Sound(lft, lft')
    PROVE  Kept
  BY DEF Kept, LFTInv, Here

(* One that makes no offer either.                                         *)
LEMMA KeptNoOffer ==
    ASSUME LFTInv, UNCHANGED <<groups, where>>, Good(lft', Here),
           DOMAIN lft'.m_offers \subseteq DOMAIN lft.m_offers
    PROVE  Kept
<1>1. Sound(lft, lft')
  BY DEF Sound
<1> QED
  BY <1>1, KeptBy

(* GetPartyMembers: the leader and who of the party is in the world.       *)
LEMMA PartyIs ==
    ASSUME LFTInv, NEW p \in Players, InWorld(p), GroupsOf(groups, p) \subseteq {p},
           NEW m, m = GetPartyMembers(p)
    PROVE  m \in Seq(Players) /\ Distinct(m) /\ p \in ToSet(m) /\ ToSet(m) \subseteq Here
<1>1. p \in Here
  BY DEF InWorld, Here
<1>2. CASE GroupsOf(groups, p) = {}
  <2>1. m = <<p>>
    BY <1>2 DEF GetPartyMembers
  <2>2. <<p>> \in Seq(Players) /\ ToSet(<<p>>) = {p} /\ Distinct(<<p>>)
    BY OneMember
  <2> QED
    BY <1>1, <2>1, <2>2
<1>3. CASE GroupsOf(groups, p) # {}
  <2>1. p \in DOMAIN groups /\ p \in ToSet(groups[p])
    BY <1>3 DEF GroupsOf
  <2>2. groups[p] \in Seq(Players) /\ Distinct(groups[p])
    BY <2>1, GroupIs DEF LFTInv
  <2> DEFINE W == {q \in Players : InWorld(q)}
  <2>3. m = Keep(groups[p], W)
    BY <1>3 DEF GetPartyMembers
  <2>4. p \in W /\ W \subseteq Here
    BY DEF InWorld, Here
  <2> HIDE DEF W
  <2>5. /\ m \in Seq(Players) /\ ToSet(m) = ToSet(groups[p]) \cap W
        /\ Distinct(groups[p]) => Distinct(m)
    BY <2>2, <2>3, KeepIs
  <2> QED
    BY <2>1, <2>2, <2>4, <2>5
<1> QED
  BY <1>2, <1>3

(* HandleQueueJoin: a new rolecheck, after CleanupPlayer.                  *)
LEMMA JoinKeeps ==
    ASSUME LFTInv, NEW p \in Players, NEW instances \in Requests,
           HandleQueueJoin(p, instances)
    PROVE  Kept
<1>1. PICK s : s = CleanupPlayer(lft, p)
  OBVIOUS
<1>2. PICK m : m = GetPartyMembers(p)
  OBVIOUS
<1>3. PICK c : c = [leader |-> p, members |-> m, instances |-> instances,
                    responses |-> EmptyMap, timer |-> RolecheckTime]
  OBVIOUS
<1>4. /\ InWorld(p) /\ GroupsOf(groups, p) \subseteq {p} /\ UNCHANGED <<groups, where>>
      /\ lft' = [s EXCEPT !.m_rolechecks = Put(s.m_rolechecks, p, c)]
  BY <1>1, <1>2, <1>3 DEF HandleQueueJoin
<1>5. Good(s, Here) /\ DOMAIN s.m_offers \subseteq DOMAIN lft.m_offers
  BY <1>1, CleanupKeeps DEF LFTInv
<1>6. m \in Seq(Players) /\ Distinct(m) /\ p \in ToSet(m) /\ ToSet(m) \subseteq Here
  BY <1>2, <1>4, PartyIs
<1>7. c \in Rolechecks /\ OpenCheck(c) /\ c.members = m
  <2>1. EmptyMap \in Maps(Players, SUBSET Roles) /\ DOMAIN EmptyMap = {}
    BY EmptyIs
  <2>2. instances \in SUBSET Instances /\ RolecheckTime \in Int
    BY LFTAssumption
  <2>3. c \in Rolechecks /\ c.members = m /\ c.responses = EmptyMap
    BY <1>3, <1>6, <2>1, <2>2 DEF Rolechecks
  <2> QED
    BY <1>6, <2>1, <2>3 DEF OpenCheck
<1>8. Good(lft', Here) /\ lft'.m_offers = s.m_offers
  BY <1>4, <1>5, <1>6, <1>7, PutCheck
<1> QED
  BY <1>4, <1>5, <1>8, KeptNoOffer

(* HandleQueueLeave, in its three cases.                                   *)
LEMMA LeaveKeeps ==
    ASSUME LFTInv, NEW p \in Players, HandleQueueLeave(p)
    PROVE  Kept
<1>1. Good(lft, Here) /\ lft \in Managers /\ UNCHANGED <<groups, where>>
  BY DEF LFTInv, Good, HandleQueueLeave
<1> DEFINE checks == RolechecksOf(lft, p)
<1>2. CASE checks # {}
  <2>1. lft' = CancelRolechecks(lft, {Min(checks)})
    BY <1>2 DEF HandleQueueLeave
  <2> HIDE DEF checks
  <2>2. Good(lft', Here)
    BY <1>1, <2>1, CancelChecksKeeps
  <2>3. lft'.m_offers = lft.m_offers
    BY <1>1, <2>1, CancelChecksIs
  <2> QED
    BY <1>1, <2>2, <2>3, KeptNoOffer
<1>3. CASE checks = {} /\ p \in DOMAIN lft.m_playerOffers
  <2>1. PICK u : u = CancelOffer(lft, lft.m_playerOffers[p], TRUE, p, TRUE)
    OBVIOUS
  <2>2. lft' = TryMakeOffers(u)
    BY <1>3, <2>1 DEF HandleQueueLeave
  <2>3. Good(u, Here) /\ DOMAIN u.m_offers \subseteq DOMAIN lft.m_offers
    <3>1. PICK id : id = lft.m_playerOffers[p]
      OBVIOUS
    <3>2. u = CancelOffer(lft, id, TRUE, p, TRUE)
      BY <2>1, <3>1
    <3>3. Good(lft, Here)
      BY <1>1
    <3> QED
      BY <3>2, <3>3, CancelOfferKeeps, ZenonT(40)
  <2>4. Matched(u, lft', Here)
    BY <2>2, <2>3, TryMakeOffersKeeps
  <2>5. Sound(lft, lft') /\ Good(lft', Here)
    BY <2>3, <2>4, SoundAfter DEF Matched
  <2> QED
    BY <1>1, <2>5, KeptBy
<1>4. CASE checks = {} /\ p \notin DOMAIN lft.m_playerOffers
  <2>1. lft' = Dequeue(lft, ToSet(Block(lft, p)))
    BY <1>4 DEF HandleQueueLeave
  <2>2. Good(lft', Here)
    BY <1>1, <2>1, DequeueKeeps
  <2>3. lft'.m_offers = lft.m_offers
    BY <1>1, <2>1, DequeueIs
  <2> QED
    BY <1>1, <2>2, <2>3, KeptNoOffer
<1> QED
  BY <1>2, <1>3, <1>4

(* HandleRolecheckResponse: the last answer closes the rolecheck.          *)
LEMMA ResponseKeeps ==
    ASSUME LFTInv, NEW p \in Players, NEW roles \in SUBSET Roles,
           HandleRolecheckResponse(p, roles)
    PROVE  Kept
<1>1. Good(lft, Here) /\ lft \in Managers /\ UNCHANGED <<groups, where>>
  BY DEF LFTInv, Good, HandleRolecheckResponse
<1>2. PICK l : l = Min(RolechecksOf(lft, p))
  OBVIOUS
<1>3. lft.m_rolechecks \in Maps(Players, Rolechecks)
  BY <1>1, Fields
<1>4. /\ DOMAIN lft.m_rolechecks \subseteq Players
      /\ lft.m_rolechecks \in [DOMAIN lft.m_rolechecks -> Rolechecks]
  BY <1>3, MapIs
<1>5. l \in DOMAIN lft.m_rolechecks /\ p \in ToSet(lft.m_rolechecks[l].members)
  <2>1. RolechecksOf(lft, p) # {} /\ RolechecksOf(lft, p) \subseteq DOMAIN lft.m_rolechecks
    BY DEF HandleRolecheckResponse, RolechecksOf
  <2>2. RolechecksOf(lft, p) \subseteq Nat
    BY <1>4, <2>1, LFTAssumption
  <2>3. l \in RolechecksOf(lft, p)
    BY <1>2, <2>1, <2>2, MinOfNats
  <2> QED
    BY <2>3 DEF RolechecksOf
<1>6. PICK c \in Rolechecks : c = lft.m_rolechecks[l]
  BY <1>4, <1>5
<1>7. PICK mask : mask = RoleMask(p, roles)
  OBVIOUS
<1>8. PICK a : a = [c EXCEPT !.responses = Put(c.responses, p, mask)]
  OBVIOUS
<1>9. lft' = IF AllResponded(a) THEN EnqueueRolecheck(CancelRolechecks(lft, {l}), a)
             ELSE [lft EXCEPT !.m_rolechecks[l] = a]
  BY <1>2, <1>6, <1>7, <1>8 DEF HandleRolecheckResponse
<1>10. /\ c.members \in Seq(Players) /\ OpenCheck(c) /\ ToSet(c.members) \subseteq Here
       /\ c.responses \in Maps(Players, SUBSET Roles)
  BY <1>1, <1>5, <1>6 DEF Good, Knows, Rolechecks
<1>11. mask \in SUBSET Roles
  BY <1>7 DEF RoleMask
<1>12. /\ Put(c.responses, p, mask) \in Maps(Players, SUBSET Roles)
       /\ DOMAIN Put(c.responses, p, mask) = DOMAIN c.responses \cup {p}
  <2>1. Put(c.responses, p, mask) \in Maps(Players, SUBSET Roles)
    BY <1>10, <1>11, PutIn
  <2> QED
    BY <2>1 DEF Put
<1>13. /\ a \in Rolechecks /\ a.members = c.members
       /\ DOMAIN a.responses = DOMAIN c.responses \cup {p}
  BY <1>6, <1>8, <1>12 DEF Rolechecks
<1>14. CASE AllResponded(a)
  <2>1. PICK s : s = CancelRolechecks(lft, {l})
    OBVIOUS
  <2>2. Good(s, Here)
    BY <1>1, <2>1, CancelChecksKeeps
  <2>3. s.m_offers = lft.m_offers
    BY <1>1, <2>1, CancelChecksIs
  <2>4. Good(lft', Here) /\ Sound(s, lft')
    BY <1>9, <1>13, <1>14, <2>1, <2>2, EnqueueRolecheckKeeps
  <2>5. Sound(lft, lft')
    BY <2>3, <2>4 DEF Sound
  <2> QED
    BY <1>1, <2>4, <2>5, KeptBy
<1>15. CASE ~AllResponded(a)
  <2>1. lft' = [lft EXCEPT !.m_rolechecks = [lft.m_rolechecks EXCEPT ![l] = a]]
    BY <1>9, <1>15
  <2>2. [lft.m_rolechecks EXCEPT ![l] = a] = Put(lft.m_rolechecks, l, a)
    BY <1>4, <1>5 DEF Put
  <2>3. OpenCheck(a)
    <3>1. DOMAIN a.responses \subseteq ToSet(a.members) /\ Distinct(a.members)
      BY <1>5, <1>6, <1>10, <1>13 DEF OpenCheck
    <3>2. Cardinality(ToSet(a.members)) = Len(a.members)
      BY <1>10, <1>13, <3>1, DistinctCount
    <3>3. DOMAIN a.responses # ToSet(a.members)
      BY <1>15, <3>2 DEF AllResponded
    <3> QED
      BY <3>1, <3>3 DEF OpenCheck
  <2>4. lft' = [lft EXCEPT !.m_rolechecks = Put(lft.m_rolechecks, l, a)]
    BY <2>1, <2>2
  <2>5. Good(lft', Here) /\ lft'.m_offers = lft.m_offers
    <3>1. l \in Players /\ ToSet(a.members) \subseteq Here
      BY <1>4, <1>5, <1>10, <1>13
    <3> QED
      BY <1>1, <1>13, <2>3, <2>4, <3>1, PutCheck
  <2> QED
    BY <1>1, <2>5, KeptNoOffer
<1> QED
  BY <1>14, <1>15

(* CompleteOffer: formed or not, the offer ends for all of its players.    *)
LEMMA CompleteIs ==
    ASSUME NEW s, NEW id \in DOMAIN s.m_offers, CompleteOffer(s, id)
    PROVE  /\ groups' = FormedGroup(s, s.m_offers[id]).groups
           /\ lft' = WithoutOffer(s, id, DOMAIN s.m_offers[id].roles)
<1>1. PICK offer : offer = s.m_offers[id]
  OBVIOUS
<1>2. groups' = FormedGroup(s, offer).groups
  BY <1>1 DEF CompleteOffer
<1>3. CASE FormedGroup(s, offer).added
  BY <1>1, <1>2, <1>3 DEF CompleteOffer, WithoutOffer
<1>4. CASE ~FormedGroup(s, offer).added
  <2>1. lft' = CancelOffer(s, id, FALSE, NoGuid, FALSE)
    BY <1>1, <1>4 DEF CompleteOffer
  <2>2. DOMAIN offer.roles \ {q \in DOMAIN offer.roles :
                                /\ FALSE /\ q # NoGuid
                                /\ FALSE \/ q \in offer.accepted} = DOMAIN offer.roles
    OBVIOUS
  <2> QED
    BY <1>1, <1>2, <2>1, <2>2 DEF CancelOffer, WithoutOffer
<1> QED
  BY <1>3, <1>4

(* HandleOfferAccept: the last accept ends the offer.                      *)
LEMMA AcceptKeeps ==
    ASSUME LFTInv, NEW p \in Players, HandleOfferAccept(p)
    PROVE  Kept
<1>1. Good(lft, Here) /\ lft \in Managers /\ UNCHANGED where /\ p \in DOMAIN lft.m_playerOffers
  BY DEF LFTInv, Good, HandleOfferAccept
<1>2. PICK id : id = lft.m_playerOffers[p]
  OBVIOUS
<1>3. PICK s : s = Accepted(lft, id, p)
  OBVIOUS
<1>4. IF s.m_offers[id].accepted = DOMAIN s.m_offers[id].roles
      THEN CompleteOffer(s, id) ELSE lft' = s /\ UNCHANGED groups
  BY <1>2, <1>3 DEF HandleOfferAccept, Accepted
<1>5. OnlyAccepted(lft, id, p, s)
  BY <1>1, <1>2, <1>3, AcceptedIs
<1>6. /\ s \in Managers /\ s.m_offers[id] \in Offers /\ DOMAIN s.m_offers = DOMAIN lft.m_offers
      /\ s.m_offers[id].roles = lft.m_offers[id].roles /\ id \in DOMAIN lft.m_offers
  BY <1>5 DEF OnlyAccepted
<1>7. CASE s.m_offers[id].accepted # DOMAIN s.m_offers[id].roles
  <2>1. lft' = s /\ UNCHANGED <<groups, where>>
    BY <1>1, <1>4, <1>7
  <2>2. Good(s, Here)
    BY <1>1, <1>2, <1>3, <1>7, AcceptedKeeps
  <2> QED
    BY <1>6, <2>1, <2>2, KeptNoOffer
<1>8. CASE s.m_offers[id].accepted = DOMAIN s.m_offers[id].roles
  <2>1. PICK offer \in Offers : offer = s.m_offers[id]
    BY <1>6
  <2>2. CompleteOffer(s, id)
    BY <1>4, <1>8
  <2>3. FullGroup(offer.roles)
    BY <1>1, <1>6, <2>1 DEF Good, OpenOffer
  <2>4. /\ groups' = FormedGroup(s, offer).groups
        /\ lft' = WithoutOffer(s, id, DOMAIN offer.roles)
    BY <1>6, <2>1, <2>2, CompleteIs
  <2>5. GroupsOK(groups')
    BY <1>6, <2>3, <2>4, FormedIs
  <2>6. lft' = WithoutOffer(lft, id, DOMAIN offer.roles)
    BY <1>1, <1>2, <1>3, <2>4, AcceptedEnds
  <2>7. Good(lft', Here) /\ OfferEnded(lft, id, lft')
    BY <1>1, <1>6, <2>6, WithoutKeeps
  <2>8. Sound(lft, lft')
    BY <2>7 DEF OfferEnded, Sound
  <2> QED
    BY <1>1, <2>5, <2>7, <2>8 DEF Kept, LFTInv, Here
<1> QED
  BY <1>7, <1>8

(* Update: absent players, timers, matcher.                                *)
LEMMA UpdateKeeps ==
    ASSUME LFTInv, Update
    PROVE  Kept
<1>1. Good(lft, Here) /\ lft \in Managers /\ UNCHANGED <<groups, where>>
  BY DEF LFTInv, Good, Update
<1>2. PICK P : P = {p \in DOMAIN lft.m_queue : ~InWorld(p)}
  OBVIOUS
<1>3. PICK d : d = Dequeue(lft, P)
  OBVIOUS
<1>4. PICK t : t = Tick(d)
  OBVIOUS
<1>5. lft' = TryMakeOffers(t)
  BY <1>2, <1>3, <1>4 DEF Update
<1>6. Good(d, Here)
  BY <1>1, <1>3, DequeueKeeps
<1>7. d.m_offers = lft.m_offers
  BY <1>1, <1>3, DequeueIs
<1>8. Good(t, Here) /\ DOMAIN t.m_offers \subseteq DOMAIN d.m_offers
  BY <1>4, <1>6, TickKeeps
<1>9. Matched(t, lft', Here)
  BY <1>5, <1>8, TryMakeOffersKeeps
<1>10. Good(lft', Here) /\ Sound(lft, lft')
  BY <1>7, <1>8, <1>9, SoundAfter DEF Matched
<1> QED
  BY <1>1, <1>10, KeptBy

(* Members leave a party.                                                  *)
LEMMA RemoveKeeps ==
    ASSUME LFTInv, NEW l \in DOMAIN groups, NEW gone, RemoveFromParty(l, gone)
    PROVE  GroupsOK(groups')
<1>1. GroupsOK(groups)
  BY DEF LFTInv
<1>2. /\ groups[l] \in Seq(Players) /\ l \in ToSet(groups[l]) /\ Distinct(groups[l])
      /\ l \in Players
  BY <1>1, GroupIs
<1>3. PICK left : left = Keep(groups[l], Players \ gone)
  OBVIOUS
<1>4. /\ left \in Seq(Players) /\ ToSet(left) = ToSet(groups[l]) \cap (Players \ gone)
      /\ Distinct(groups[l]) => Distinct(left)
  BY <1>2, <1>3, KeepIs
<1>5. GroupsOK(Erase(groups, {l}))
  BY <1>1, EraseGroup
<1>6. CASE Len(left) < 2
  BY <1>3, <1>5, <1>6 DEF RemoveFromParty
<1>7. CASE ~(Len(left) < 2)
  <2>1. PICK next \in IF l \in gone THEN ToSet(left) ELSE {l} :
          groups' = Put(Erase(groups, {l}), next, left)
    BY <1>3, <1>7 DEF RemoveFromParty
  <2>2. next \in ToSet(left) /\ next \in Players
    <3>1. ToSet(left) \subseteq Players
      BY <1>4
    <3>2. l \notin gone => l \in ToSet(left)
      BY <1>2, <1>4
    <3> QED
      BY <2>1, <3>1, <3>2
  <2>3. GroupsOK(Put(Erase(groups, {l}), next, left))
    BY <1>2, <1>4, <1>5, <2>2, PutGroup
  <2> QED
    BY <2>1, <2>3
<1> QED
  BY <1>6, <1>7

(* What happens to parties only does not touch the finder.                 *)
LEMMA KeptParties ==
    ASSUME LFTInv, UNCHANGED <<lft, where>>, GroupsOK(groups')
    PROVE  Kept
  BY DEF Kept, LFTInv, Here, Sound

(* LeaveParty.                                                             *)
LEMMA LeavePartyKeeps ==
    ASSUME LFTInv, NEW p \in Players, LeaveParty(p)
    PROVE  Kept
<1>1. PICK l \in GroupsOf(groups, p) : RemoveFromParty(l, {p})
  BY DEF LeaveParty
<1>2. l \in DOMAIN groups /\ UNCHANGED <<lft, where>>
  BY DEF GroupsOf, LeaveParty
<1>3. GroupsOK(groups')
  BY <1>1, <1>2, RemoveKeeps
<1> QED
  BY <1>2, <1>3, KeptParties

(* AcceptInvite.                                                           *)
LEMMA InviteKeeps ==
    ASSUME LFTInv, NEW l \in Players, NEW p \in Players, AcceptInvite(l, p)
    PROVE  Kept
<1>1. GroupsOK(groups) /\ UNCHANGED <<lft, where>> /\ l # p /\ GroupsOf(groups, p) = {}
  BY DEF LFTInv, AcceptInvite
<1>2. CASE groups' = Put(groups, l, <<l, p>>)
  <2>1. <<l, p>> \in Seq(Players) /\ l \in ToSet(<<l, p>>) /\ Distinct(<<l, p>>)
    BY <1>1, TwoMembers
  <2>2. PICK q : q = <<l, p>>
    OBVIOUS
  <2>3. GroupsOK(Put(groups, l, q))
    BY <1>1, <2>1, <2>2, PutGroup
  <2> QED
    BY <1>1, <1>2, <2>2, <2>3, KeptParties
<1>3. CASE l \in DOMAIN groups /\ groups' = Put(groups, l, Append(groups[l], p))
  <2>1. groups[l] \in Seq(Players) /\ l \in ToSet(groups[l]) /\ Distinct(groups[l])
    BY <1>1, <1>3, GroupIs
  <2>2. p \notin ToSet(groups[l])
    BY <1>1, <1>3 DEF GroupsOf
  <2>3. PICK q : q = Append(groups[l], p)
    OBVIOUS
  <2>4. q \in Seq(Players) /\ l \in ToSet(q) /\ Distinct(q)
    BY <2>1, <2>2, <2>3, AppendIs
  <2>5. GroupsOK(Put(groups, l, q))
    BY <1>1, <2>4, PutGroup
  <2> QED
    BY <1>1, <1>3, <2>3, <2>5, KeptParties
<1> QED
  BY <1>2, <1>3 DEF AcceptInvite

(* More players are here: what is known of them stays.                     *)
LEMMA MoreHere ==
    ASSUME NEW s, NEW W, NEW V, Good(s, W), W \subseteq V
    PROVE  Good(s, V)
<1>1. Knows(s, V)
  BY DEF Good, Knows
<1> QED
  BY <1>1 DEF Good

(* LeaveWorld and EnterWorld: who travels is still in the game.            *)
LEMMA TravelKeeps ==
    ASSUME LFTInv, NEW p \in Players, LeaveWorld(p) \/ EnterWorld(p)
    PROVE  Kept
<1>1. /\ where \in [Players -> {"out", "loading", "world"}] /\ Good(lft, Here)
      /\ UNCHANGED <<lft, groups>>
  BY DEF LFTInv, LeaveWorld, EnterWorld
<1>2. PICK to \in {"loading", "world"} : where' = [where EXCEPT ![p] = to]
  BY DEF LeaveWorld, EnterWorld
<1>3. where' \in [Players -> {"out", "loading", "world"}] /\ Here \subseteq Here'
  BY <1>1, <1>2 DEF Here
<1>4. Good(lft, Here')
  BY <1>1, <1>3, MoreHere
<1> QED
  BY <1>1, <1>3, <1>4 DEF Kept, LFTInv, Sound

(* Logout: CleanupPlayer forgets who leaves the game.                      *)
LEMMA LogoutKeeps ==
    ASSUME LFTInv, NEW p \in Players, Logout(p)
    PROVE  Kept
<1>1. /\ where \in [Players -> {"out", "loading", "world"}] /\ Good(lft, Here)
      /\ where' = [where EXCEPT ![p] = "out"] /\ lft' = CleanupPlayer(lft, p)
      /\ GroupsOK(groups)
  BY DEF LFTInv, Logout
<1>2. where' \in [Players -> {"out", "loading", "world"}] /\ Here' = Here \ {p}
  BY <1>1 DEF Here
<1>3. Good(lft', Here \ {p}) /\ DOMAIN lft'.m_offers \subseteq DOMAIN lft.m_offers
  BY <1>1, CleanupKeeps
<1>4. GroupsOK(groups')
  <2>1. CASE UNCHANGED groups
    BY <1>1, <2>1
  <2>2. CASE \E l \in GroupsOf(groups, p) :
               RemoveFromParty(l, {p} \cup {q \in ToSet(groups[l]) : ~InWorld(q)})
    <3>1. PICK l \in GroupsOf(groups, p) :
            RemoveFromParty(l, {p} \cup {q \in ToSet(groups[l]) : ~InWorld(q)})
      BY <2>2
    <3>2. l \in DOMAIN groups
      BY DEF GroupsOf
    <3>3. PICK gone : gone = {p} \cup {q \in ToSet(groups[l]) : ~InWorld(q)}
      OBVIOUS
    <3>4. RemoveFromParty(l, gone)
      BY <3>1, <3>3
    <3> QED
      BY <3>2, <3>4, RemoveKeeps
  <2> QED
    BY <2>1, <2>2 DEF Logout
<1> QED
  BY <1>2, <1>3, <1>4 DEF Kept, LFTInv, Sound

-----------------------------------------------------------------------------
(* The finder starts empty.                                                *)
LEMMA InitIs == Init => LFTInv
<1> SUFFICES ASSUME Init PROVE LFTInv
  OBVIOUS
<1>1. lft = [m_queue |-> EmptyMap, queueOrder |-> <<>>, m_rolechecks |-> EmptyMap,
             m_offers |-> EmptyMap, m_playerOffers |-> EmptyMap, lastOffer |-> NoGuid]
  BY DEF Init
<1>2. /\ EmptyMap \in Maps(Players, Entries) /\ EmptyMap \in Maps(Players, Rolechecks)
      /\ EmptyMap \in Maps(OfferIds, Offers) /\ EmptyMap \in Maps(Players, OfferIds)
      /\ EmptyMap \in Maps(Players, Seq(Players)) /\ DOMAIN EmptyMap = {}
  BY EmptyIs
<1>3. <<>> \in Seq(Players) /\ NoGuid \in Nat
  BY DEF NoGuid
<1>4. /\ lft \in Managers /\ lft.m_queue = EmptyMap /\ lft.m_rolechecks = EmptyMap
      /\ lft.m_offers = EmptyMap /\ lft.m_playerOffers = EmptyMap /\ lft.queueOrder = <<>>
  BY <1>1, <1>2, <1>3 DEF Managers
<1>5. ToSet(lft.queueOrder) = {}
  <2>1. PICK q \in Seq(Players) : q = <<>>
    BY <1>3
  <2>2. ToSet(q) = {q[i] : i \in 1 .. Len(q)}
    BY ToSetIs
  <2>3. ToSet(q) = {}
    BY <2>1, <2>2
  <2> QED
    BY <1>4, <2>1, <2>3
<1>6. Counts(lft)
  <2>1. IsFiniteSet({}) /\ Cardinality({}) = 0
    BY FS_EmptySet
  <2>2. GroupSize * 0 = 0
    BY LFTAssumption DEF GroupSize
  <2> QED
    BY <1>2, <1>4, <2>1, <2>2 DEF Counts
<1>7. Good(lft, Here)
  BY <1>2, <1>4, <1>5, <1>6 DEF Good, Indexed, Knows
<1>8. GroupsOK(groups) /\ where \in [Players -> {"out", "loading", "world"}]
  BY <1>2 DEF Init, GroupsOK
<1> QED
  BY <1>7, <1>8 DEF LFTInv

(* Every step keeps the invariant and makes sound offers only.             *)
LEMMA StepKeeps == LFTInv /\ [Next]_vars => Kept
<1> SUFFICES ASSUME LFTInv, [Next]_vars PROVE Kept
  OBVIOUS
<1>1. ASSUME NEW p \in Players, Message(p) PROVE Kept
  BY <1>1, JoinKeeps, LeaveKeeps, ResponseKeeps, AcceptKeeps DEF Message
<1>2. ASSUME Surroundings PROVE Kept
  <2>1. ASSUME NEW p \in Leavers, LeaveParty(p) PROVE Kept
    BY <2>1, LFTAssumption, LeavePartyKeeps
  <2>2. ASSUME NEW i \in Invites, AcceptInvite(i[1], i[2]) PROVE Kept
    <3>1. i[1] \in Players /\ i[2] \in Players
      BY LFTAssumption
    <3> QED
      BY <2>2, <3>1, InviteKeeps
  <2>3. ASSUME NEW p \in Travellers, LeaveWorld(p) \/ EnterWorld(p) \/ Logout(p) PROVE Kept
    BY <2>3, LFTAssumption, TravelKeeps, LogoutKeeps
  <2> QED
    BY <1>2, <2>1, <2>2, <2>3 DEF Surroundings
<1>3. CASE UNCHANGED vars
  <2>1. UNCHANGED <<lft, where>> /\ GroupsOK(groups')
    BY <1>3 DEF vars, LFTInv
  <2> QED
    BY <2>1, KeptParties
<1> QED
  BY <1>1, <1>2, <1>3, UpdateKeeps DEF Next

(* The invariant holds of every behaviour of the finder.                   *)
THEOREM Invariance == Spec => []LFTInv
<1>1. LFTInv /\ [Next]_vars => LFTInv'
  BY StepKeeps DEF Kept
<1> QED
  BY InitIs, <1>1, PTL DEF Spec

(* OfferIndex: m_playerOffers is the index of m_offers after every handler, *)
(* for any number of players, instances and offers.                        *)
THEOREM IndexIsExact == Spec => []OfferIndex
<1>1. LFTInv => OfferIndex
  BY DEF LFTInv, Good, Indexed, OfferIndex
<1> QED
  BY <1>1, Invariance, PTL

(* NothingDecidedStays: no rolecheck stays that everybody answered, and no *)
(* offer that everybody accepted, whatever leaves or expires between.      *)
THEOREM DecidedIsClosed == Spec => []NothingDecidedStays
<1>1. LFTInv => NothingDecidedStays
  BY DEF LFTInv, Good, OpenCheck, OpenOffer, NothingDecidedStays
<1> QED
  BY <1>1, Invariance, PTL

(* LoggedOutIsGone: after a logout nothing of the finder names the player. *)
THEOREM LogoutForgets == Spec => []LoggedOutIsGone
<1>1. LFTInv => LoggedOutIsGone
  BY DEF LFTInv, Good, Knows, Here, RolechecksOf, LoggedOutIsGone
<1> QED
  BY <1>1, Invariance, PTL

(* NoMissedMatch: whoever else waits and in whatever order, the matcher    *)
(* gives an offer for the instance, or one of the group an offer for       *)
(* another, when players who queued alone for one role each make a full    *)
(* group.                                                                  *)
THEOREM SimpleMatchesAreMade == Spec => []NoMissedMatch
<1>1. ASSUME LFTInv PROVE NoMissedMatch
  <2>1. \A instance, P : Match(lft, instance, P) =>
          Served(lft, TryMakeOffers(lft), instance, P)
    BY <1>1, TryMakeOffersKeeps DEF LFTInv
  <2> QED
    BY <2>1, Zenon DEF NoMissedMatch, Match, Served, Offered
<1> QED
  BY <1>1, Invariance, PTL

(* OffersAreSound: the greedy matcher, its folds over the queue and over the *)
(* blocks included, offers full groups of players who wait for the instance, *)
(* in roles they chose, compatible with the seed, and splits no block.     *)
THEOREM SoundMatches == Spec => OffersAreSound
<1>1. LFTInv /\ [Next]_vars =>
        [\A id \in DOMAIN lft'.m_offers \ DOMAIN lft.m_offers :
           SoundOffer(lft', lft'.m_offers[id])]_vars
  BY StepKeeps DEF Kept, Sound
<1>2. [][\A id \in DOMAIN lft'.m_offers \ DOMAIN lft.m_offers :
           SoundOffer(lft', lft'.m_offers[id])]_vars <=> OffersAreSound
  BY PTL DEF OffersAreSound, SoundOffer
<1> QED
  BY <1>1, <1>2, Invariance, PTL DEF Spec

-----------------------------------------------------------------------------
(* GroupForms: the loop of CompleteOffer, when nothing is in its way.      *)

(* The leader's party is the leader and D; who of P is not in it has none. *)
Party(g, leader, P, D) ==
    /\ GroupsOK(g) /\ leader \in DOMAIN g /\ ToSet(g[leader]) = {leader} \cup D
    /\ \A q \in P \ ({leader} \cup D) : GroupsOf(g, q) = {}

(* The loop has been through D.                                            *)
Joined(a, leader, P, D) ==
    /\ a.added
    /\ \/ D = {} /\ a.key = NoGuid /\ a.groups = groups
       \/ a.key = leader /\ Party(a.groups, leader, P, D)

(* Players in the world, without a party, who may all group.               *)
Ready(P) ==
    /\ P \subseteq Players /\ Cardinality(P) = GroupSize
    /\ \A q \in P : InWorld(q) /\ GroupsOf(groups, q) = {}
    /\ P \X P \subseteq CanPlayersGroup

(* The first call makes the leader's party.                                *)
LEMMA FirstParty ==
    ASSUME LFTInv, NEW P, Ready(P), NEW leader \in P
    PROVE  Party(Put(groups, leader, <<leader>>), leader, P, {})
<1>1. PICK o : o = <<leader>>
  OBVIOUS
<1>2. leader \in Players /\ GroupsOK(groups)
  BY DEF Ready, LFTInv
<1>3. o \in Seq(Players) /\ ToSet(o) = {leader} /\ Distinct(o)
  BY <1>1, <1>2, OneMember
<1>4. PICK g : g = Put(groups, leader, o)
  OBVIOUS
<1>5. GroupsOK(g) /\ DOMAIN g = DOMAIN groups \cup {leader}
  BY <1>2, <1>3, <1>4, PutGroup
<1>6. g[leader] = o /\ \A l \in DOMAIN groups : l # leader => g[l] = groups[l]
  BY <1>4 DEF Put
<1>7. ASSUME NEW q \in P \ ({leader} \cup {}) PROVE GroupsOf(g, q) = {}
  <2>1. GroupsOf(groups, q) = {}
    BY DEF Ready
  <2>2. \A l \in DOMAIN g : q \notin ToSet(g[l])
    BY <1>3, <1>5, <1>6, <2>1 DEF GroupsOf
  <2> QED
    BY <2>2 DEF GroupsOf
<1>8. Party(g, leader, P, {})
  BY <1>3, <1>5, <1>6, <1>7 DEF Party
<1> QED
  BY <1>1, <1>4, <1>8

(* A player without a party joins the leader's, which has room.            *)
LEMMA PartyGrows ==
    ASSUME LFTInv, NEW P, Ready(P), NEW leader \in P, NEW D, D \subseteq P, NEW g,
           Party(g, leader, P, D), NEW x \in P, x \notin ToSet(g[leader])
    PROVE  /\ ~IsFull(g, leader) /\ GroupsOf(g, x) = {}
           /\ Party(Put(g, leader, Append(g[leader], x)), leader, P, D \cup {x})
<1>1. /\ GroupsOK(g) /\ leader \in DOMAIN g /\ ToSet(g[leader]) = {leader} \cup D
      /\ x \in Players /\ P \subseteq Players /\ Cardinality(P) = GroupSize
  BY DEF Party, Ready
<1>2. g[leader] \in Seq(Players) /\ Distinct(g[leader]) /\ leader \in Players
  BY <1>1, GroupIs
<1>3. ~IsFull(g, leader)
  <2>1. Len(g[leader]) = Cardinality({leader} \cup D)
    BY <1>1, <1>2, DistinctCount
  <2>2. {leader} \cup D \subseteq P \ {x}
    BY <1>1
  <2>3. IsFiniteSet(P)
    BY <1>1, LFTAssumption, FS_Subset
  <2>4. IsFiniteSet(P \ {x}) /\ Cardinality(P \ {x}) = GroupSize - 1
    BY <1>1, <2>3, FS_RemoveElement
  <2>5. Cardinality({leader} \cup D) <= GroupSize - 1
    BY <2>2, <2>4, FS_Subset
  <2>6. GroupSize \in Nat /\ Len(g[leader]) \in Nat
    BY <1>2, LFTAssumption DEF GroupSize
  <2> QED
    BY <2>1, <2>5, <2>6 DEF IsFull
<1>4. x \in P \ ({leader} \cup D)
  BY <1>1
<1>5. GroupsOf(g, x) = {}
  BY <1>4 DEF Party
<1>6. PICK o : o = Append(g[leader], x)
  OBVIOUS
<1>7. o \in Seq(Players) /\ ToSet(o) = {leader} \cup D \cup {x} /\ Distinct(o)
  BY <1>1, <1>2, <1>6, AppendIs
<1>8. PICK h : h = Put(g, leader, o)
  OBVIOUS
<1>9. GroupsOK(h) /\ DOMAIN h = DOMAIN g \cup {leader}
  BY <1>1, <1>2, <1>7, <1>8, PutGroup
<1>10. h[leader] = o /\ \A l \in DOMAIN g : l # leader => h[l] = g[l]
  BY <1>8 DEF Put
<1>11. ASSUME NEW q \in P \ ({leader} \cup (D \cup {x})) PROVE GroupsOf(h, q) = {}
  <2>1. GroupsOf(g, q) = {}
    BY DEF Party
  <2>2. \A l \in DOMAIN h : q \notin ToSet(h[l])
    BY <1>7, <1>9, <1>10, <2>1 DEF GroupsOf
  <2> QED
    BY <2>2 DEF GroupsOf
<1>12. Party(h, leader, P, D \cup {x})
  BY <1>7, <1>9, <1>10, <1>11 DEF Party
<1> QED
  BY <1>3, <1>5, <1>6, <1>8, <1>12

(* One call of AddPlayerToGroup.                                           *)
LEMMA JoinedStep ==
    ASSUME LFTInv, NEW P, Ready(P), NEW leader \in P, NEW D, D \subseteq P, NEW acc,
           Joined(acc, leader, P, D), NEW p \in P
    PROVE  Joined(AddPlayerToGroup(acc, leader, p), leader, P, D \cup {p})
<1> DEFINE known == IF acc.key # NoGuid THEN {acc.key} ELSE GroupsOf(acc.groups, leader)
           key == IF known = {} THEN leader ELSE CHOOSE l \in known : TRUE
           g == IF known = {} THEN Put(acc.groups, leader, <<leader>>) ELSE acc.groups
           joins == /\ GroupsOf(g, p) = {} /\ ~IsFull(g, key)
                    /\ InWorld(leader) => <<leader, p>> \in CanPlayersGroup
           b == AddPlayerToGroup(acc, leader, p)
<1>0. b = IF ~acc.added \/ ~InWorld(p) \/ (acc.key = NoGuid /\ ~InWorld(leader))
          THEN [acc EXCEPT !.added = FALSE]
          ELSE IF p \in ToSet(g[key]) THEN [added |-> TRUE, key |-> key, groups |-> g]
          ELSE [added |-> joins, key |-> key,
                groups |-> IF joins THEN Put(g, key, Append(g[key], p)) ELSE g]
  BY Zenon DEF AddPlayerToGroup
<1>1. acc.added /\ InWorld(p) /\ InWorld(leader) /\ <<leader, p>> \in CanPlayersGroup
  BY DEF Joined, Ready
<1>2. key = leader /\ Party(g, leader, P, D)
  <2>1. CASE D = {} /\ acc.key = NoGuid /\ acc.groups = groups
    <3>1. known = {}
      BY <2>1 DEF Ready
    <3>2. key = leader /\ g = Put(groups, leader, <<leader>>)
      BY <2>1, <3>1
    <3> HIDE DEF key, g
    <3> QED
      BY <2>1, <3>2, FirstParty
  <2>2. CASE acc.key = leader /\ Party(acc.groups, leader, P, D)
    <3>1. leader # NoGuid
      BY LFTAssumption DEF Ready, NoGuid
    <3>2. known = {leader}
      BY <2>2, <3>1
    <3>3. key = leader /\ g = acc.groups
      BY <3>2
    <3> HIDE DEF key, g
    <3> QED
      BY <2>2, <3>3
  <2> QED
    BY <2>1, <2>2 DEF Joined
<1> HIDE DEF key, g, known
<1>3. CASE p \in ToSet(g[key])
  <2>1. b = [added |-> TRUE, key |-> leader, groups |-> g]
    BY <1>0, <1>1, <1>2, <1>3
  <2>2. {leader} \cup D = {leader} \cup (D \cup {p})
    BY <1>2, <1>3 DEF Party
  <2>3. Party(g, leader, P, D \cup {p})
    BY <1>2, <2>2 DEF Party
  <2> HIDE DEF b
  <2>4. b.added /\ b.key = leader /\ b.groups = g
    BY <2>1
  <2> QED
    BY <2>3, <2>4 DEF Joined, b
<1>4. CASE p \notin ToSet(g[key])
  <2>1. /\ ~IsFull(g, leader) /\ GroupsOf(g, p) = {}
        /\ Party(Put(g, leader, Append(g[leader], p)), leader, P, D \cup {p})
    BY <1>2, <1>4, PartyGrows
  <2>2. joins
    BY <1>1, <1>2, <2>1
  <2>3. b = [added |-> joins, key |-> key,
             groups |-> IF joins THEN Put(g, key, Append(g[key], p)) ELSE g]
    BY <1>0, <1>1, <1>4
  <2> HIDE DEF b, joins
  <2>4. b.added /\ b.key = leader /\ b.groups = Put(g, leader, Append(g[leader], p))
    BY <1>2, <2>2, <2>3
  <2> QED
    BY <2>1, <2>4 DEF Joined, b
<1> QED
  BY <1>3, <1>4

(* The whole loop: everybody is in the leader's party.                     *)
LEMMA FormsAll ==
    ASSUME LFTInv, NEW s \in Managers, NEW offer \in Offers, FullGroup(offer.roles),
           NEW P, P = DOMAIN offer.roles, Ready(P), OfferLeader(s, offer) \in P
    PROVE  \E l \in P : /\ l \in DOMAIN FormedGroup(s, offer).groups
                        /\ ToSet(FormedGroup(s, offer).groups[l]) = P
<1> DEFINE leader == OfferLeader(s, offer)
           seq == Ascending(DOMAIN offer.roles)
           X == P
           base == [added |-> TRUE, key |-> NoGuid, groups |-> groups]
           Step(a, x) == AddPlayerToGroup(a, leader, x)
           f == [u \in Forming \X X |-> Step(u[1], u[2])]
           n == Len(seq)
           Is(g) == g = [u \in SUBSET DOMAIN seq |->
                           IF u = {} THEN base ELSE Step(g[u \ {Max(u)}], seq[Max(u)])]
           it == CHOOSE g : Is(g)
           all == it[DOMAIN seq]
<1>0. FormedGroup(s, offer) = all
  BY Zenon DEF FormedGroup, FoldLeft, MapThenFoldSet
<1>1. /\ seq \in Seq(X) /\ n \in Nat /\ DOMAIN seq = 1 .. n /\ P = {seq[i] : i \in 1 .. n}
      /\ P \subseteq Players
  <2>1. P \subseteq Players /\ P \subseteq Nat \ {0} /\ IsFiniteSet(P)
    BY LFTAssumption, FS_Subset DEF Ready
  <2>2. seq \in Seq(P) /\ ToSet(seq) = P
    BY <2>1, AscendingIs
  <2> HIDE DEF seq
  <2>3. ToSet(seq) = {seq[i] : i \in 1 .. n} /\ n \in Nat
    BY <2>2, ToSetIs
  <2> QED
    BY <2>1, <2>2, <2>3
<1>2. base \in Forming /\ Joined(base, leader, P, {})
  <2>1. GroupsOK(groups) /\ groups \in Maps(Players, Seq(Players))
    BY DEF LFTInv, GroupsOK
  <2>2. base \in Forming
    BY <2>1 DEF Forming
  <2> QED
    BY <2>2 DEF Joined
<1>3. \A i \in 1 .. n : seq[i] \in X
  BY <1>1
<1>4. leader \in P
  OBVIOUS
<1> HIDE DEF leader
<1>5. ASSUME NEW a \in Forming, NEW x \in X PROVE Step(a, x) \in Forming
  <2>1. leader \in Players /\ x \in Players
    BY <1>1, <1>4
  <2> QED
    BY <2>1, AddPlayerIs
<1>6. ASSUME NEW a, NEW x \in X, NEW D \in SUBSET P, Joined(a, leader, P, D)
      PROVE  Joined(Step(a, x), leader, P, D \cup {x})
  BY <1>4, <1>6, JoinedStep
<1> HIDE DEF Step
<1>7. f \in [Forming \X X -> Forming] /\ \A a \in Forming, x \in X : f[<<a, x>>] = Step(a, x)
  BY <1>5
<1> HIDE DEF base, f, seq, X
<1>8. PICK g : FoldValues(g, Forming, X, base, seq, f)
  BY <1>1, <1>2, <1>7, IteratesExist
<1>9. Is(g)
  <2>1. \A u \in SUBSET (1 .. n) :
          g[u] = IF u = {} THEN base ELSE Step(g[u \ {Max(u)}], seq[Max(u)])
    BY <1>7, <1>8 DEF FoldValues, Iterates
  <2>2. g = [u \in SUBSET (1 .. n) |-> g[u]]
    BY <1>8 DEF FoldValues
  <2> QED
    BY <1>1, <2>1, <2>2
<1>10. Is(it)
  <2> HIDE DEF Is
  <2> QED
    BY <1>9
<1> HIDE DEF it
<1>11. it[{}] = base
  BY <1>1, <1>10
<1>12. ASSUME NEW i \in 1 .. n
       PROVE  it[1 .. i] = Step(it[1 .. i - 1], seq[i])
  <2>1. 1 .. i \in SUBSET (1 .. n) /\ i \in Nat /\ i # 0
    BY <1>1
  <2> QED
    BY <1>1, <1>10, <2>1, PrefixMax, PrefixLess
<1> DEFINE First(i) == {seq[j] : j \in 1 .. i}
           T == {i \in 0 .. n : Joined(it[1 .. i], leader, P, First(i))}
<1>13. 0 \in T
  <2>1. First(0) = {} /\ 1 .. 0 = {} /\ 0 \in 0 .. n
    BY <1>1
  <2> QED
    BY <1>2, <1>11, <2>1
<1>14. ASSUME NEW i \in 1 .. n, i - 1 \in T PROVE i \in T
  <2>1. First(i) = First(i - 1) \cup {seq[i]}
    <3>1. \A j : j \in 1 .. i <=> j \in 1 .. i - 1 \/ j = i
      BY <1>1
    <3> QED
      BY <3>1
  <2>2. First(i - 1) \in SUBSET P
    <3>1. \A j \in 1 .. i - 1 : j \in 1 .. n
      BY <1>1
    <3> QED
      BY <1>1, <3>1
  <2>3. Joined(it[1 .. i - 1], leader, P, First(i - 1))
    BY <1>14
  <2> HIDE DEF First
  <2>4. Joined(Step(it[1 .. i - 1], seq[i]), leader, P, First(i - 1) \cup {seq[i]})
    BY <1>3, <1>6, <2>2, <2>3
  <2>5. Joined(it[1 .. i], leader, P, First(i)) /\ i \in 0 .. n
    BY <1>1, <1>12, <2>1, <2>4
  <2> QED
    BY <2>5
<1>15. n \in T
  <2> HIDE DEF T
  <2>1. \A i \in 0 .. n : i \in T
    BY <1>1, <1>13, <1>14, UpTo
  <2> QED
    BY <1>1, <2>1
<1>16. Joined(all, leader, P, P)
  BY <1>1, <1>15
<1> HIDE DEF all
<1>17. leader \in DOMAIN all.groups /\ ToSet(all.groups[leader]) = P
  BY <1>4, <1>16 DEF Joined, Party
<1> QED
  BY <1>0, <1>4, <1>17

(* The last accept empties the queue and the index of the players.         *)
LEMMA WithoutQueue ==
    ASSUME NEW s \in Managers, NEW id, NEW P, NEW t, t = WithoutOffer(s, id, P)
    PROVE  /\ DOMAIN t.m_queue = DOMAIN s.m_queue \ P
           /\ DOMAIN t.m_playerOffers = DOMAIN s.m_playerOffers \ DOMAIN s.m_offers[id].roles
<1>1. PICK d : d = Dequeue(s, P)
  OBVIOUS
<1>2. /\ d \in Managers /\ DOMAIN d.m_queue = DOMAIN s.m_queue \ P
      /\ d.m_playerOffers = s.m_playerOffers
  BY <1>1, DequeueIs
<1>3. PICK R : R = DOMAIN s.m_offers[id].roles
  OBVIOUS
<1>4. t = [d EXCEPT !.m_offers = Erase(d.m_offers, {id}),
                    !.m_playerOffers = Erase(d.m_playerOffers, R)]
  BY <1>1, <1>3 DEF WithoutOffer
<1>5. t.m_queue = d.m_queue /\ t.m_playerOffers = Erase(d.m_playerOffers, R)
  BY <1>2, <1>4 DEF Managers
<1>6. DOMAIN Erase(d.m_playerOffers, R) = DOMAIN d.m_playerOffers \ R
  BY EraseValues
<1> QED
  BY <1>2, <1>3, <1>5, <1>6

(* HandleOfferAccept by the last player.                                   *)
LEMMA GroupFormsStep ==
    ASSUME LFTInv, NEW id \in DOMAIN lft.m_offers, NEW p \in DOMAIN lft.m_offers[id].roles,
           NEW P, P = DOMAIN lft.m_offers[id].roles,
           P \subseteq lft.m_offers[id].accepted \cup {p}, HandleOfferAccept(p),
           \A q \in P : InWorld(q) /\ GroupsOf(groups, q) = {},
           P \X P \subseteq CanPlayersGroup, OfferLeader(lft, lft.m_offers[id]) \in P
    PROVE  /\ \E l \in P : l \in DOMAIN groups' /\ ToSet(groups'[l]) = P
           /\ P \cap (DOMAIN lft'.m_queue \cup DOMAIN lft'.m_playerOffers) = {}
<1>1. Good(lft, Here) /\ lft \in Managers /\ Indexed(lft) /\ OpenOffer(lft.m_offers[id])
  BY DEF LFTInv, Good
<1>2. p \in DOMAIN lft.m_playerOffers /\ lft.m_playerOffers[p] = id
  BY <1>1 DEF Indexed
<1>3. PICK s : s = Accepted(lft, id, p)
  OBVIOUS
<1>4. IF s.m_offers[id].accepted = DOMAIN s.m_offers[id].roles
      THEN CompleteOffer(s, id) ELSE lft' = s /\ UNCHANGED groups
  BY <1>2, <1>3 DEF HandleOfferAccept, Accepted
<1>5. OnlyAccepted(lft, id, p, s)
  BY <1>1, <1>2, <1>3, AcceptedIs
<1>6. PICK offer \in Offers : offer = s.m_offers[id]
  BY <1>5 DEF OnlyAccepted
<1>7. /\ s \in Managers /\ id \in DOMAIN s.m_offers /\ offer.roles = lft.m_offers[id].roles
      /\ offer.accepted = lft.m_offers[id].accepted \cup {p} /\ s.m_queue = lft.m_queue
  BY <1>5, <1>6 DEF OnlyAccepted
<1>8. CompleteOffer(s, id)
  <2>1. offer.accepted = DOMAIN offer.roles
    BY <1>1, <1>7 DEF OpenOffer
  <2> QED
    BY <1>4, <1>6, <2>1
<1>9. groups' = FormedGroup(s, offer).groups /\ lft' = WithoutOffer(s, id, P)
  BY <1>6, <1>7, <1>8, CompleteIs
<1>10. FullGroup(offer.roles)
  BY <1>1, <1>7 DEF OpenOffer
<1>11. Ready(P)
  <2>1. P \subseteq Players
    BY <1>1, <1>7, MapIs DEF Offers
  <2> QED
    BY <1>7, <1>10, <2>1 DEF Ready, FullGroup
<1>12. OfferLeader(s, offer) = OfferLeader(lft, lft.m_offers[id])
  BY <1>7 DEF OfferLeader
<1>13. \E l \in P : l \in DOMAIN groups' /\ ToSet(groups'[l]) = P
  BY <1>7, <1>9, <1>10, <1>11, <1>12, FormsAll
<1>14. lft' = WithoutOffer(lft, id, P)
  BY <1>1, <1>2, <1>3, <1>9, AcceptedEnds
<1>15. /\ DOMAIN lft'.m_queue = DOMAIN lft.m_queue \ P
       /\ DOMAIN lft'.m_playerOffers = DOMAIN lft.m_playerOffers \ P
  BY <1>1, <1>14, WithoutQueue
<1> QED
  BY <1>13, <1>15

(* GroupForms: the players of an offer that all accepted, in the world,    *)
(* without a party and compatible, end up in one party, and the finder     *)
(* forgets them: the loop over AddPlayerToGroup adds every one of them.    *)
THEOREM AcceptedForms == Spec => GroupForms
<1> DEFINE Forms ==
      \A id \in DOMAIN lft.m_offers : \A p \in DOMAIN lft.m_offers[id].roles :
        LET offer == lft.m_offers[id]
            P == DOMAIN offer.roles
        IN  /\ P \subseteq offer.accepted \cup {p} /\ HandleOfferAccept(p)
            /\ \A q \in P : InWorld(q) /\ GroupsOf(groups, q) = {}
            /\ P \X P \subseteq CanPlayersGroup
            /\ OfferLeader(lft, offer) \in P
            => /\ \E l \in P : l \in DOMAIN groups' /\ ToSet(groups'[l]) = P
               /\ P \cap (DOMAIN lft'.m_queue \cup DOMAIN lft'.m_playerOffers) = {}
<1>1. LFTInv => Forms
  BY GroupFormsStep
<1>2. LFTInv /\ [Next]_vars => [Forms]_vars
  <2> HIDE DEF Forms
  <2> QED
    BY <1>1
<1> QED
  BY <1>2, Invariance, PTL DEF Spec, GroupForms
=============================================================================
