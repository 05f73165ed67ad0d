------------------------------- MODULE SeqFolds -------------------------------
(***************************************************************************)
(* What the proofs about LFTQueue need of natural numbers, of finite sets  *)
(* of them and of FoldLeft. The induction theorems of the library take an  *)
(* operator that the provers cannot instantiate; the least number of a set *)
(* of counterexamples does the same with first-order facts only.           *)
(***************************************************************************)
EXTENDS Naturals, Sequences, SequencesExt, FiniteSetTheorems, TLAPS

(* A set of naturals has a least element.                                  *)
LEMMA LeastNat ==
    ASSUME NEW T, T \subseteq Nat, T # {}
    PROVE  \E x \in T : \A y \in T : ~(y < x)
<1> DEFINE R == {r \in Nat \X Nat : r[1] < r[2]}
<1>1. R = OpToRel(<, Nat)
  BY Zenon DEF OpToRel
<1>2. IsWellFoundedOn(R, Nat)
  BY NatLessThanWellFounded, <1>1, Zenon
<1> HIDE DEF R
<1>3. \E x \in T : \A y \in T : ~(<<y, x>> \in R)
  BY <1>2, WFMin, Zenon
<1> QED
  BY <1>3 DEF R

(* Induction: a set with 0 that is closed under successors up to n holds   *)
(* every number up to n.                                                   *)
LEMMA UpTo ==
    ASSUME NEW n \in Nat, NEW S, 0 \in S,
           \A i \in 1 .. n : i - 1 \in S => i \in S
    PROVE  \A i \in 0 .. n : i \in S
<1> DEFINE T == (0 .. n) \ S
<1> SUFFICES ASSUME T # {} PROVE FALSE
  OBVIOUS
<1>1. T \subseteq Nat
  OBVIOUS
<1>2. PICK x \in T : \A y \in T : ~(y < x)
  BY <1>1, LeastNat
<1>3. x \in 1 .. n
  BY <1>2
<1>4. x - 1 \notin S
  BY <1>2, <1>3
<1>5. x - 1 \in 0 .. n /\ x - 1 < x
  BY <1>3
<1> QED
  BY <1>2, <1>4, <1>5

(* Max is the element no other exceeds.                                    *)
LEMMA MaxIs ==
    ASSUME NEW S, S \subseteq Nat, NEW m \in S, \A y \in S : y <= m
    PROVE  Max(S) = m
<1>1. \A x \in S : (\A y \in S : x >= y) <=> x = m
  OBVIOUS
<1> QED
  BY <1>1 DEF Max

(* A bounded set of naturals has a greatest element.                       *)
LEMMA MaxOfBounded ==
    ASSUME NEW S, S \subseteq Nat, S # {}, NEW n \in Nat, \A x \in S : x <= n
    PROVE  Max(S) \in S /\ \A y \in S : y <= Max(S)
<1> DEFINE T == {k \in Nat : \A x \in S : x <= k}
<1>1. T \subseteq Nat /\ T # {}
  OBVIOUS
<1>2. PICK m \in T : \A y \in T : ~(y < m)
  BY <1>1, LeastNat
<1>3. m \in S
  <2> SUFFICES ASSUME m \notin S PROVE FALSE
    OBVIOUS
  <2>1. PICK x0 : x0 \in S
    OBVIOUS
  <2>2. m # 0
    BY <2>1
  <2>3. m - 1 \in Nat /\ m - 1 < m
    BY <2>2
  <2>4. \A x \in S : x <= m - 1
    BY <2>3
  <2> QED
    BY <1>2, <2>3, <2>4
<1>4. Max(S) = m
  BY <1>2, <1>3, MaxIs
<1> QED
  BY <1>2, <1>3, <1>4

(* A finite set of naturals is bounded.                                    *)
LEMMA FiniteIsBounded ==
    ASSUME NEW S, S \subseteq Nat, IsFiniteSet(S)
    PROVE  \E n \in Nat : \A x \in S : x <= n
<1>0. PICK k \in Nat : ExistsSurjection(1 .. k, S)
  BY FS_NatSurjection
<1>1. PICK f \in [1 .. k -> S] : \A x \in S : \E i \in 1 .. k : f[i] = x
  BY <1>0 DEF ExistsSurjection, Surjection
<1> DEFINE B == {i \in 0 .. k : \E n \in Nat : \A j \in 1 .. i : f[j] <= n}
<1>2. 0 \in B
  OBVIOUS
<1>3. ASSUME NEW i \in 1 .. k, i - 1 \in B PROVE i \in B
  <2>1. PICK n \in Nat : \A j \in 1 .. i - 1 : f[j] <= n
    BY <1>3
  <2>2. f[i] \in Nat
    BY <1>3
  <2>3. \A j \in 1 .. i : j \in 1 .. i - 1 \/ j = i
    BY <1>3
  <2>4. \A j \in 1 .. i : f[j] \in Nat
    <3>1. \A j \in 1 .. i : j \in 1 .. k
      BY <1>3
    <3> QED
      BY <3>1
  <2>5. \A j \in 1 .. i : f[j] <= n + f[i]
    BY <2>1, <2>2, <2>3, <2>4
  <2>6. n + f[i] \in Nat /\ i \in 0 .. k
    BY <1>3, <2>2
  <2> QED
    BY <2>5, <2>6
<1>4. k \in B
  <2> HIDE DEF B
  <2> QED
    BY <1>2, <1>3, UpTo
<1> QED
  BY <1>1, <1>4

(* A finite set of naturals has a greatest element.                        *)
LEMMA MaxOfFinite ==
    ASSUME NEW S, S \subseteq Nat, S # {}, IsFiniteSet(S)
    PROVE  Max(S) \in S /\ \A y \in S : y <= Max(S)
  BY FiniteIsBounded, MaxOfBounded

(* Min is an element of the set.                                           *)
LEMMA MinOfNats ==
    ASSUME NEW S, S \subseteq Nat, S # {}
    PROVE  Min(S) \in S
<1>1. PICK m \in S : \A y \in S : ~(y < m)
  BY LeastNat
<1>2. \A y \in S : m <= y
  BY <1>1
<1> QED
  BY <1>2 DEF Min

(* The values that FoldLeft goes through, of a step that is a function.    *)
Iterates(g, n, base, seq, f) ==
    \A s \in SUBSET (1 .. n) :
        g[s] = IF s = {} THEN base ELSE f[<<g[s \ {Max(s)}], seq[Max(s)]>>]

(* The values for one more element.                                        *)
LEMMA IteratesNext ==
    ASSUME NEW A, NEW X, NEW n \in Nat, NEW seq, seq[n + 1] \in X, NEW base,
           NEW f \in [A \X X -> A],
           NEW g \in [SUBSET (1 .. n) -> A], Iterates(g, n, base, seq, f)
    PROVE  \E h \in [SUBSET (1 .. n + 1) -> A] : Iterates(h, n + 1, base, seq, f)
<1> DEFINE h == [s \in SUBSET (1 .. n + 1) |->
                   IF n + 1 \in s THEN f[<<g[s \ {n + 1}], seq[n + 1]>>] ELSE g[s]]
<1>1. ASSUME NEW s \in SUBSET (1 .. n + 1), n + 1 \in s
      PROVE  /\ Max(s) = n + 1 /\ s \ {n + 1} \in SUBSET (1 .. n)
             /\ s \ {n + 1} \in SUBSET (1 .. n + 1)
  <2>0. \A y \in s : y \in Nat /\ y <= n + 1
    OBVIOUS
  <2>1. s \subseteq Nat
    BY <2>0
  <2>2. Max(s) = n + 1
    BY <1>1, <2>0, <2>1, MaxIs
  <2>3. \A y \in s : y # n + 1 => y \in 1 .. n
    OBVIOUS
  <2> QED
    BY <2>2, <2>3
<1>2. ASSUME NEW s \in SUBSET (1 .. n + 1), n + 1 \notin s
      PROVE  s \in SUBSET (1 .. n)
  <2>1. \A y \in s : y # n + 1 => y \in 1 .. n
    OBVIOUS
  <2> QED
    BY <1>2, <2>1
<1>3. h \in [SUBSET (1 .. n + 1) -> A]
  <2>1. ASSUME NEW s \in SUBSET (1 .. n + 1) PROVE h[s] \in A
    <3>1. CASE n + 1 \in s
      BY <1>1, <3>1
    <3>2. CASE n + 1 \notin s
      BY <1>2, <3>2
    <3> QED
      BY <3>1, <3>2
  <2> QED
    BY <2>1
<1>4. ASSUME NEW s \in SUBSET (1 .. n + 1)
      PROVE  h[s] = IF s = {} THEN base ELSE f[<<h[s \ {Max(s)}], seq[Max(s)]>>]
  <2>1. CASE n + 1 \in s
    <3>1. h[s \ {n + 1}] = g[s \ {n + 1}]
      BY <1>1, <2>1
    <3>2. h[s] = f[<<g[s \ {n + 1}], seq[n + 1]>>]
      BY <2>1
    <3> QED
      BY <1>1, <2>1, <3>1, <3>2
  <2>2. CASE n + 1 \notin s
    <3>1. s \in SUBSET (1 .. n) /\ h[s] = g[s]
      BY <1>2, <2>2
    <3>2. s # {} => h[s \ {Max(s)}] = g[s \ {Max(s)}]
      <4>1. n + 1 \notin s \ {Max(s)} /\ s \ {Max(s)} \in SUBSET (1 .. n + 1)
        BY <2>2
      <4> QED
        BY <4>1
    <3>3. g[s] = IF s = {} THEN base ELSE f[<<g[s \ {Max(s)}], seq[Max(s)]>>]
      BY <3>1 DEF Iterates
    <3> QED
      BY <3>1, <3>2, <3>3
  <2> QED
    BY <2>1, <2>2
<1> HIDE DEF h
<1> QED
  BY <1>3, <1>4 DEF Iterates

FoldValues(g, A, X, base, seq, f) ==
    /\ g \in [SUBSET (1 .. Len(seq)) -> A] /\ Iterates(g, Len(seq), base, seq, f)
    /\ \A s \in SUBSET (1 .. Len(seq)) :
          s # {} => g[s \ {Max(s)}] \in A /\ seq[Max(s)] \in X

(* They exist for every sequence.                                          *)
LEMMA IteratesExist ==
    ASSUME NEW A, NEW X, NEW seq \in Seq(X), NEW base \in A, NEW f \in [A \X X -> A]
    PROVE  \E g : FoldValues(g, A, X, base, seq, f)
<1> DEFINE B == {n \in 0 .. Len(seq) :
                   \E g \in [SUBSET (1 .. n) -> A] : Iterates(g, n, base, seq, f)}
<1>1. Len(seq) \in Nat /\ \A i \in 1 .. Len(seq) : seq[i] \in X
  OBVIOUS
<1>2. 0 \in B
  <2> DEFINE g == [s \in SUBSET (1 .. 0) |-> base]
  <2>1. g \in [SUBSET (1 .. 0) -> A]
    OBVIOUS
  <2>2. \A s \in SUBSET (1 .. 0) : s = {}
    OBVIOUS
  <2>3. Iterates(g, 0, base, seq, f)
    BY <2>2 DEF Iterates
  <2> HIDE DEF g
  <2>4. \E gg \in [SUBSET (1 .. 0) -> A] : Iterates(gg, 0, base, seq, f)
    BY <2>1, <2>3
  <2>5. 0 \in 0 .. Len(seq)
    BY <1>1
  <2> QED
    BY <2>4, <2>5, Zenon
<1>3. ASSUME NEW i \in 1 .. Len(seq), i - 1 \in B PROVE i \in B
  <2>1. PICK g \in [SUBSET (1 .. i - 1) -> A] : Iterates(g, i - 1, base, seq, f)
    BY <1>3
  <2>2. i - 1 \in Nat /\ (i - 1) + 1 = i /\ seq[(i - 1) + 1] \in X
    BY <1>1
  <2>3. \E h \in [SUBSET (1 .. (i - 1) + 1) -> A] : Iterates(h, (i - 1) + 1, base, seq, f)
    BY <2>1, <2>2, IteratesNext
  <2> QED
    BY <1>1, <2>2, <2>3
<1>4. Len(seq) \in B
  <2> HIDE DEF B
  <2>1. \A i \in 0 .. Len(seq) : i \in B
    BY <1>1, <1>2, <1>3, UpTo
  <2> QED
    BY <1>1, <2>1
<1>5. PICK g \in [SUBSET (1 .. Len(seq)) -> A] : Iterates(g, Len(seq), base, seq, f)
  BY <1>4
<1>6. ASSUME NEW s \in SUBSET (1 .. Len(seq)), s # {}
      PROVE  g[s \ {Max(s)}] \in A /\ seq[Max(s)] \in X
  <2>1. s \subseteq Nat /\ \A x \in s : x <= Len(seq)
    BY <1>1
  <2>2. Max(s) \in s
    BY <1>1, <1>6, <2>1, MaxOfBounded
  <2> QED
    BY <1>1, <2>2
<1> QED
  BY <1>5, <1>6 DEF FoldValues

(* The chain of sets along which a fold goes.                              *)
LEMMA PrefixMax ==
    ASSUME NEW i \in Nat, i # 0
    PROVE  Max(1 .. i) = i
<1>1. i \in 1 .. i /\ (1 .. i) \subseteq Nat /\ \A y \in 1 .. i : y <= i
  OBVIOUS
<1> QED
  BY <1>1, MaxIs

(* The chain without its last element is the one before.                   *)
LEMMA PrefixLess ==
    ASSUME NEW i \in Nat, i # 0
    PROVE  (1 .. i) \ {i} = 1 .. i - 1 /\ i \in 1 .. i
  OBVIOUS

(* What holds at the start of a fold and after each step holds throughout. *)
LEMMA FoldChain ==
    ASSUME NEW A, NEW n \in Nat, NEW it, it[{}] \in A,
           \A i \in 1 .. n : it[1 .. i - 1] \in A => it[1 .. i] \in A
    PROVE  \A i \in 0 .. n : it[1 .. i] \in A
<1> DEFINE B == {i \in 0 .. n : it[1 .. i] \in A}
<1>1. 1 .. 0 = {}
  OBVIOUS
<1>2. 0 \in B
  BY <1>1
<1>3. \A i \in 1 .. n : i - 1 \in B => i \in B
  OBVIOUS
<1>4. \A i \in 0 .. n : i \in B
  <2> HIDE DEF B
  <2> QED
    BY <1>2, <1>3, UpTo
<1> QED
  BY <1>4
=============================================================================
