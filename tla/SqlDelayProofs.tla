----------------------------- MODULE SqlDelayProofs -----------------------------
(***************************************************************************)
(* What holds of asynchronous SQL for any number of calling threads, delay *)
(* threads and operations: every operation is executed once, those of one  *)
(* serial id in order, none is left behind by StopServer, and callbacks    *)
(* run once and in order.                                                  *)
(***************************************************************************)
EXTENDS SqlDelay, SequenceTheorems, FiniteSetTheorems, TLAPS

-----------------------------------------------------------------------------
(* Sequences of numbers: LockedQueue's add is Append, its next is Head and *)
(* Tail.                                                                   *)

Distinct(s) == \A i, j \in 1 .. Len(s) : s[i] = s[j] => i = j
Increasing(s) == \A i, j \in 1 .. Len(s) : i < j => s[i] < s[j]

(* What add puts into a queue.                                             *)
LEMMA AppendElements ==
    ASSUME NEW S, NEW s \in Seq(S), NEW e \in S
    PROVE  Elements(Append(s, e)) = Elements(s) \cup {e}
<1>1. /\ Append(s, e) \in Seq(S) /\ Len(s) \in Nat
      /\ Len(Append(s, e)) = Len(s) + 1
      /\ \A i \in 1 .. Len(s) : Append(s, e)[i] = s[i]
      /\ Append(s, e)[Len(s) + 1] = e
  BY AppendProperties, LenProperties
<1>2. \A i \in 1 .. Len(s) + 1 : i \in 1 .. Len(s) \/ i = Len(s) + 1
  BY <1>1
<1>3. 1 .. Len(s) \subseteq 1 .. Len(s) + 1 /\ Len(s) + 1 \in 1 .. Len(s) + 1
  BY <1>1
<1> QED
  BY <1>1, <1>2, <1>3 DEF Elements

(* Adding something new leaves a queue without repetitions.                *)
LEMMA AppendDistinct ==
    ASSUME NEW S, NEW s \in Seq(S), NEW e \in S, Distinct(s), e \notin Elements(s)
    PROVE  Distinct(Append(s, e))
<1>1. /\ Append(s, e) \in Seq(S) /\ Len(s) \in Nat
      /\ Len(Append(s, e)) = Len(s) + 1
      /\ \A i \in 1 .. Len(s) : Append(s, e)[i] = s[i]
      /\ Append(s, e)[Len(s) + 1] = e
  BY AppendProperties, LenProperties
<1>2. \A i \in 1 .. Len(s) + 1 : i \in 1 .. Len(s) \/ i = Len(s) + 1
  BY <1>1
<1> QED
  BY <1>1, <1>2 DEF Elements, Distinct

(* Adding a larger number leaves a queue increasing.                       *)
LEMMA AppendIncreasing ==
    ASSUME NEW s \in Seq(Nat), NEW e \in Nat, Increasing(s),
           \A x \in Elements(s) : x < e
    PROVE  Increasing(Append(s, e))
<1>1. /\ Append(s, e) \in Seq(Nat) /\ Len(s) \in Nat
      /\ Len(Append(s, e)) = Len(s) + 1
      /\ \A i \in 1 .. Len(s) : Append(s, e)[i] = s[i]
      /\ Append(s, e)[Len(s) + 1] = e
  BY AppendProperties, LenProperties
<1>2. \A i \in 1 .. Len(s) + 1 : i \in 1 .. Len(s) \/ i = Len(s) + 1
  BY <1>1
<1> QED
  BY <1>1, <1>2 DEF Elements, Increasing

(* next takes the first element and no other.                              *)
LEMMA TailElements ==
    ASSUME NEW S, NEW s \in Seq(S), s # <<>>, Distinct(s)
    PROVE  /\ Tail(s) \in Seq(S) /\ Head(s) \in Elements(s) /\ Head(s) \in S
           /\ Elements(Tail(s)) = Elements(s) \ {Head(s)}
           /\ Distinct(Tail(s))
<1>1. /\ Tail(s) \in Seq(S) /\ Len(s) \in Nat \ {0} /\ Head(s) \in S
      /\ Len(Tail(s)) = Len(s) - 1
      /\ \A i \in 1 .. Len(Tail(s)) : Tail(s)[i] = s[i + 1]
  BY HeadTailProperties, EmptySeq
<1>2. Head(s) = s[1]
  OBVIOUS
<1>3. Elements(Tail(s)) \subseteq Elements(s) \ {Head(s)}
  <2> SUFFICES ASSUME NEW i \in 1 .. Len(Tail(s))
               PROVE  Tail(s)[i] \in Elements(s) /\ Tail(s)[i] # s[1]
    BY <1>2 DEF Elements
  <2>1. i + 1 \in 1 .. Len(s) /\ 1 \in 1 .. Len(s) /\ i + 1 # 1
    BY <1>1
  <2> QED
    BY <1>1, <2>1 DEF Elements, Distinct
<1>4. ASSUME NEW i \in 1 .. Len(s), i # 1 PROVE s[i] \in Elements(Tail(s))
  <2>1. i - 1 \in 1 .. Len(Tail(s)) /\ s[i] = Tail(s)[i - 1]
    BY <1>1, <1>4
  <2> QED
    BY <2>1 DEF Elements
<1>5. Elements(s) \ {Head(s)} \subseteq Elements(Tail(s))
  BY <1>2, <1>4 DEF Elements
<1>6. Distinct(Tail(s))
  <2> SUFFICES ASSUME NEW i \in 1 .. Len(Tail(s)), NEW j \in 1 .. Len(Tail(s)),
                      Tail(s)[i] = Tail(s)[j]
               PROVE  i = j
    BY DEF Distinct
  <2>1. i + 1 \in 1 .. Len(s) /\ j + 1 \in 1 .. Len(s)
    BY <1>1
  <2>2. i + 1 = j + 1
    BY <1>1, <2>1 DEF Distinct
  <2> QED
    BY <2>2
<1> QED
  BY <1>1, <1>2, <1>3, <1>5, <1>6 DEF Elements

(* An increasing queue has no repetitions.                                 *)
LEMMA IncreasingDistinct ==
    ASSUME NEW s \in Seq(Nat), Increasing(s)
    PROVE  Distinct(s)
<1>1. Len(s) \in Nat /\ \A i \in 1 .. Len(s) : s[i] \in Nat
  BY LenProperties, ElementOfSeq
<1> QED
  BY <1>1 DEF Increasing, Distinct

(* The first element of an increasing queue is below the others.           *)
LEMMA TailIncreasing ==
    ASSUME NEW s \in Seq(Nat), s # <<>>, Increasing(s)
    PROVE  Increasing(Tail(s)) /\ \A x \in Elements(Tail(s)) : Head(s) < x
<1>1. /\ Tail(s) \in Seq(Nat) /\ Len(s) \in Nat \ {0} /\ Head(s) \in Nat
      /\ Len(Tail(s)) = Len(s) - 1
      /\ \A i \in 1 .. Len(Tail(s)) : Tail(s)[i] = s[i + 1]
  BY HeadTailProperties, EmptySeq
<1>2. Head(s) = s[1]
  OBVIOUS
<1>3. \A i \in 1 .. Len(Tail(s)) : i + 1 \in 1 .. Len(s) /\ 1 < i + 1
  BY <1>1
<1>4. 1 \in 1 .. Len(s)
  BY <1>1
<1>5. \A x \in Elements(Tail(s)) : Head(s) < x
  BY <1>1, <1>2, <1>3, <1>4 DEF Elements, Increasing
<1>6. \A i, j \in 1 .. Len(Tail(s)) : i < j => i + 1 < j + 1
  BY <1>1
<1> QED
  BY <1>1, <1>3, <1>5, <1>6 DEF Increasing

(* The elements of a queue have its type.                                  *)
LEMMA ElementsType ==
    ASSUME NEW S, NEW s \in Seq(S)
    PROVE  Elements(s) \subseteq S
  BY ElementOfSeq DEF Elements

(* How often an element occurs in a sequence without repetitions.          *)
LEMMA TimesDistinct ==
    ASSUME NEW S, NEW s \in Seq(S), Distinct(s), NEW id
    PROVE  Times(id, s) = IF id \in Elements(s) THEN 1 ELSE 0
<1> DEFINE T == {i \in 1 .. Len(s) : s[i] = id}
<1>1. CASE id \in Elements(s)
  <2>1. PICK k \in 1 .. Len(s) : s[k] = id
    BY <1>1 DEF Elements
  <2>2. T = {k}
    BY <2>1 DEF Distinct
  <2> QED
    BY <1>1, <2>2, FS_Singleton DEF Times
<1>2. CASE id \notin Elements(s)
  <2>1. T = {}
    BY <1>2 DEF Elements
  <2> QED
    BY <1>2, <2>1, FS_EmptySet DEF Times
<1> QED
  BY <1>1, <1>2

-----------------------------------------------------------------------------
(* Types. *)

USE SqlAssumption

OpTypes ==
    /\ ops \in Seq(Shapes) /\ Len(ops) <= MaxOps
    /\ seen \in Seq(Seq(SUBSET Ids)) /\ Len(seen) = Len(ops)

(* What kinds of operations there are: only queries and holders have       *)
(* callbacks for the result queue, only transactions and holders a serial  *)
(* id.                                                                     *)
LEMMA ShapeTypes ==
    ASSUME NEW shape \in Shapes
    PROVE  /\ shape.serial \in Nat
           /\ shape.kind \in {"plain", "trans", "query", "holder"}
           /\ shape.cb \in {"safe", "unsafe"} <=> shape.kind \in {"query", "holder"}
           /\ shape.kind \in {"plain", "query"} => shape.serial = 0
           /\ shape.cb \in {"none", "op", "safe", "unsafe"}
  BY DEF OpShapes

(* A serial id has a thread.                                               *)
LEMMA WorkerOf ==
    ASSUME NEW s \in Nat
    PROVE  s % NumWorkers \in Workers
<1>1. s % NumWorkers \in 0 .. NumWorkers - 1
  OBVIOUS
<1> QED
  BY <1>1 DEF Workers

(* A new operation gets the next number, and leaves the others as they     *)
(* are.                                                                    *)
LEMMA IssueTypes ==
    ASSUME OpTypes, NEW shape \in Shapes, Issue(shape)
    PROVE  /\ OpTypes'
           /\ Len(ops) \in Nat /\ Len(ops') = Len(ops) + 1
           /\ Ids' = Ids \cup {Len(ops) + 1} /\ Len(ops) + 1 \notin Ids
           /\ \A id \in Ids : id \in Nat /\ id < Len(ops) + 1
           /\ \A id \in Ids : ops'[id] = ops[id] /\ seen'[id] = seen[id]
           /\ ops'[Len(ops) + 1] = shape /\ seen'[Len(ops) + 1] = <<>>
<1>1. /\ ops' \in Seq(Shapes) /\ Len(ops) \in Nat
      /\ Len(ops') = Len(ops) + 1
      /\ \A i \in 1 .. Len(ops) : ops'[i] = ops[i]
      /\ ops'[Len(ops) + 1] = shape
  BY AppendProperties, LenProperties DEF OpTypes, Issue
<1>2. /\ Ids' = Ids \cup {Len(ops) + 1} /\ Len(ops) + 1 \notin Ids
      /\ \A id \in Ids : id \in Nat /\ id < Len(ops) + 1
  BY <1>1 DEF Ids
<1>3. /\ <<>> \in Seq(SUBSET Ids) /\ seen' = Append(seen, <<>>)
  BY EmptySeq DEF Issue
<1>4. /\ seen' \in Seq(Seq(SUBSET Ids)) /\ Len(seen') = Len(ops) + 1
      /\ \A i \in 1 .. Len(seen) : seen'[i] = seen[i]
      /\ seen'[Len(ops) + 1] = <<>>
  <2> DEFINE S == Seq(SUBSET Ids)
  <2>1. seen \in Seq(S) /\ <<>> \in S
    BY <1>3 DEF OpTypes
  <2> HIDE DEF S
  <2>2. /\ Append(seen, <<>>) \in Seq(S) /\ Len(Append(seen, <<>>)) = Len(seen) + 1
        /\ \A i \in 1 .. Len(seen) : Append(seen, <<>>)[i] = seen[i]
        /\ Append(seen, <<>>)[Len(seen) + 1] = <<>>
    BY <2>1, AppendProperties
  <2>3. Len(seen) = Len(ops)
    BY DEF OpTypes
  <2> QED
    BY <2>2, <2>3, <1>3 DEF S
<1>5. seen' \in Seq(Seq(SUBSET Ids'))
  <2>1. SUBSET Ids \subseteq SUBSET Ids'
    BY <1>2
  <2>2. Seq(SUBSET Ids) \subseteq Seq(SUBSET Ids')
    BY <2>1, SeqMonotonic
  <2> QED
    BY <1>4, <2>2, SeqMonotonic
<1>6. Len(ops') <= MaxOps
  BY <1>1 DEF Issue
<1>7. OpTypes'
  BY <1>1, <1>4, <1>5, <1>6 DEF OpTypes
<1>8. \A id \in Ids : ops'[id] = ops[id] /\ seen'[id] = seen[id]
  BY <1>1, <1>4 DEF Ids, OpTypes
<1> QED
  BY <1>1, <1>2, <1>4, <1>7, <1>8

(* The parts of TypeOK that name operations, for the operations I.         *)
IdTypes(I) ==
    /\ m_delayQueue \in Seq(I) /\ m_serialDelayQueue \in [Workers -> Seq(I)]
    /\ cur \in [Workers -> I \cup {0}]
    /\ ended \in Seq(I)
    /\ results \in Seq(I) /\ unsafeWaiting \in Seq(I) /\ batch \subseteq I
    /\ arrived \in Seq(I) /\ called \subseteq I /\ unsafeCalled \in Seq(I)

OtherTypes ==
    /\ async \in BOOLEAN
    /\ trans \in [Threads -> [serial : {s.serial : s \in Shapes} \cup {0},
                              size : 0 .. MaxStmts, open : BOOLEAN]]
    /\ m_running \in [Workers -> BOOLEAN]
    /\ pc \in [Workers -> {"test", "shared", "serial", "exit", "gone"}]
    /\ pass \in {"idle", "take", "run", "wait"} /\ ran \in BOOLEAN
    /\ stop \in {"up", "halt", "join", "drain", "cancel", "down"}
    /\ at \in 0 .. NumWorkers

(* The parts of TypeOK.                                                    *)
LEMMA TypeParts == TypeOK <=> OpTypes /\ IdTypes(Ids) /\ OtherTypes
  BY DEF TypeOK, OpTypes, IdTypes, OtherTypes

(* The parts of TypeOK after a step.                                       *)
LEMMA TypePartsNext == TypeOK' <=> OpTypes' /\ IdTypes(Ids)' /\ OtherTypes'
  BY DEF TypeOK, OpTypes, IdTypes, OtherTypes

(* What is typed stays so when an operation is added.                      *)
LEMMA MoreIds ==
    ASSUME NEW I, NEW J, I \subseteq J, IdTypes(I)
    PROVE  IdTypes(J)
<1>1. Seq(I) \subseteq Seq(J)
  BY SeqMonotonic
<1> QED
  BY <1>1 DEF IdTypes

(* The empty sequence has every type.                                      *)
LEMMA NothingTyped ==
    ASSUME NEW S PROVE <<>> \in Seq(S)
  BY EmptySeq

(* The types hold at the start.                                            *)
LEMMA InitTypes == Init => TypeOK
<1> SUFFICES ASSUME Init PROVE TypeOK
  OBVIOUS
<1>1. OpTypes
  BY NothingTyped DEF Init, OpTypes
<1>2. IdTypes(Ids)
  BY NothingTyped DEF Init, IdTypes
<1>3. NoTrans \in [serial : {s.serial : s \in Shapes} \cup {0},
                   size : 0 .. MaxStmts, open : BOOLEAN]
  BY DEF NoTrans
<1>4. 0 \in 0 .. NumWorkers
  OBVIOUS
<1>5. OtherTypes
  BY <1>3, <1>4 DEF Init, OtherTypes
<1> QED
  BY <1>1, <1>2, <1>5, TypeParts

(* The statements of an open transaction.                                  *)
LEMMA TransTypes ==
    ASSUME TypeOK, NEW t \in Threads,
           \/ trans' = [trans EXCEPT ![t] = NoTrans]
           \/ \E shape \in Shapes :
                trans' = [trans EXCEPT ![t] = [serial |-> shape.serial, size |-> 0,
                                               open |-> TRUE]]
           \/ DelayExecute(t)
    PROVE  trans' \in [Threads -> [serial : {s.serial : s \in Shapes} \cup {0},
                              size : 0 .. MaxStmts, open : BOOLEAN]]
<1> DEFINE R == [serial : {s.serial : s \in Shapes} \cup {0},
                 size : 0 .. MaxStmts, open : BOOLEAN]
<1>1. trans \in [Threads -> R]
  BY DEF TypeOK
<1>2. NoTrans \in R
  BY DEF NoTrans
<1>3. \A shape \in Shapes : [serial |-> shape.serial, size |-> 0, open |-> TRUE] \in R
  OBVIOUS
<1>4. ASSUME DelayExecute(t) PROVE trans' \in [Threads -> R]
  <2>1. trans[t] \in R /\ trans[t].size \in 0 .. MaxStmts /\ trans[t].size < MaxStmts
    BY <1>1, <1>4 DEF DelayExecute
  <2>2. [trans[t] EXCEPT !.size = @ + 1] \in R
    BY <2>1
  <2>3. trans' = [trans EXCEPT ![t] = [trans[t] EXCEPT !.size = @ + 1]]
    BY <1>4 DEF DelayExecute
  <2> QED
    BY <1>1, <2>2, <2>3
<1> HIDE DEF R
<1>5. trans' \in [Threads -> R]
  BY <1>1, <1>2, <1>3, <1>4
<1> QED
  BY <1>5 DEF R

(* The ways an operation is handed over: to the shared queue, to the queue *)
(* of its thread, or executed at once.                                     *)
AddShared(shape) ==
    /\ Issue(shape) /\ shape.serial = 0
    /\ AddToDelayQueue(Len(ops) + 1) /\ UNCHANGED <<cur, ended, async>>
AddSerial(shape) ==
    /\ Issue(shape) /\ shape.serial # 0 /\ async
    /\ AddToSerialDelayQueue(Len(ops) + 1, shape.serial)
    /\ UNCHANGED <<cur, ended, async>>
AddDirect(shape) ==
    /\ Issue(shape) /\ (async => shape.serial = 0)
    /\ Directly(Len(ops) + 1) /\ UNCHANGED <<cur, async>>
    /\ shape.cb \in {"none", "op"}

Handed(t, shape) ==
    \/ Execute(t, shape) \/ CommitTransaction(t, shape)
    \/ CommitTransactionDirect(t, shape)
    \/ AsyncQuery(t, shape) \/ DelayQueryHolder(t, shape)

(* A thread that hands an operation over adds it to the shared queue, to a *)
(* serial queue or executes it.                                            *)
LEMMA HandedKinds ==
    ASSUME NEW t \in Threads, NEW shape \in Shapes, Handed(t, shape)
    PROVE  /\ AddShared(shape) \/ AddSerial(shape) \/ AddDirect(shape)
           /\ UNCHANGED <<pc, result, unsafeCalled, halt>>
           /\ \/ called' = called
              \/ shape.cb = "op" /\ called' = called \cup {Len(ops) + 1}
           /\ trans' = trans \/ trans' = [trans EXCEPT ![t] = NoTrans]
<1>1. CASE Execute(t, shape)
  BY <1>1, ShapeTypes DEF Execute, AddShared, AddDirect, client, worker, calls, Directly
<1>2. CASE CommitTransaction(t, shape)
  <2>1. shape.cb \in {"none", "op"}
    BY <1>2, ShapeTypes DEF CommitTransaction
  <2>2. CASE async /\ shape.serial = 0
    BY <1>2, <2>2 DEF CommitTransaction, AddShared, AddToSerialDelayQueue, worker
  <2>3. CASE async /\ shape.serial # 0
    BY <1>2, <2>3 DEF CommitTransaction, AddSerial, worker
  <2>4. CASE ~async
    BY <1>2, <2>1, <2>4 DEF CommitTransaction, AddDirect, worker
  <2> QED
    BY <2>2, <2>3, <2>4
<1>3. CASE CommitTransactionDirect(t, shape)
  BY <1>3 DEF CommitTransactionDirect, AddDirect, worker, calls
<1>4. CASE AsyncQuery(t, shape)
  BY <1>4, ShapeTypes DEF AsyncQuery, AddShared, client, worker, calls
<1>5. CASE DelayQueryHolder(t, shape)
  <2>1. CASE shape.serial = 0
    BY <1>5, <2>1 DEF DelayQueryHolder, AddShared, AddToSerialDelayQueue, client, worker, calls
  <2>2. CASE shape.serial # 0
    BY <1>5, <2>2 DEF DelayQueryHolder, AddSerial, client, worker, calls
  <2> QED
    BY <2>1, <2>2
<1> QED
  BY <1>1, <1>2, <1>3, <1>4, <1>5 DEF Handed

(* Handing an operation over keeps the types.                              *)
LEMMA HandedTypes ==
    ASSUME TypeOK, NEW t \in Threads, NEW shape \in Shapes, Handed(t, shape)
    PROVE  TypeOK'
<1> DEFINE id == Len(ops) + 1
<1>1. OpTypes /\ IdTypes(Ids) /\ OtherTypes
  BY TypeParts
<1>2. Issue(shape)
  BY HandedKinds DEF AddShared, AddSerial, AddDirect
<1>3. /\ OpTypes' /\ Ids' = Ids \cup {id}
  BY <1>1, <1>2, IssueTypes
<1>4. IdTypes(Ids') /\ id \in Ids'
  BY <1>1, <1>3, MoreIds
<1> HIDE DEF id
<1>5. /\ m_delayQueue' \in Seq(Ids') /\ m_serialDelayQueue' \in [Workers -> Seq(Ids')]
      /\ ended' \in Seq(Ids') /\ cur' = cur
  <2>1. CASE AddShared(shape)
    BY <1>4, <2>1, AppendProperties DEF AddShared, AddToDelayQueue, IdTypes, id
  <2>2. CASE AddSerial(shape)
    <3>1. shape.serial % NumWorkers \in Workers
      BY WorkerOf, ShapeTypes
    <3>2. m_serialDelayQueue' = [m_serialDelayQueue EXCEPT
                                      ![shape.serial % NumWorkers] = Append(@, id)]
      BY <2>2 DEF AddSerial, AddToSerialDelayQueue, id
    <3>3. Append(m_serialDelayQueue[shape.serial % NumWorkers], id) \in Seq(Ids')
      BY <1>4, <3>1, AppendProperties DEF IdTypes
    <3> QED
      BY <1>4, <2>2, <3>1, <3>2, <3>3 DEF AddSerial, AddToSerialDelayQueue, IdTypes
  <2>3. CASE AddDirect(shape)
    BY <1>4, <2>3, AppendProperties DEF AddDirect, Directly, queues, IdTypes, id
  <2> QED
    BY <2>1, <2>2, <2>3, HandedKinds
<1>6. called' \subseteq Ids'
  BY <1>4, HandedKinds DEF IdTypes, id
<1>7. IdTypes(Ids)'
  BY <1>4, <1>5, <1>6, HandedKinds DEF IdTypes, result
<1>8. trans' \in [Threads -> [serial : {s.serial : s \in Shapes} \cup {0},
                              size : 0 .. MaxStmts, open : BOOLEAN]]
  BY HandedKinds, TransTypes DEF TypeOK
<1>9. OtherTypes'
  BY <1>1, <1>8, HandedKinds DEF AddShared, AddSerial, AddDirect, OtherTypes, result, halt
<1> QED
  BY <1>3, <1>7, <1>9, TypePartsNext

(* The steps of a delay thread, as its queues and operations see them.     *)
TakeShared(w) ==
    /\ cur[w] = 0 /\ m_delayQueue # <<>>
    /\ cur' = [cur EXCEPT ![w] = Head(m_delayQueue)]
    /\ m_delayQueue' = Tail(m_delayQueue)
    /\ UNCHANGED <<ops, seen, ended, m_serialDelayQueue>>
TakeSerial(w) ==
    /\ cur[w] = 0 /\ m_serialDelayQueue[w] # <<>>
    /\ cur' = [cur EXCEPT ![w] = Head(m_serialDelayQueue[w])]
    /\ m_serialDelayQueue' = [m_serialDelayQueue EXCEPT ![w] = Tail(@)]
    /\ UNCHANGED <<ops, seen, ended, m_delayQueue>>
Finish(w) ==
    /\ cur[w] # 0
    /\ ended' = Append(ended, cur[w])
    /\ cur' = [cur EXCEPT ![w] = 0]
    /\ UNCHANGED <<ops, seen, m_delayQueue, m_serialDelayQueue>>
StayPut == UNCHANGED <<ops, seen, cur, ended, m_delayQueue, m_serialDelayQueue>>

(* A delay thread takes an operation, finishes one, executes a query of a  *)
(* holder or does none of these.                                           *)
LEMMA WorkKinds ==
    ASSUME NEW w \in Workers, Work(w)
    PROVE  /\ TakeShared(w) \/ TakeSerial(w) \/ Finish(w) \/ HolderQuery(w) \/ StayPut
           /\ UNCHANGED <<client, unsafeWaiting, batch, pass, ran, unsafeCalled, halt>>
<1>1. CASE LoopTest(w)
  BY <1>1 DEF LoopTest, StayPut, queues, done, result, calls
<1>2. CASE NextDelayedOperation(w)
  BY <1>2 DEF NextDelayedOperation, TakeShared, StayPut, done, result, calls
<1>3. CASE NextSerialOperation(w)
  BY <1>3 DEF NextSerialOperation, TakeSerial, StayPut, done, result, calls
<1>4. CASE PerformWrite(w)
  BY <1>4 DEF PerformWrite, Has, Finish, queues, result
<1>5. CASE HolderQuery(w)
  BY <1>5 DEF HolderQuery, result, calls
<1>6. CASE AddResult(w)
  BY <1>6 DEF AddResult, Has, Finish, queues, calls
<1> QED
  BY <1>1, <1>2, <1>3, <1>4, <1>5, <1>6 DEF Work

(* A step of a delay thread keeps the types.                               *)
LEMMA WorkTypes ==
    ASSUME TypeOK, NEW w \in Workers, Work(w)
    PROVE  TypeOK'
<1>1. OpTypes /\ IdTypes(Ids) /\ OtherTypes
  BY TypeParts
<1>2. cur[w] \in Ids \cup {0} /\ m_serialDelayQueue[w] \in Seq(Ids)
  BY <1>1 DEF IdTypes
<1>3. /\ m_delayQueue' \in Seq(Ids) /\ m_serialDelayQueue' \in [Workers -> Seq(Ids)]
      /\ ended' \in Seq(Ids) /\ cur' \in [Workers -> Ids \cup {0}] /\ ops' = ops
  <2>1. CASE TakeShared(w)
    BY <1>1, <2>1, HeadTailProperties DEF TakeShared, IdTypes
  <2>2. CASE TakeSerial(w)
    <3>1. Head(m_serialDelayQueue[w]) \in Ids /\ Tail(m_serialDelayQueue[w]) \in Seq(Ids)
      BY <1>2, <2>2, HeadTailProperties DEF TakeSerial
    <3> QED
      BY <1>1, <2>2, <3>1 DEF TakeSerial, IdTypes
  <2>3. CASE Finish(w)
    BY <1>1, <1>2, <2>3, AppendProperties DEF Finish, IdTypes
  <2>4. CASE HolderQuery(w) \/ StayPut
    BY <1>1, <2>4 DEF HolderQuery, StayPut, IdTypes, queues, worker
  <2> QED
    BY <2>1, <2>2, <2>3, <2>4, WorkKinds
<1>4. results' \in Seq(Ids) /\ arrived' \in Seq(Ids) /\ called' \subseteq Ids
  <2>1. CASE AddResult(w)
    BY <1>1, <1>2, <2>1, AppendProperties DEF AddResult, Has, IdTypes, calls
  <2>2. CASE PerformWrite(w)
    BY <1>1, <1>2, <2>2 DEF PerformWrite, Has, IdTypes, result
  <2> QED
    BY <1>1, <2>1, <2>2 DEF Work, LoopTest, NextDelayedOperation, NextSerialOperation,
       HolderQuery, IdTypes, result, calls
<1>5. Ids' = Ids
  BY <1>3 DEF Ids
<1>6. IdTypes(Ids)'
  BY <1>1, <1>3, <1>4, <1>5, WorkKinds DEF IdTypes
<1>7. OpTypes'
  <2>1. CASE HolderQuery(w)
    <3> DEFINE S == Seq(SUBSET Ids)
               x == Append(seen[cur[w]], SavedOf(ops[cur[w]].serial))
    <3>1. cur[w] \in 1 .. Len(seen) /\ seen \in Seq(S)
      BY <1>1, <1>2, <2>1 DEF HolderQuery, Has, OpTypes, Ids
    <3>2. seen[cur[w]] \in S
      BY <3>1, ElementOfSeq
    <3>3. SavedOf(ops[cur[w]].serial) \in SUBSET Ids
      BY <1>1, ElementsType DEF SavedOf, IdTypes
    <3>4. x \in S
      BY <3>2, <3>3, AppendProperties
    <3>5. seen' = [seen EXCEPT ![cur[w]] = x]
      BY <2>1 DEF HolderQuery
    <3> HIDE DEF S, x
    <3>6. seen' \in Seq(S) /\ Len(seen') = Len(seen)
      BY <3>1, <3>4, <3>5, ExceptSeq
    <3> QED
      BY <1>1, <1>3, <1>5, <3>6 DEF OpTypes, S
  <2>2. CASE seen' = seen
    BY <1>1, <1>3, <1>5, <2>2 DEF OpTypes
  <2> QED
    BY <2>1, <2>2, WorkKinds DEF TakeShared, TakeSerial, Finish, StayPut
<1>8. pc' \in [Workers -> {"test", "shared", "serial", "exit", "gone"}]
  BY <1>1 DEF Work, LoopTest, NextDelayedOperation, NextSerialOperation,
       HolderQuery, PerformWrite, AddResult, OtherTypes, worker
<1>9. OtherTypes'
  BY <1>1, <1>8, WorkKinds DEF OtherTypes, client, halt
<1> QED
  BY <1>6, <1>7, <1>9, TypePartsNext

(* The steps that hand nothing over and are no delay thread's.             *)
Elsewhere ==
    \/ AllowAsyncTransactions \/ StopServer
    \/ \E t \in Threads : \/ \E shape \in Shapes : BeginTransaction(t, shape.serial)
                          \/ DelayExecute(t) \/ RollbackTransaction(t)
    \/ Update \/ PoolCallback \/ Halt \/ UNCHANGED vars

(* Every step hands an operation over, is one of a delay thread or happens *)
(* elsewhere.                                                              *)
LEMMA StepKinds ==
    ASSUME [Next]_vars
    PROVE  \/ \E t \in Threads, shape \in Shapes : Handed(t, shape)
           \/ \E w \in Workers : Work(w)
           \/ Elsewhere
<1>1. CASE \E t \in Threads : Call(t)
  BY <1>1 DEF Call, Handed, Elsewhere
<1> QED
  BY <1>1 DEF Next, Elsewhere, Stopped

(* What happens elsewhere moves no operation.                              *)
LEMMA ElsewhereStays ==
    ASSUME Elsewhere PROVE StayPut
  BY DEF Elsewhere, StayPut, AllowAsyncTransactions, StopServer, BeginTransaction,
     DelayExecute, RollbackTransaction, Update, BeginUpdate, TakeResult, StartPool,
     UnsafeCallback, EndUnsafe, EndUpdate, PoolCallback, Halt, StopThread,
     JoinThread, ClearBodies, CancelAll, vars, queues, worker, done

(* What becomes of callbacks: from the result queue to the callers.        *)
LEMMA UpdateTypes ==
    ASSUME TypeOK, Elsewhere
    PROVE  IdTypes(Ids)'
<1>1. OpTypes /\ IdTypes(Ids) /\ OtherTypes
  BY TypeParts
<1>2. StayPut /\ Ids' = Ids
  BY ElsewhereStays DEF StayPut, Ids
<1>3. /\ results' \in Seq(Ids) /\ unsafeWaiting' \in Seq(Ids) /\ batch' \subseteq Ids
      /\ arrived' \in Seq(Ids) /\ called' \subseteq Ids /\ unsafeCalled' \in Seq(Ids)
  <2>0. results # <<>> => Head(results) \in Ids /\ Tail(results) \in Seq(Ids)
    BY <1>1, HeadTailProperties DEF IdTypes
  <2>1. CASE TakeResult
    <3>1. Append(unsafeWaiting, Head(results)) \in Seq(Ids)
      BY <1>1, <2>0, <2>1, AppendProperties DEF TakeResult, IdTypes
    <3> QED
      BY <1>1, <2>0, <2>1, <3>1 DEF TakeResult, IdTypes, calls
  <2>2. CASE UnsafeCallback
    BY <1>1, <2>2, HeadTailProperties, AppendProperties DEF UnsafeCallback, IdTypes
  <2>3. CASE PoolCallback
    BY <1>1, <2>3 DEF PoolCallback, IdTypes
  <2>4. CASE CancelAll
    BY <1>1, <2>0, <2>4 DEF CancelAll, IdTypes
  <2>5. CASE UNCHANGED <<results, unsafeWaiting, batch, arrived, called, unsafeCalled>>
    BY <1>1, <2>5 DEF IdTypes
  <2> QED
    BY <2>1, <2>2, <2>3, <2>4, <2>5 DEF Elsewhere, AllowAsyncTransactions, StopServer,
       BeginTransaction, DelayExecute, RollbackTransaction, Update, BeginUpdate,
       StartPool, EndUnsafe, EndUpdate, Halt, StopThread, JoinThread, ClearBodies,
       vars, result, calls
<1> QED
  BY <1>1, <1>2, <1>3 DEF IdTypes, StayPut

(* The loop variable of StopServer counts to the number of threads.        *)
LEMMA HaltTypes ==
    ASSUME TypeOK, Elsewhere
    PROVE  /\ at' \in 0 .. NumWorkers
           /\ m_running' \in [Workers -> BOOLEAN]
           /\ pc' \in [Workers -> {"test", "shared", "serial", "exit", "gone"}]
           /\ stop' \in {"up", "halt", "join", "drain", "cancel", "down"}
<1>1. /\ at \in 0 .. NumWorkers /\ m_running \in [Workers -> BOOLEAN]
      /\ pc \in [Workers -> {"test", "shared", "serial", "exit", "gone"}]
      /\ stop \in {"up", "halt", "join", "drain", "cancel", "down"}
  BY DEF TypeOK
<1>2. 0 \in 0 .. NumWorkers /\ (at < NumWorkers => at + 1 \in 0 .. NumWorkers)
  BY <1>1
<1>3. CASE StopThread
  BY <1>1, <1>2, <1>3 DEF StopThread, worker
<1>4. CASE JoinThread
  BY <1>1, <1>2, <1>4 DEF JoinThread, worker
<1>5. CASE ClearBodies
  BY <1>1, <1>2, <1>5 DEF ClearBodies, DestroyBody
<1>6. CASE CancelAll
  BY <1>1, <1>6 DEF CancelAll, worker
<1>7. CASE StopServer
  BY <1>1, <1>2, <1>7 DEF StopServer, worker
<1>8. CASE UNCHANGED <<at, m_running, pc, stop>>
  BY <1>1, <1>8
<1> QED
  BY <1>3, <1>4, <1>5, <1>6, <1>7, <1>8 DEF Elsewhere, AllowAsyncTransactions,
     BeginTransaction, DelayExecute, RollbackTransaction, Update, BeginUpdate,
     TakeResult, StartPool, UnsafeCallback, EndUnsafe, EndUpdate, PoolCallback,
     Halt, vars, halt, worker

(* It keeps the types.                                                     *)
LEMMA ElsewhereTypes ==
    ASSUME TypeOK, Elsewhere
    PROVE  TypeOK'
<1>1. OpTypes /\ IdTypes(Ids) /\ OtherTypes
  BY TypeParts
<1>2. OpTypes'
  BY <1>1, ElsewhereStays DEF StayPut, OpTypes, Ids
<1>3. IdTypes(Ids)'
  BY UpdateTypes
<1>4. trans' \in [Threads -> [serial : {s.serial : s \in Shapes} \cup {0},
                              size : 0 .. MaxStmts, open : BOOLEAN]]
  <2>1. CASE trans' = trans
    BY <1>1, <2>1 DEF OtherTypes
  <2>2. ASSUME NEW t \in Threads, NEW shape \in Shapes, BeginTransaction(t, shape.serial)
        PROVE  trans' \in [Threads -> [serial : {s.serial : s \in Shapes} \cup {0},
                                       size : 0 .. MaxStmts, open : BOOLEAN]]
    BY <2>2, TransTypes DEF BeginTransaction
  <2>3. ASSUME NEW t \in Threads, DelayExecute(t) \/ RollbackTransaction(t)
        PROVE  trans' \in [Threads -> [serial : {s.serial : s \in Shapes} \cup {0},
                                       size : 0 .. MaxStmts, open : BOOLEAN]]
    BY <2>3, TransTypes DEF RollbackTransaction
  <2>4. \/ trans' = trans
        \/ \E t \in Threads : \/ \E shape \in Shapes : BeginTransaction(t, shape.serial)
                              \/ DelayExecute(t) \/ RollbackTransaction(t)
    BY DEF Elsewhere, AllowAsyncTransactions, StopServer, Update, BeginUpdate,
       TakeResult, StartPool, UnsafeCallback, EndUnsafe, EndUpdate, PoolCallback,
       Halt, StopThread, JoinThread, ClearBodies, CancelAll, vars, client
  <2> QED
    BY <2>1, <2>2, <2>3, <2>4
<1>5. async' \in BOOLEAN /\ ran' \in BOOLEAN /\ pass' \in {"idle", "take", "run", "wait"}
  BY <1>1 DEF OtherTypes, Elsewhere, AllowAsyncTransactions, StopServer,
     BeginTransaction, DelayExecute, RollbackTransaction, Update, BeginUpdate,
     TakeResult, StartPool, UnsafeCallback, EndUnsafe, EndUpdate, PoolCallback,
     Halt, StopThread, JoinThread, ClearBodies, CancelAll, vars, client, result
<1>6. OtherTypes'
  BY <1>4, <1>5, HaltTypes DEF OtherTypes
<1> QED
  BY <1>2, <1>3, <1>6, TypePartsNext

(* Every step keeps the types.                                             *)
LEMMA NextTypes == TypeOK /\ [Next]_vars => TypeOK'
  BY StepKinds, HandedTypes, WorkTypes, ElsewhereTypes

(* The type invariant: queues and histories name operations that were      *)
(* handed over, the loops of StopServer stay within the threads there are. *)
THEOREM DelayTypes == Spec => []TypeOK
  BY InitTypes, NextTypes, PTL DEF Spec

-----------------------------------------------------------------------------
(* Where an operation is. *)

(* The thread that executes the operations of a serial id.                 *)
ThreadOf(id) == ops[id].serial % NumWorkers

(* In the shared queue: no serial id, not executed yet.                    *)
SharedInv ==
    /\ Distinct(m_delayQueue)
    /\ \A id \in Elements(m_delayQueue) :
         ops[id].serial = 0 /\ id \notin Elements(ended)

(* In the queue of a thread: in order, with a serial id of that thread,    *)
(* not executed yet.                                                       *)
SerialInv ==
    \A w \in Workers :
        /\ Increasing(m_serialDelayQueue[w])
        /\ \A id \in Elements(m_serialDelayQueue[w]) :
             ops[id].serial # 0 /\ ThreadOf(id) = w /\ id \notin Elements(ended)

(* In the hands of a thread: of no other one, and in no queue.             *)
HandInv ==
    \A w \in Workers : cur[w] # 0 =>
        /\ cur[w] \notin Elements(m_delayQueue) /\ cur[w] \notin Elements(ended)
        /\ \A v \in Workers : /\ cur[w] \notin Elements(m_serialDelayQueue[v])
                              /\ cur[v] = cur[w] => v = w
        /\ ops[cur[w]].serial # 0 => ThreadOf(cur[w]) = w

(* Nowhere else.                                                           *)
CoverInv ==
    /\ Distinct(ended)
    /\ \A id \in Ids :
         \/ id \in Elements(m_delayQueue) \/ id \in Elements(ended)
         \/ \E w \in Workers : id \in Elements(m_serialDelayQueue[w]) \/ cur[w] = id

(* What a thread has executed of its serial ids was handed over before     *)
(* what it has in hands, and that before what is in its queue.             *)
OrderInv ==
    \A w \in Workers :
        /\ cur[w] # 0 /\ ops[cur[w]].serial # 0 =>
              \A id \in Elements(m_serialDelayQueue[w]) : cur[w] < id
        /\ \A e \in Elements(ended) : ops[e].serial # 0 /\ ThreadOf(e) = w =>
              /\ \A id \in Elements(m_serialDelayQueue[w]) : e < id
              /\ cur[w] # 0 /\ ops[cur[w]].serial # 0 => e < cur[w]

(* Before AllowAsyncTransactions nothing with a serial id is queued.       *)
StartInv ==
    ~async => \A w \in Workers :
        /\ Elements(m_serialDelayQueue[w]) = {}
        /\ cur[w] # 0 => ops[cur[w]].serial = 0

QueueInv ==
    /\ SharedInv /\ SerialInv /\ HandInv /\ CoverInv /\ OrderInv /\ StartInv
    /\ SerialOrder /\ LoginSeesSaves

(* The sets and sequences of operations there are, typed.                  *)
LEMMA Sets ==
    ASSUME TypeOK
    PROVE  /\ Ids \subseteq Nat /\ 0 \notin Ids
           /\ \A id \in Ids : ops[id] \in Shapes /\ ops[id].serial \in Nat
           /\ m_delayQueue \in Seq(Ids) /\ Elements(m_delayQueue) \subseteq Ids
           /\ ended \in Seq(Ids) /\ Elements(ended) \subseteq Ids
           /\ \A w \in Workers : /\ m_serialDelayQueue[w] \in Seq(Ids)
                                 /\ m_serialDelayQueue[w] \in Seq(Nat)
                                 /\ Elements(m_serialDelayQueue[w]) \subseteq Ids
                                 /\ cur[w] \in Ids \cup {0}
           /\ DOMAIN m_serialDelayQueue = Workers /\ DOMAIN cur = Workers
           /\ Len(ended) \in Nat
<1>1. Ids \subseteq Nat /\ 0 \notin Ids
  BY LenProperties DEF TypeOK, Ids
<1>2. \A id \in Ids : ops[id] \in Shapes
  BY ElementOfSeq DEF TypeOK, Ids
<1>3. Seq(Ids) \subseteq Seq(Nat)
  BY <1>1, SeqMonotonic
<1> QED
  BY <1>1, <1>2, <1>3, ShapeTypes, ElementsType, LenProperties DEF TypeOK

(* The order of what is executed, and what logins find, when the step      *)
(* hands an operation over that is not executed yet.                       *)
LEMMA HistoryKept ==
    ASSUME TypeOK, SerialOrder, LoginSeesSaves, NEW shape \in Shapes, Issue(shape),
           ended' = ended
    PROVE  SerialOrder' /\ LoginSeesSaves'
<1>1. /\ Ids' = Ids \cup {Len(ops) + 1} /\ Len(ops) + 1 \notin Ids
      /\ \A id \in Ids : id \in Nat /\ id < Len(ops) + 1
      /\ \A id \in Ids : ops'[id] = ops[id] /\ seen'[id] = seen[id]
      /\ seen'[Len(ops) + 1] = <<>> /\ Len(ops) \in Nat
  BY TypeParts, IssueTypes
<1>2. \A i \in 1 .. Len(ended) : ended[i] \in Ids
  BY Sets, ElementOfSeq
<1>3. SerialOrder'
  BY <1>1, <1>2, SMTT(30) DEF SerialOrder
<1>4. ASSUME NEW h \in Ids PROVE \A id \in 1 .. h - 1 : id \in Ids
  BY <1>1, <1>4 DEF Ids
<1>5. LoginSeesSaves'
  <2> SUFFICES ASSUME NEW h \in Ids', ops'[h].kind = "holder", ops'[h].serial # 0,
                      NEW k \in 1 .. Len(seen'[h])
               PROVE  seen'[h][k] = {id \in 1 .. h - 1 : ops'[id].kind = "trans"
                                              /\ ops'[id].serial = ops'[h].serial}
    BY DEF LoginSeesSaves
  <2>1. h \in Ids
    BY <1>1
  <2>2. \A id \in 1 .. h - 1 : ops'[id] = ops[id]
    BY <2>1, <1>1, <1>4
  <2> QED
    BY <1>1, <2>1, <2>2, SMTT(30) DEF LoginSeesSaves
<1> QED
  BY <1>3, <1>5

(* AddToDelayQueue keeps QueueInv.                                         *)
LEMMA SharedKeeps ==
    ASSUME TypeOK, QueueInv, NEW shape \in Shapes, AddShared(shape)
    PROVE  QueueInv'
<1> DEFINE new == Len(ops) + 1
<1>1. /\ Ids' = Ids \cup {new} /\ new \notin Ids
      /\ \A id \in Ids : ops'[id] = ops[id]
      /\ ops'[new] = shape
  BY TypeParts, IssueTypes DEF AddShared
<1>2. new \in Ids' /\ m_delayQueue \in Seq(Ids')
  BY <1>1, Sets, SeqMonotonic
<1>3. /\ Elements(m_delayQueue') = Elements(m_delayQueue) \cup {new}
      /\ m_serialDelayQueue' = m_serialDelayQueue /\ cur' = cur /\ ended' = ended
      /\ async' = async
  BY <1>2, AppendElements DEF AddShared, AddToDelayQueue
<1>4. Distinct(m_delayQueue')
  BY <1>1, <1>2, Sets, AppendDistinct DEF AddShared, AddToDelayQueue, QueueInv, SharedInv
<1> HIDE DEF new
<1>5. \A id \in Ids : ThreadOf(id)' = ThreadOf(id)
  BY <1>1 DEF ThreadOf
<1>6. SharedInv'
  BY <1>1, <1>3, <1>4, Sets DEF QueueInv, SharedInv, AddShared
<1>7. SerialInv'
  BY <1>1, <1>3, <1>5, Sets DEF QueueInv, SerialInv
<1>8. HandInv'
  BY <1>1, <1>3, <1>5, Sets DEF QueueInv, HandInv
<1>9. CoverInv'
  BY <1>1, <1>3 DEF QueueInv, CoverInv
<1>10. OrderInv'
  BY <1>1, <1>3, <1>5, Sets DEF QueueInv, OrderInv
<1>11. StartInv'
  BY <1>1, <1>3, <1>5, Sets DEF QueueInv, StartInv
<1> QED
  BY <1>3, <1>6, <1>7, <1>8, <1>9, <1>10, <1>11, HistoryKept DEF QueueInv, AddShared

(* AddToSerialDelayQueue keeps QueueInv: the new operation is the last of  *)
(* its id.                                                                 *)
LEMMA SerialKeeps ==
    ASSUME TypeOK, QueueInv, NEW shape \in Shapes, AddSerial(shape)
    PROVE  QueueInv'
<1> DEFINE t == shape.serial % NumWorkers
<1>0. PICK new : new = Len(ops) + 1
  OBVIOUS
<1>1. /\ Ids' = Ids \cup {new} /\ new \notin Ids /\ new \in Nat
      /\ \A id \in Ids : id \in Nat /\ id < new
      /\ \A id \in Ids : ops'[id] = ops[id]
      /\ ops'[new] = shape
  BY <1>0, TypeParts, IssueTypes DEF AddSerial
<1>2. t \in Workers
  BY WorkerOf, ShapeTypes
<1>3. m_serialDelayQueue' = [m_serialDelayQueue EXCEPT ![t] = Append(@, new)]
  BY <1>0 DEF AddSerial, AddToSerialDelayQueue
<1>4. ThreadOf(new)' = t /\ \A id \in Ids : ThreadOf(id)' = ThreadOf(id)
  BY <1>1 DEF ThreadOf
<1> HIDE DEF t
<1>5. /\ m_serialDelayQueue'[t] = Append(m_serialDelayQueue[t], new)
      /\ \A w \in Workers : w # t => m_serialDelayQueue'[w] = m_serialDelayQueue[w]
      /\ m_delayQueue' = m_delayQueue /\ cur' = cur /\ ended' = ended /\ async' = async
  BY <1>2, <1>3, Sets DEF AddSerial, AddToSerialDelayQueue
<1>6. Elements(m_serialDelayQueue'[t]) = Elements(m_serialDelayQueue[t]) \cup {new}
  <2>1. m_serialDelayQueue[t] \in Seq(Nat)
    BY <1>2, Sets
  <2> QED
    BY <1>1, <1>5, <2>1, AppendElements
<1>7. Increasing(m_serialDelayQueue'[t])
  <2>1. \A x \in Elements(m_serialDelayQueue[t]) : x < new
    BY <1>1, <1>2, Sets
  <2> QED
    BY <2>1, <1>1, <1>2, <1>5, Sets, AppendIncreasing DEF QueueInv, SerialInv
<1>8. SharedInv'
  BY <1>1, <1>5, Sets DEF QueueInv, SharedInv
<1>9. SerialInv'
  <2> SUFFICES ASSUME NEW w \in Workers
               PROVE  /\ Increasing(m_serialDelayQueue'[w])
                      /\ \A id \in Elements(m_serialDelayQueue'[w]) :
                           /\ ops'[id].serial # 0 /\ ThreadOf(id)' = w
                           /\ id \notin Elements(ended')
    BY DEF SerialInv
  <2>1. CASE w = t
    BY <2>1, <1>1, <1>4, <1>5, <1>6, <1>7, Sets DEF QueueInv, SerialInv, AddSerial
  <2>2. CASE w # t
    BY <2>2, <1>1, <1>4, <1>5, Sets DEF QueueInv, SerialInv
  <2> QED
    BY <2>1, <2>2
<1>10. HandInv'
  <2> SUFFICES ASSUME NEW w \in Workers, cur[w] # 0
               PROVE  /\ cur[w] \notin Elements(m_delayQueue) /\ cur[w] \notin Elements(ended)
                      /\ \A v \in Workers : /\ cur[w] \notin Elements(m_serialDelayQueue'[v])
                                            /\ cur[v] = cur[w] => v = w
                      /\ ops'[cur[w]].serial # 0 => ThreadOf(cur[w])' = w
    BY <1>5 DEF HandInv
  <2>1. cur[w] \in Ids
    BY Sets
  <2>2. \A v \in Workers : cur[w] \notin Elements(m_serialDelayQueue'[v])
    BY <2>1, <1>1, <1>5, <1>6 DEF QueueInv, HandInv
  <2> QED
    BY <2>1, <2>2, <1>1, <1>4, <1>5 DEF QueueInv, HandInv
<1>11. CoverInv'
  <2>1. \A w \in Workers : Elements(m_serialDelayQueue[w]) \subseteq Elements(m_serialDelayQueue'[w])
    BY <1>5, <1>6
  <2> QED
    BY <2>1, <1>1, <1>2, <1>5, <1>6 DEF QueueInv, CoverInv
<1>12. OrderInv'
  <2> SUFFICES ASSUME NEW w \in Workers
               PROVE  /\ cur[w] # 0 /\ ops'[cur[w]].serial # 0 =>
                           \A id \in Elements(m_serialDelayQueue'[w]) : cur[w] < id
                      /\ \A e \in Elements(ended) : ops'[e].serial # 0 /\ ThreadOf(e)' = w =>
                           /\ \A id \in Elements(m_serialDelayQueue'[w]) : e < id
                           /\ cur[w] # 0 /\ ops'[cur[w]].serial # 0 => e < cur[w]
    BY <1>5 DEF OrderInv
  <2>1. \A id \in Elements(m_serialDelayQueue'[w]) :
            id \in Elements(m_serialDelayQueue[w]) \/ id = new
    BY <1>5, <1>6
  <2>2. OrderInv /\ Elements(ended) \subseteq Ids /\ cur[w] \in Ids \cup {0}
    BY Sets DEF QueueInv
  <2>3. cur[w] # 0 => cur[w] < new /\ ops'[cur[w]] = ops[cur[w]]
    BY <1>1, <2>2
  <2>4. \A e \in Elements(ended) :
            e < new /\ ops'[e] = ops[e] /\ ThreadOf(e)' = ThreadOf(e)
    BY <1>1, <1>4, <2>2
  <2> QED
    BY <2>1, <2>2, <2>3, <2>4 DEF OrderInv
<1>13. StartInv'
  BY <1>5 DEF StartInv, AddSerial
<1> QED
  BY <1>5, <1>8, <1>9, <1>10, <1>11, <1>12, <1>13, HistoryKept DEF QueueInv, AddSerial

(* Executing an operation keeps the order if every one of the same serial  *)
(* id that was executed before is a smaller one.                           *)
LEMMA OrderAppended ==
    ASSUME TypeOK, SerialOrder, NEW c, NEW I, I = Ids', Ids \subseteq I, c \in I,
           ended' = Append(ended, c),
           \A id \in Ids : ops'[id] = ops[id],
           \A e \in Elements(ended) : ops'[e].serial = ops'[c].serial
                                      /\ ops'[c].serial # 0 => e < c
    PROVE  SerialOrder'
<1>1. /\ Len(ended) \in Nat /\ Len(ended') = Len(ended) + 1
      /\ \A i \in 1 .. Len(ended) : ended'[i] = ended[i] /\ ended[i] \in Ids
                                    /\ ended[i] \in Elements(ended)
      /\ ended'[Len(ended) + 1] = c
  <2>1. ended \in Seq(I) /\ Len(ended) \in Nat
    BY Sets, SeqMonotonic
  <2>2. \A i \in 1 .. Len(ended) : ended[i] \in Ids /\ ended[i] \in Elements(ended)
    BY Sets, ElementOfSeq DEF Elements
  <2> QED
    BY <2>1, <2>2, AppendProperties
<1> SUFFICES ASSUME NEW i \in 1 .. Len(ended'), NEW j \in 1 .. Len(ended'), i < j,
                    ops'[ended'[i]].serial = ops'[ended'[j]].serial,
                    ops'[ended'[i]].serial # 0
             PROVE  ended'[i] < ended'[j]
  BY DEF SerialOrder
<1>2. i \in 1 .. Len(ended) /\ (j \in 1 .. Len(ended) \/ j = Len(ended) + 1)
  BY <1>1
<1>3. CASE j \in 1 .. Len(ended)
  BY <1>1, <1>2, <1>3 DEF SerialOrder
<1>4. CASE j = Len(ended) + 1
  BY <1>1, <1>2, <1>4
<1> QED
  BY <1>2, <1>3, <1>4

(* An operation executed at once, before the threads exist, keeps          *)
(* QueueInv.                                                               *)
LEMMA DirectKeeps ==
    ASSUME TypeOK, QueueInv, NEW shape \in Shapes, AddDirect(shape)
    PROVE  QueueInv'
<1>0. PICK new : new = Len(ops) + 1
  OBVIOUS
<1>1. /\ Ids' = Ids \cup {new} /\ new \notin Ids /\ new \in Nat
      /\ \A id \in Ids : id \in Nat /\ id < new
      /\ \A id \in Ids : ops'[id] = ops[id] /\ seen'[id] = seen[id]
      /\ ops'[new] = shape /\ seen'[new] = <<>>
  BY <1>0, TypeParts, IssueTypes DEF AddDirect
<1>2. /\ ended' = Append(ended, new) /\ UNCHANGED <<m_delayQueue, m_serialDelayQueue, cur, async>>
  BY <1>0 DEF AddDirect, Directly, queues
<1>3. ended \in Seq(Ids') /\ new \in Ids'
  BY <1>1, Sets, SeqMonotonic
<1>4. Elements(ended') = Elements(ended) \cup {new}
  BY <1>2, <1>3, AppendElements
<1>5. Distinct(ended')
  BY <1>1, <1>2, <1>3, Sets, AppendDistinct DEF QueueInv, CoverInv
<1>6. \A id \in Ids : ThreadOf(id)' = ThreadOf(id)
  BY <1>1 DEF ThreadOf
<1>7. SharedInv'
  BY <1>1, <1>2, <1>4, Sets DEF QueueInv, SharedInv
<1>8. SerialInv'
  BY <1>1, <1>2, <1>4, <1>6, Sets DEF QueueInv, SerialInv
<1>9. HandInv'
  <2> SUFFICES ASSUME NEW w \in Workers, cur[w] # 0
               PROVE  /\ cur[w] \notin Elements(m_delayQueue) /\ cur[w] \notin Elements(ended')
                      /\ \A v \in Workers : /\ cur[w] \notin Elements(m_serialDelayQueue[v])
                                            /\ cur[v] = cur[w] => v = w
                      /\ ops'[cur[w]].serial # 0 => ThreadOf(cur[w])' = w
    BY <1>2 DEF HandInv
  <2>1. cur[w] \in Ids
    BY Sets
  <2> QED
    BY <2>1, <1>1, <1>2, <1>4, <1>6 DEF QueueInv, HandInv
<1>10. CoverInv'
  BY <1>1, <1>2, <1>4, <1>5 DEF QueueInv, CoverInv
<1>11. OrderInv'
  <2> SUFFICES ASSUME NEW w \in Workers
               PROVE  /\ cur[w] # 0 /\ ops'[cur[w]].serial # 0 =>
                           \A id \in Elements(m_serialDelayQueue[w]) : cur[w] < id
                      /\ \A e \in Elements(ended') : ops'[e].serial # 0 /\ ThreadOf(e)' = w =>
                           /\ \A id \in Elements(m_serialDelayQueue[w]) : e < id
                           /\ cur[w] # 0 /\ ops'[cur[w]].serial # 0 => e < cur[w]
    BY <1>2 DEF OrderInv
  <2>1. OrderInv /\ StartInv /\ Elements(ended) \subseteq Ids /\ cur[w] \in Ids \cup {0}
    BY Sets DEF QueueInv
  <2>2. cur[w] # 0 => ops'[cur[w]] = ops[cur[w]]
    BY <1>1, <2>1
  <2>3. \A e \in Elements(ended) : ops'[e] = ops[e] /\ ThreadOf(e)' = ThreadOf(e)
    BY <1>1, <1>6, <2>1
  <2>4. ops'[new].serial # 0 => ~async
    BY <1>1 DEF AddDirect
  <2>5. ops'[new].serial # 0 =>
           /\ Elements(m_serialDelayQueue[w]) = {}
           /\ cur[w] # 0 => ops'[cur[w]].serial = 0
    BY <2>1, <2>2, <2>4 DEF StartInv
  <2> QED
    BY <1>4, <2>1, <2>2, <2>3, <2>5 DEF OrderInv
<1>12. StartInv'
  BY <1>1, <1>2, Sets DEF QueueInv, StartInv
<1>13. SerialOrder'
  BY <1>1, <1>2, Sets, OrderAppended DEF QueueInv
<1>14. LoginSeesSaves'
  <2> SUFFICES ASSUME NEW h \in Ids', ops'[h].kind = "holder", ops'[h].serial # 0,
                      NEW k \in 1 .. Len(seen'[h])
               PROVE  seen'[h][k] = {id \in 1 .. h - 1 : ops'[id].kind = "trans"
                                              /\ ops'[id].serial = ops'[h].serial}
    BY DEF LoginSeesSaves
  <2>1. h \in Ids
    BY <1>1
  <2>2. \A id \in 1 .. h - 1 : id \in Ids
    BY <2>1, <1>0, <1>1 DEF Ids
  <2>3. \A id \in 1 .. h - 1 : ops'[id] = ops[id]
    BY <1>1, <2>2
  <2> QED
    BY <1>1, <2>1, <2>3 DEF QueueInv, LoginSeesSaves
<1> QED
  BY <1>7, <1>8, <1>9, <1>10, <1>11, <1>12, <1>13, <1>14 DEF QueueInv

(* Taking from the shared queue keeps QueueInv.                            *)
LEMMA TakeSharedKeeps ==
    ASSUME TypeOK, QueueInv, NEW w \in Workers, TakeShared(w), async' = async
    PROVE  QueueInv'
<1>0. PICK c : c = Head(m_delayQueue)
  OBVIOUS
<1>1. /\ c \in Elements(m_delayQueue) /\ c \in Ids /\ Distinct(m_delayQueue')
      /\ Elements(m_delayQueue') = Elements(m_delayQueue) \ {c}
  BY <1>0, Sets, TailElements DEF TakeShared, QueueInv, SharedInv
<1>2. /\ UNCHANGED <<ops, seen, ended, m_serialDelayQueue, async>> /\ Ids' = Ids
      /\ cur'[w] = c /\ \A v \in Workers : v # w => cur'[v] = cur[v]
      /\ cur[w] = 0
  BY <1>0, Sets DEF TakeShared, Ids
<1>3. \A id : ThreadOf(id)' = ThreadOf(id)
  BY <1>2 DEF ThreadOf
<1>4. /\ c # 0 /\ ops[c].serial = 0 /\ c \notin Elements(ended)
      /\ \A v \in Workers : c \notin Elements(m_serialDelayQueue[v]) /\ cur[v] # c
  BY <1>1, Sets DEF QueueInv, SharedInv, SerialInv, HandInv
<1>5. SharedInv' /\ SerialInv'
  BY <1>1, <1>2, <1>3 DEF QueueInv, SharedInv, SerialInv
<1>6. HandInv'
  BY <1>1, <1>2, <1>3, <1>4 DEF QueueInv, HandInv
<1>7. CoverInv'
  <2>1. \A v \in Workers : cur[v] # 0 => cur'[v] = cur[v]
    BY <1>2
  <2>2. 0 \notin Ids
    BY Sets
  <2> QED
    BY <1>1, <1>2, <2>1, <2>2 DEF QueueInv, CoverInv
<1>8. OrderInv'
  BY <1>1, <1>2, <1>3, <1>4 DEF QueueInv, OrderInv
<1>9. StartInv'
  BY <1>1, <1>2, <1>3, <1>4 DEF QueueInv, StartInv
<1>10. SerialOrder' /\ LoginSeesSaves'
  BY <1>2 DEF QueueInv, SerialOrder, LoginSeesSaves
<1> QED
  BY <1>5, <1>6, <1>7, <1>8, <1>9, <1>10 DEF QueueInv

(* Taking from the own serial queue keeps QueueInv: it is the first of its *)
(* id.                                                                     *)
LEMMA TakeSerialKeeps ==
    ASSUME TypeOK, QueueInv, NEW w \in Workers, TakeSerial(w), async' = async
    PROVE  QueueInv'
<1>0. PICK c : c = Head(m_serialDelayQueue[w])
  OBVIOUS
<1>1. /\ UNCHANGED <<ops, seen, ended, m_delayQueue, async>> /\ Ids' = Ids
      /\ cur'[w] = c /\ \A v \in Workers : v # w => cur'[v] = cur[v]
      /\ cur[w] = 0 /\ m_serialDelayQueue[w] # <<>>
      /\ m_serialDelayQueue'[w] = Tail(m_serialDelayQueue[w])
      /\ \A v \in Workers : v # w => m_serialDelayQueue'[v] = m_serialDelayQueue[v]
  BY <1>0, Sets DEF TakeSerial, Ids
<1>2. /\ m_serialDelayQueue[w] \in Seq(Ids) /\ m_serialDelayQueue[w] \in Seq(Nat)
      /\ Increasing(m_serialDelayQueue[w])
  BY Sets DEF QueueInv, SerialInv
<1>3. Distinct(m_serialDelayQueue[w])
  BY <1>2, IncreasingDistinct
<1>4. /\ c \in Elements(m_serialDelayQueue[w]) /\ c \in Ids
      /\ Elements(m_serialDelayQueue'[w]) = Elements(m_serialDelayQueue[w]) \ {c}
  BY <1>0, <1>1, <1>2, <1>3, TailElements
<1>5. /\ Increasing(m_serialDelayQueue'[w])
      /\ \A id \in Elements(m_serialDelayQueue'[w]) : c < id
  BY <1>0, <1>1, <1>2, TailIncreasing
<1>6. \A id : ThreadOf(id)' = ThreadOf(id)
  BY <1>1 DEF ThreadOf
<1>7. /\ c # 0 /\ ops[c].serial # 0 /\ ThreadOf(c) = w /\ c \notin Elements(ended)
      /\ c \notin Elements(m_delayQueue)
      /\ \A v \in Workers : cur[v] # c /\ (v # w => c \notin Elements(m_serialDelayQueue[v]))
  <2>1. c # 0 /\ ops[c].serial # 0 /\ ThreadOf(c) = w /\ c \notin Elements(ended)
    BY <1>4, Sets DEF QueueInv, SerialInv
  <2>2. c \notin Elements(m_delayQueue)
    BY <2>1 DEF QueueInv, SharedInv
  <2>3. \A v \in Workers : v # w => c \notin Elements(m_serialDelayQueue[v])
    BY <2>1 DEF QueueInv, SerialInv
  <2>4. \A v \in Workers : cur[v] # c
    BY <1>4, <2>1 DEF QueueInv, HandInv
  <2> QED
    BY <2>1, <2>2, <2>3, <2>4
<1>8. \A v \in Workers : Elements(m_serialDelayQueue'[v]) \subseteq Elements(m_serialDelayQueue[v])
                         /\ c \notin Elements(m_serialDelayQueue'[v])
  BY <1>1, <1>4, <1>7
<1>9. SharedInv'
  BY <1>1 DEF QueueInv, SharedInv
<1>10. SerialInv'
  BY <1>1, <1>5, <1>6, <1>8 DEF QueueInv, SerialInv
<1>11. HandInv'
  BY <1>1, <1>6, <1>7, <1>8 DEF QueueInv, HandInv
<1>12. CoverInv'
  <2>1. \A v \in Workers : cur[v] # 0 => cur'[v] = cur[v]
    BY <1>1
  <2>2. 0 \notin Ids
    BY Sets
  <2>3. \A id : \A v \in Workers : id \in Elements(m_serialDelayQueue[v]) =>
            id \in Elements(m_serialDelayQueue'[v]) \/ id = cur'[w]
    BY <1>1, <1>4
  <2> QED
    BY <1>1, <2>1, <2>2, <2>3 DEF QueueInv, CoverInv
<1>13. OrderInv'
  <2> SUFFICES ASSUME NEW v \in Workers
               PROVE  /\ cur'[v] # 0 /\ ops[cur'[v]].serial # 0 =>
                           \A id \in Elements(m_serialDelayQueue'[v]) : cur'[v] < id
                      /\ \A e \in Elements(ended) : ops[e].serial # 0 /\ ThreadOf(e) = v =>
                           /\ \A id \in Elements(m_serialDelayQueue'[v]) : e < id
                           /\ cur'[v] # 0 /\ ops[cur'[v]].serial # 0 => e < cur'[v]
    BY <1>1, <1>6 DEF OrderInv
  <2>1. CASE v = w
    BY <2>1, <1>1, <1>4, <1>5, <1>8 DEF QueueInv, OrderInv
  <2>2. CASE v # w
    BY <2>2, <1>1 DEF QueueInv, OrderInv
  <2> QED
    BY <2>1, <2>2
<1>14. StartInv'
  <2>1. async
    BY <1>1, <1>4 DEF QueueInv, StartInv
  <2> QED
    BY <1>1, <2>1 DEF StartInv
<1>15. SerialOrder' /\ LoginSeesSaves'
  BY <1>1 DEF QueueInv, SerialOrder, LoginSeesSaves
<1> QED
  BY <1>9, <1>10, <1>11, <1>12, <1>13, <1>14, <1>15 DEF QueueInv

(* The end of an operation keeps QueueInv.                                 *)
LEMMA FinishKeeps ==
    ASSUME TypeOK, QueueInv, NEW w \in Workers, Finish(w), async' = async
    PROVE  QueueInv'
<1>0. PICK c : c = cur[w]
  OBVIOUS
<1>1. /\ UNCHANGED <<ops, seen, m_serialDelayQueue, m_delayQueue, async>> /\ Ids' = Ids
      /\ cur'[w] = 0 /\ \A v \in Workers : v # w => cur'[v] = cur[v]
      /\ c # 0 /\ ended' = Append(ended, c)
  BY <1>0, Sets DEF Finish, Ids
<1>2. c \in Ids /\ ended \in Seq(Ids)
  BY <1>0, <1>1, Sets
<1>3. /\ c \notin Elements(m_delayQueue) /\ c \notin Elements(ended)
      /\ \A v \in Workers : c \notin Elements(m_serialDelayQueue[v]) /\ (v # w => cur[v] # c)
      /\ ops[c].serial # 0 => ThreadOf(c) = w
  BY <1>0, <1>1 DEF QueueInv, HandInv
<1>4. Elements(ended') = Elements(ended) \cup {c} /\ Distinct(ended')
  BY <1>1, <1>2, <1>3, AppendElements, AppendDistinct DEF QueueInv, CoverInv
<1>5. \A id : ThreadOf(id)' = ThreadOf(id)
  BY <1>1 DEF ThreadOf
<1>6. SharedInv'
  BY <1>1, <1>3, <1>4 DEF QueueInv, SharedInv
<1>7. SerialInv'
  BY <1>1, <1>3, <1>4, <1>5 DEF QueueInv, SerialInv
<1>8. HandInv'
  BY <1>1, <1>3, <1>4, <1>5 DEF QueueInv, HandInv
<1>9. CoverInv'
  BY <1>0, <1>1, <1>4 DEF QueueInv, CoverInv
<1>10. OrderInv'
  <2> SUFFICES ASSUME NEW v \in Workers
               PROVE  /\ cur'[v] # 0 /\ ops[cur'[v]].serial # 0 =>
                           \A id \in Elements(m_serialDelayQueue[v]) : cur'[v] < id
                      /\ \A e \in Elements(ended') : ops[e].serial # 0 /\ ThreadOf(e) = v =>
                           /\ \A id \in Elements(m_serialDelayQueue[v]) : e < id
                           /\ cur'[v] # 0 /\ ops[cur'[v]].serial # 0 => e < cur'[v]
    BY <1>1, <1>5 DEF OrderInv
  <2>1. CASE v = w
    BY <2>1, <1>0, <1>1, <1>4 DEF QueueInv, OrderInv
  <2>2. CASE v # w
    BY <2>2, <1>1, <1>3, <1>4 DEF QueueInv, OrderInv
  <2> QED
    BY <2>1, <2>2
<1>11. StartInv'
  BY <1>1 DEF QueueInv, StartInv
<1>12. SerialOrder'
  <2>1. \A e \in Elements(ended) : ops[e].serial = ops[c].serial /\ ops[c].serial # 0
            => e < c
    BY <1>0, <1>1, <1>3 DEF QueueInv, OrderInv, ThreadOf
  <2> QED
    BY <1>1, <1>2, <2>1, OrderAppended DEF QueueInv
<1>13. LoginSeesSaves'
  BY <1>1 DEF QueueInv, LoginSeesSaves
<1> QED
  BY <1>6, <1>7, <1>8, <1>9, <1>10, <1>11, <1>12, <1>13 DEF QueueInv

(* A query of a login finds all saves of the character handed over before  *)
(* the login and none handed over after it: they are executed or they wait *)
(* behind it.                                                              *)
LEMMA SavesFound ==
    ASSUME TypeOK, QueueInv, NEW w \in Workers, cur[w] # 0, ops[cur[w]].serial # 0
    PROVE  SavedOf(ops[cur[w]].serial) =
             {id \in 1 .. cur[w] - 1 : /\ ops[id].kind = "trans"
                                       /\ ops[id].serial = ops[cur[w]].serial}
<1>0. PICK h : h = cur[w]
  OBVIOUS
<1>1. h \in Ids /\ h \in Nat /\ Ids \subseteq Nat /\ ThreadOf(h) = w
  BY <1>0, Sets DEF QueueInv, HandInv
<1>2. \A id \in 1 .. h - 1 : id \in Ids /\ id < h
  BY <1>1 DEF Ids
<1>3. ASSUME NEW id \in Elements(ended), ops[id].serial = ops[h].serial
      PROVE  id \in 1 .. h - 1
  <2>1. id < h
    BY <1>0, <1>1, <1>3 DEF QueueInv, OrderInv, ThreadOf
  <2>2. id \in Nat /\ id # 0
    BY Sets
  <2> QED
    BY <1>1, <2>1, <2>2
<1>4. ASSUME NEW id \in 1 .. h - 1, ops[id].serial = ops[h].serial
      PROVE  id \in Elements(ended)
  <2>1. id \in Ids /\ id < h /\ ThreadOf(id) = w /\ ops[id].serial # 0
    BY <1>0, <1>1, <1>2, <1>4 DEF ThreadOf
  <2>2. id \notin Elements(m_delayQueue)
    BY <2>1 DEF QueueInv, SharedInv
  <2>3. ASSUME NEW v \in Workers PROVE id \notin Elements(m_serialDelayQueue[v])
    <3>1. CASE v = w
      <4> SUFFICES ASSUME id \in Elements(m_serialDelayQueue[w]) PROVE FALSE
        BY <3>1
      <4>1. h < id
        BY <1>0 DEF QueueInv, OrderInv
      <4> QED
        BY <4>1, <2>1, <1>1
    <3>2. CASE v # w
      BY <3>2, <2>1 DEF QueueInv, SerialInv
    <3> QED
      BY <3>1, <3>2
  <2>4. ASSUME NEW v \in Workers PROVE cur[v] # id
    <3>1. CASE v = w
      BY <3>1, <1>0, <1>1, <2>1
    <3>2. CASE v # w
      BY <3>2, <2>1, Sets DEF QueueInv, HandInv
    <3> QED
      BY <3>1, <3>2
  <2> QED
    BY <2>1, <2>2, <2>3, <2>4 DEF QueueInv, CoverInv
<1> QED
  BY <1>0, <1>3, <1>4 DEF SavedOf

(* One query of a holder keeps QueueInv: it finds the saves before the     *)
(* holder.                                                                 *)
LEMMA HolderKeeps ==
    ASSUME TypeOK, QueueInv, NEW w \in Workers, HolderQuery(w)
    PROVE  QueueInv'
<1>0. PICK h : h = cur[w]
  OBVIOUS
<1>1. UNCHANGED <<ops, ended, m_serialDelayQueue, m_delayQueue, cur, async>> /\ Ids' = Ids
  BY DEF HolderQuery, Ids, queues, worker, client
<1>2. SharedInv' /\ SerialInv' /\ HandInv' /\ CoverInv' /\ OrderInv' /\ StartInv' /\ SerialOrder'
  BY <1>1 DEF QueueInv, SharedInv, SerialInv, HandInv, CoverInv, OrderInv, StartInv,
     SerialOrder, ThreadOf
<1>3. LoginSeesSaves'
  <2> DEFINE x == SavedOf(ops[h].serial)
             Saved(g) == {id \in 1 .. g - 1 : ops[id].kind = "trans"
                                              /\ ops[id].serial = ops[g].serial}
  <2>1. /\ h \in 1 .. Len(seen) /\ seen \in Seq(Seq(SUBSET Ids))
        /\ seen' = [seen EXCEPT ![h] = Append(seen[h], x)] /\ h # 0
    BY <1>0, Sets DEF HolderQuery, Has, TypeOK, Ids
  <2>2. seen[h] \in Seq(SUBSET Ids)
    BY <2>1, ElementOfSeq
  <2>3. x \in SUBSET Ids
    BY Sets DEF SavedOf
  <2>4. ops[h].serial # 0 => x = Saved(h)
    BY <1>0, <2>1, SavesFound
  <2> HIDE DEF x, Saved
  <2>5. /\ Len(Append(seen[h], x)) = Len(seen[h]) + 1 /\ Len(seen[h]) \in Nat
        /\ \A k \in 1 .. Len(seen[h]) : Append(seen[h], x)[k] = seen[h][k]
        /\ Append(seen[h], x)[Len(seen[h]) + 1] = x
    BY <2>2, <2>3, AppendProperties, LenProperties
  <2>6. /\ seen'[h] = Append(seen[h], x)
        /\ \A g \in Ids : g # h => seen'[g] = seen[g]
    BY <2>1, LenProperties DEF Ids, TypeOK
  <2>7. ASSUME NEW g \in Ids, ops[g].kind = "holder", ops[g].serial # 0,
               NEW k \in 1 .. Len(seen'[g])
        PROVE  seen'[g][k] = Saved(g)
    <3>1. \A j \in 1 .. Len(seen[g]) : seen[g][j] = Saved(g)
      BY <2>7 DEF QueueInv, LoginSeesSaves, Saved
    <3>2. CASE g # h
      BY <2>6, <3>1, <3>2
    <3>3. CASE g = h
      <4>1. k \in 1 .. Len(seen[h]) \/ k = Len(seen[h]) + 1
        BY <2>5, <2>6, <3>3
      <4> QED
        BY <2>4, <2>5, <2>6, <2>7, <3>1, <3>3, <4>1
    <3> QED
      BY <3>2, <3>3
  <2> QED
    BY <1>1, <2>7 DEF LoginSeesSaves, Saved
<1> QED
  BY <1>2, <1>3 DEF QueueInv

(* Steps that move no operation keep QueueInv.                             *)
LEMMA StayKeeps ==
    ASSUME QueueInv, StayPut, async => async'
    PROVE  QueueInv'
<1>1. UNCHANGED <<ops, seen, cur, ended, m_delayQueue, m_serialDelayQueue>> /\ Ids' = Ids
  BY DEF StayPut, Ids
<1>2. SharedInv' /\ SerialInv' /\ HandInv' /\ CoverInv' /\ OrderInv'
  BY <1>1 DEF QueueInv, SharedInv, SerialInv, HandInv, CoverInv, OrderInv, ThreadOf
<1>3. StartInv'
  BY <1>1 DEF QueueInv, StartInv
<1>4. SerialOrder' /\ LoginSeesSaves'
  BY <1>1 DEF QueueInv, SerialOrder, LoginSeesSaves
<1> QED
  BY <1>2, <1>3, <1>4 DEF QueueInv

(* No operation exists at the start.                                       *)
LEMMA QueueInitially == Init => QueueInv
<1> SUFFICES ASSUME Init PROVE QueueInv
  OBVIOUS
<1>1. Len(<<>>) = 0 /\ 1 .. 0 = {}
  OBVIOUS
<1>2. /\ ops = <<>> /\ ended = <<>> /\ m_delayQueue = <<>>
      /\ \A w \in Workers : m_serialDelayQueue[w] = <<>> /\ cur[w] = 0
  BY DEF Init
<1>3. Elements(<<>>) = {} /\ Distinct(<<>>) /\ Increasing(<<>>)
  BY <1>1 DEF Elements, Distinct, Increasing
<1>4. Ids = {}
  BY <1>1, <1>2 DEF Ids
<1> QED
  BY <1>1, <1>2, <1>3, <1>4 DEF QueueInv, SharedInv, SerialInv, HandInv, CoverInv,
     OrderInv, StartInv, SerialOrder, LoginSeesSaves

(* Every step keeps QueueInv.                                              *)
LEMMA QueueKept == TypeOK /\ QueueInv /\ [Next]_vars => QueueInv'
<1> SUFFICES ASSUME TypeOK, QueueInv, [Next]_vars PROVE QueueInv'
  OBVIOUS
<1>1. ASSUME NEW t \in Threads, NEW shape \in Shapes, Handed(t, shape) PROVE QueueInv'
  BY <1>1, HandedKinds, SharedKeeps, SerialKeeps, DirectKeeps
<1>2. ASSUME NEW w \in Workers, Work(w) PROVE QueueInv'
  <2>1. async' = async
    BY <1>2, WorkKinds DEF client
  <2> QED
    BY <1>2, <2>1, WorkKinds, TakeSharedKeeps, TakeSerialKeeps, FinishKeeps, HolderKeeps,
       StayKeeps
<1>3. ASSUME Elsewhere PROVE QueueInv'
  <2>1. async => async'
    BY <1>3 DEF Elsewhere, AllowAsyncTransactions, StopServer, BeginTransaction,
       DelayExecute, RollbackTransaction, Update, BeginUpdate, TakeResult, StartPool,
       UnsafeCallback, EndUnsafe, EndUpdate, PoolCallback, Halt, StopThread,
       JoinThread, ClearBodies, CancelAll, vars, client
  <2> QED
    BY <1>3, <2>1, ElsewhereStays, StayKeeps
<1> QED
  BY <1>1, <1>2, <1>3, StepKinds

(* QueueInv holds in every state of every behaviour.                       *)
LEMMA QueueAlways == Spec => []QueueInv
  BY QueueInitially, QueueKept, DelayTypes, PTL DEF Spec

(* Operations with the same serial id are executed in the order in which   *)
(* they were handed over to AddToSerialDelayQueue, for any number of delay *)
(* threads.                                                                *)
THEOREM SerialIdsInOrder == Spec => []SerialOrder
<1>1. QueueInv => SerialOrder
  BY DEF QueueInv
<1> QED
  BY <1>1, QueueAlways, PTL

(* Every query of a login holder (SqlQueryHolderEx::Execute) finds exactly *)
(* the saves of the character that were handed over before it.             *)
THEOREM LoginsFindSaves == Spec => []LoginSeesSaves
<1>1. QueueInv => LoginSeesSaves
  BY DEF QueueInv
<1> QED
  BY <1>1, QueueAlways, PTL

(* As many as there are: one or none.                                      *)
LEMMA OneOrNone ==
    ASSUME NEW S, NEW T, T \subseteq S, \A x, y \in T : x = y
    PROVE  Cardinality(T) = IF T = {} THEN 0 ELSE 1
<1>1. CASE T = {}
  BY <1>1, FS_EmptySet
<1>2. CASE T # {}
  <2>1. PICK x \in T : TRUE
    BY <1>2
  <2>2. T = {x}
    BY <2>1
  <2> QED
    BY <1>2, <2>2, FS_Singleton
<1> QED
  BY <1>1, <1>2

(* With QueueInv the places of an operation can be counted: there is one.  *)
LEMMA PlacesAreOne == TypeOK /\ QueueInv => ExecutedOnce
<1> SUFFICES ASSUME TypeOK, QueueInv, NEW id \in Ids
             PROVE  /\ Cardinality({w \in Workers : cur[w] = id})
                       + Cardinality({w \in Workers : Times(id, m_serialDelayQueue[w]) = 1})
                       + Times(id, m_delayQueue) + Times(id, ended) = 1
                    /\ \A w \in Workers : Times(id, m_serialDelayQueue[w]) <= 1
  BY DEF ExecutedOnce
<1> DEFINE C == {w \in Workers : cur[w] = id}
           S == {w \in Workers : Times(id, m_serialDelayQueue[w]) = 1}
<1>1. id # 0
  BY Sets
<1>2. ASSUME NEW w \in Workers
      PROVE  Times(id, m_serialDelayQueue[w]) =
                IF id \in Elements(m_serialDelayQueue[w]) THEN 1 ELSE 0
  BY Sets, IncreasingDistinct, TimesDistinct DEF QueueInv, SerialInv
<1>3. S = {w \in Workers : id \in Elements(m_serialDelayQueue[w])}
  BY <1>2
<1>4. Times(id, m_delayQueue) = IF id \in Elements(m_delayQueue) THEN 1 ELSE 0
  BY Sets, TimesDistinct DEF QueueInv, SharedInv
<1>5. Times(id, ended) = IF id \in Elements(ended) THEN 1 ELSE 0
  BY Sets, TimesDistinct DEF QueueInv, CoverInv
<1>6. \A v, w \in C : v = w
  BY <1>1 DEF QueueInv, HandInv
<1>7. \A v, w \in S : v = w
  BY <1>3 DEF QueueInv, SerialInv
<1>8. /\ id \in Elements(m_delayQueue) => C = {} /\ S = {} /\ id \notin Elements(ended)
      /\ id \in Elements(ended) => C = {} /\ S = {}
      /\ C # {} => S = {}
  <2>1. id \in Elements(m_delayQueue) => S = {} /\ id \notin Elements(ended)
    BY <1>3 DEF QueueInv, SharedInv, SerialInv
  <2>2. id \in Elements(ended) => S = {}
    BY <1>3 DEF QueueInv, SerialInv
  <2>3. C # {} => id \notin Elements(m_delayQueue) /\ id \notin Elements(ended) /\ S = {}
    BY <1>1, <1>3 DEF QueueInv, HandInv
  <2> QED
    BY <2>1, <2>2, <2>3
<1>9. id \in Elements(m_delayQueue) \/ id \in Elements(ended) \/ C # {} \/ S # {}
  BY <1>3 DEF QueueInv, CoverInv
<1>10. /\ Cardinality(C) = IF C = {} THEN 0 ELSE 1
       /\ Cardinality(S) = IF S = {} THEN 0 ELSE 1
  <2>1. C \subseteq Workers /\ S \subseteq Workers
    OBVIOUS
  <2> HIDE DEF C, S
  <2> QED
    BY <2>1, <1>6, <1>7, OneOrNone
<1> HIDE DEF C, S
<1>11. Cardinality(C) + Cardinality(S) + Times(id, m_delayQueue) + Times(id, ended) = 1
  BY <1>4, <1>5, <1>8, <1>9, <1>10
<1> QED
  BY <1>2, <1>11 DEF C, S

(* An operation handed to the database waits in one queue, is in the hands *)
(* of one delay thread, or was executed once: LockedQueue and the choice   *)
(* of the thread by serial id lose none and duplicate none.                *)
THEOREM OperationsRunOnce == Spec => []ExecutedOnce
  BY PlacesAreOne, QueueAlways, DelayTypes, PTL

-----------------------------------------------------------------------------
(* Stopping. *)

(* Threads that left the loop have nothing in hands; those whose body is   *)
(* destroyed have emptied their queue and the shared one; JoinThread and   *)
(* ClearBodies go through the threads in order.                            *)
HaltInv ==
    /\ \A w \in Workers : pc[w] \in {"test", "exit", "gone"} => cur[w] = 0
    /\ \A w \in Workers : pc[w] = "gone" =>
          /\ stop \in {"drain", "cancel", "down"}
          /\ m_serialDelayQueue[w] = <<>> /\ m_delayQueue = <<>>
    /\ stop = "join" => \A w \in Workers : w < at => pc[w] = "exit"
    /\ stop = "drain" => \A w \in Workers :
          /\ at <= w => pc[w] = "exit"
          /\ w + 1 = at => pc[w] \in {"shared", "serial", "gone"}
          /\ w + 1 < at => pc[w] = "gone"
          /\ pc[w] = "serial" => m_delayQueue = <<>>
    /\ stop \in {"cancel", "down"} => \A w \in Workers : pc[w] = "gone"

(* Nobody stops the server at the start.                                   *)
LEMMA HaltInitially == Init => HaltInv
  BY DEF Init, HaltInv

(* Handing an operation over keeps HaltInv.                                *)
LEMMA HandedHalts ==
    ASSUME TypeOK, HaltInv, NEW t \in Threads, NEW shape \in Shapes, Handed(t, shape)
    PROVE  HaltInv'
<1>1. stop = "up" /\ UNCHANGED <<pc, cur, stop, at>>
  BY HandedKinds DEF AddShared, AddSerial, AddDirect, Issue, halt
<1> QED
  BY <1>1 DEF HaltInv

(* A step of a delay thread keeps HaltInv.                                 *)
LEMMA WorkHalts ==
    ASSUME TypeOK, HaltInv, NEW w \in Workers, Work(w)
    PROVE  HaltInv'
<1>1. UNCHANGED <<stop, at>> /\ at \in Nat /\ w \in Nat
  BY WorkKinds DEF halt, TypeOK, Workers
<1>2. CASE LoopTest(w)
  BY <1>1, <1>2 DEF LoopTest, HaltInv, queues, TypeOK
<1>3. CASE NextDelayedOperation(w)
  BY <1>1, <1>3 DEF NextDelayedOperation, HaltInv, TypeOK
<1>4. CASE NextSerialOperation(w)
  BY <1>1, <1>4 DEF NextSerialOperation, HaltInv, TypeOK
<1>5. CASE PerformWrite(w) \/ AddResult(w)
  BY <1>1, <1>5 DEF PerformWrite, AddResult, HaltInv, TypeOK, queues
<1>6. CASE HolderQuery(w)
  BY <1>1, <1>6 DEF HolderQuery, HaltInv, queues, worker
<1> QED
  BY <1>2, <1>3, <1>4, <1>5, <1>6 DEF Work

(* The steps of StopServer and HaltDelayThread keep HaltInv.               *)
LEMMA ElsewhereHalts ==
    ASSUME TypeOK, HaltInv, Elsewhere
    PROVE  HaltInv'
<1>1. UNCHANGED <<cur, m_delayQueue, m_serialDelayQueue>>
  BY ElsewhereStays DEF StayPut
<1>2. at \in 0 .. NumWorkers /\ Workers \subseteq Nat /\ \A w \in Workers : w < NumWorkers
  BY DEF TypeOK, Workers
<1>3. CASE StopServer
  BY <1>1, <1>3 DEF StopServer, HaltInv, worker
<1>4. CASE StopThread
  BY <1>1, <1>2, <1>4 DEF StopThread, HaltInv, worker
<1>5. CASE JoinThread
  BY <1>1, <1>2, <1>5 DEF JoinThread, HaltInv, worker
<1>6. CASE ClearBodies
  <2>1. CASE at < NumWorkers
    <3>1. /\ at \in Workers /\ at \in Nat /\ stop = "drain" /\ stop' = "drain" /\ at' = at + 1
          /\ pc'[at] = "shared" /\ \A w \in Workers : w # at => pc'[w] = pc[w]
      BY <1>2, <1>6, <2>1 DEF ClearBodies, DestroyBody, TypeOK, Workers
    <3>2. \A w \in Workers : w < at => pc[w] = "gone"
      <4>1. \A w \in Workers : w < at => w + 1 < at \/ (at > 0 /\ w = at - 1)
        BY <1>2
      <4> QED
        BY <1>6, <3>1, <4>1 DEF ClearBodies, HaltInv
    <3>3. \A w \in Workers : /\ at' <= w => pc'[w] = "exit"
                             /\ w + 1 = at' => pc'[w] = "shared"
                             /\ w + 1 < at' => pc'[w] = "gone"
      BY <1>2, <3>1, <3>2 DEF HaltInv
    <3>4. \A w \in Workers : pc'[w] = "serial" => pc[w] = "serial"
      BY <3>1
    <3>5. \A w \in Workers : pc'[w] \in {"test", "exit", "gone"} => pc'[w] = pc[w]
      BY <3>1
    <3> QED
      BY <1>1, <3>1, <3>3, <3>4, <3>5 DEF HaltInv
  <2>2. CASE at = NumWorkers
    <3>1. at - 1 \in Workers /\ at > 0
      BY <2>2 DEF Workers
    <3>2. \A w \in Workers : w = at - 1 \/ w + 1 < at
      BY <1>2, <2>2
    <3>3. \A w \in Workers : pc[w] = "gone"
      BY <1>6, <3>1, <3>2 DEF ClearBodies, HaltInv
    <3> QED
      BY <1>1, <1>2, <1>6, <2>2, <3>3 DEF ClearBodies, HaltInv
  <2> QED
    BY <1>2, <2>1, <2>2
<1>7. CASE CancelAll
  BY <1>1, <1>7 DEF CancelAll, HaltInv, worker
<1>8. CASE UNCHANGED <<at, pc, stop>>
  BY <1>1, <1>8 DEF HaltInv
<1> QED
  BY <1>3, <1>4, <1>5, <1>6, <1>7, <1>8 DEF Elsewhere, AllowAsyncTransactions,
     BeginTransaction, DelayExecute, RollbackTransaction, Update, BeginUpdate,
     TakeResult, StartPool, UnsafeCallback, EndUnsafe, EndUpdate, PoolCallback,
     Halt, vars, halt, worker

(* Every step keeps HaltInv.                                               *)
LEMMA HaltKept == TypeOK /\ HaltInv /\ [Next]_vars => HaltInv'
  BY StepKinds, HandedHalts, WorkHalts, ElsewhereHalts

(* HaltInv holds in every state of every behaviour.                        *)
LEMMA HaltAlways == Spec => []HaltInv
  BY HaltInitially, HaltKept, DelayTypes, PTL DEF Spec

(* HaltDelayThread leaves nothing behind: when the bodies are destroyed,   *)
(* everything handed over, also while the threads stopped, was executed.   *)
THEOREM NothingLeftBehind == Spec => []HaltDrains
<1>1. TypeOK /\ QueueInv /\ HaltInv => HaltDrains
  <2> SUFFICES ASSUME TypeOK, QueueInv, HaltInv, stop \in {"cancel", "down"}
               PROVE  Elements(ended) = Ids
    BY DEF HaltDrains
  <2>1. 0 \in Workers
    BY DEF Workers
  <2>2. /\ m_delayQueue = <<>>
        /\ \A w \in Workers : m_serialDelayQueue[w] = <<>> /\ cur[w] = 0
    BY <2>1 DEF HaltInv
  <2>3. Elements(<<>>) = {}
    BY DEF Elements
  <2>4. 0 \notin Ids /\ Elements(ended) \subseteq Ids
    BY Sets
  <2> QED
    BY <2>2, <2>3, <2>4 DEF QueueInv, CoverInv
<1> QED
  BY <1>1, DelayTypes, QueueAlways, HaltAlways, PTL

-----------------------------------------------------------------------------
(* Callbacks. *)

(* An operation with a result.                                             *)
HasResult(id) == ops[id].cb \in {"safe", "unsafe"}

(* The callback of an executed operation is in one place, or was called.   *)
CallInv ==
    /\ Distinct(results) /\ Distinct(unsafeWaiting)
    /\ \A id \in Elements(results) \cup Elements(unsafeWaiting) \cup batch :
          id \in Elements(ended) /\ HasResult(id) /\ id \notin called
    /\ Elements(results) \cap Elements(unsafeWaiting) = {}
    /\ batch \cap (Elements(results) \cup Elements(unsafeWaiting)) = {}
    /\ \A id \in called : HasResult(id) => id \in Elements(ended)
    /\ \A id \in Elements(ended) : HasResult(id) =>
          id \in Elements(results) \cup Elements(unsafeWaiting) \cup batch \cup called

(* The unsafe callbacks that were taken from the result queue.             *)
TakenCount == Len(unsafeCalled) + Len(unsafeWaiting)

(* They are the first that arrived, in that order: those that were called, *)
(* then those that wait.                                                   *)
TakenInv ==
    /\ Distinct(arrived)
    /\ \A id \in Elements(arrived) : id \in Elements(ended) /\ ops[id].cb = "unsafe"
    /\ TakenCount <= Len(arrived)
    /\ \A i \in 1 .. Len(unsafeCalled) : unsafeCalled[i] = arrived[i]
    /\ \A i \in 1 .. Len(unsafeWaiting) :
          unsafeWaiting[i] = arrived[Len(unsafeCalled) + i]

(* The others are in the result queue in the order in which they arrived,  *)
(* until CancelAll.                                                        *)
ResultsInv ==
    /\ stop # "up" => pass = "idle"
    /\ stop \notin {"cancel", "down"} =>
         /\ \A j \in TakenCount + 1 .. Len(arrived) : arrived[j] \in Elements(results)
         /\ \A i \in 1 .. Len(results) : ops[results[i]].cb = "unsafe" =>
               \E j \in TakenCount + 1 .. Len(arrived) : arrived[j] = results[i]
         /\ \A i, k \in 1 .. Len(results) : i < k =>
               \A a, b \in 1 .. Len(arrived) :
                   arrived[a] = results[i] /\ arrived[b] = results[k] => a < b

CallbackInv == CallInv /\ TakenInv /\ ResultsInv

(* The sequences of the result queue, typed.                               *)
LEMMA CallSets ==
    ASSUME TypeOK
    PROVE  /\ results \in Seq(Ids) /\ Elements(results) \subseteq Ids
           /\ unsafeWaiting \in Seq(Ids) /\ Elements(unsafeWaiting) \subseteq Ids
           /\ arrived \in Seq(Ids) /\ Elements(arrived) \subseteq Ids
           /\ unsafeCalled \in Seq(Ids)
           /\ batch \subseteq Ids /\ called \subseteq Ids
           /\ Len(results) \in Nat /\ Len(unsafeWaiting) \in Nat
           /\ Len(arrived) \in Nat /\ Len(unsafeCalled) \in Nat
           /\ \A i \in 1 .. Len(results) : results[i] \in Ids /\ results[i] \in Elements(results)
           /\ \A i \in 1 .. Len(arrived) : arrived[i] \in Ids /\ arrived[i] \in Elements(arrived)
<1>1. \A i \in 1 .. Len(results) : results[i] \in Elements(results)
  BY DEF Elements
<1>2. \A i \in 1 .. Len(arrived) : arrived[i] \in Elements(arrived)
  BY DEF Elements
<1> QED
  BY <1>1, <1>2, ElementsType, LenProperties DEF TypeOK

(* Steps that touch no callback.                                           *)
QuietCalls ==
    UNCHANGED <<ops, ended, results, unsafeWaiting, batch, called, arrived, unsafeCalled>>

(* The steps that concern callbacks.                                       *)
LEMMA CallKinds ==
    ASSUME [Next]_vars
    PROVE  /\ \/ \E t \in Threads, shape \in Shapes : Handed(t, shape)
              \/ \E w \in Workers : PerformWrite(w) \/ AddResult(w)
              \/ TakeResult \/ PoolCallback \/ UnsafeCallback \/ CancelAll
              \/ QuietCalls
           /\ stop \in {"cancel", "down"} => stop' \in {"cancel", "down"}
<1>1. CASE \E t \in Threads, shape \in Shapes : Handed(t, shape)
  BY <1>1, HandedKinds DEF halt
<1>2. CASE \E w \in Workers : Work(w)
  <2>1. PICK w \in Workers : Work(w)
    BY <1>2
  <2>2. PerformWrite(w) \/ AddResult(w) \/ QuietCalls
    BY <2>1 DEF Work, LoopTest, NextDelayedOperation, NextSerialOperation, HolderQuery,
       QuietCalls, result, calls, done
  <2> QED
    BY <2>1, <2>2, WorkKinds DEF halt
<1>3. CASE Elsewhere
  BY <1>3 DEF Elsewhere, QuietCalls, AllowAsyncTransactions, StopServer,
     BeginTransaction, DelayExecute, RollbackTransaction, Update, BeginUpdate, TakeResult,
     StartPool, UnsafeCallback, EndUnsafe, EndUpdate, PoolCallback, Halt, StopThread,
     JoinThread, ClearBodies, CancelAll, vars, result, calls, done, halt
<1> QED
  BY <1>1, <1>2, <1>3, StepKinds

(* An operation that is executed, or handed over, without a result.        *)
LEMMA NoResultKeeps ==
    ASSUME TypeOK, CallInv, TakenInv, NEW c, ~HasResult(c)', c \notin Elements(ended),
           Ids' \subseteq Ids \cup {c},
           \A id \in Ids : ops'[id] = ops[id] \/ id = c,
           Elements(ended') \in {Elements(ended), Elements(ended) \cup {c}},
           called' \in {called, called \cup {c}},
           UNCHANGED <<results, unsafeWaiting, batch, arrived, unsafeCalled>>
    PROVE  CallInv' /\ TakenInv'
<1>1. \A id \in Elements(ended) : HasResult(id)' = HasResult(id) /\ ops'[id] = ops[id]
  BY Sets DEF HasResult
<1>2. \A id \in called : id = c \/ (HasResult(id)' = HasResult(id) /\ ops'[id] = ops[id])
  BY CallSets DEF HasResult
<1>3. CallInv'
  BY <1>1, <1>2 DEF CallInv
<1>4. TakenInv'
  BY <1>1 DEF TakenInv, TakenCount
<1> QED
  BY <1>3, <1>4

(* An operation handed over has no callback to run yet, or runs it at      *)
(* once.                                                                   *)
LEMMA HandedCalls ==
    ASSUME TypeOK, CallInv, TakenInv, NEW t \in Threads, NEW shape \in Shapes,
           Handed(t, shape)
    PROVE  CallInv' /\ TakenInv'
<1>0. PICK new : new = Len(ops) + 1
  OBVIOUS
<1>1. Issue(shape)
  BY HandedKinds DEF AddShared, AddSerial, AddDirect
<1>2. /\ Ids' = Ids \cup {new} /\ new \notin Ids
      /\ \A id \in Ids : ops'[id] = ops[id]
      /\ ops'[new] = shape
  BY <1>0, <1>1, TypeParts, IssueTypes
<1>3. UNCHANGED <<results, unsafeWaiting, batch, arrived, unsafeCalled>>
  BY HandedKinds DEF result
<1>4. new \notin Elements(ended)
  BY <1>2, Sets
<1>5. CASE shape.cb \in {"none", "op"}
  <2>1. ~HasResult(new)'
    BY <1>2, <1>5 DEF HasResult
  <2>2. Elements(ended') \in {Elements(ended), Elements(ended) \cup {new}}
    <3>1. CASE ended' = ended
      BY <3>1
    <3>2. CASE ended' = Append(ended, new)
      <4>1. ended \in Seq(Ids') /\ new \in Ids'
        BY <1>2, Sets, SeqMonotonic
      <4> QED
        BY <3>2, <4>1, AppendElements
    <3> QED
      BY <1>0, <3>1, <3>2, HandedKinds DEF AddShared, AddSerial, AddDirect, Directly
  <2>3. called' \in {called, called \cup {new}}
    BY <1>0, HandedKinds
  <2> QED
    BY <1>2, <1>3, <1>4, <2>1, <2>2, <2>3, NoResultKeeps
<1>6. CASE shape.cb \notin {"none", "op"}
  <2>1. ended' = ended /\ called' = called
    BY <1>6, HandedKinds DEF AddShared, AddSerial, AddDirect
  <2>2. \A id \in Ids : HasResult(id)' = HasResult(id)
    BY <1>2 DEF HasResult
  <2>3. CallInv'
    BY <1>3, <2>1, <2>2, Sets, CallSets DEF CallInv
  <2>4. TakenInv'
    BY <1>2, <1>3, <2>1, Sets DEF TakenInv, TakenCount
  <2> QED
    BY <2>3, <2>4
<1> QED
  BY <1>5, <1>6

(* The end of an operation without a result.                               *)
LEMMA WriteCalls ==
    ASSUME TypeOK, QueueInv, CallInv, TakenInv, NEW w \in Workers, PerformWrite(w)
    PROVE  CallInv' /\ TakenInv'
<1>0. PICK c : c = cur[w]
  OBVIOUS
<1>1. c \in Ids /\ c \notin Elements(ended)
  BY <1>0, Sets DEF PerformWrite, Has, QueueInv, HandInv
<1>2. UNCHANGED <<ops, results, unsafeWaiting, batch, arrived, unsafeCalled>> /\ Ids' = Ids
  BY DEF PerformWrite, result, Ids
<1>3. ~HasResult(c)'
  BY <1>0, <1>1, <1>2, Sets, ShapeTypes DEF PerformWrite, Has, HasResult
<1>4. Elements(ended') = Elements(ended) \cup {c}
  BY <1>0, <1>1, Sets, AppendElements DEF PerformWrite
<1>5. called' \in {called, called \cup {c}}
  BY <1>0 DEF PerformWrite
<1> QED
  BY <1>1, <1>2, <1>3, <1>4, <1>5, NoResultKeeps

(* A result is added to the result queue, once.                            *)
LEMMA ResultCalls ==
    ASSUME TypeOK, QueueInv, CallInv, TakenInv, NEW w \in Workers, AddResult(w)
    PROVE  CallInv' /\ TakenInv'
<1>0. PICK c : c = cur[w]
  OBVIOUS
<1>1. c \in Ids /\ c \notin Elements(ended)
  BY <1>0, Sets DEF AddResult, Has, QueueInv, HandInv
<1>2. /\ UNCHANGED <<ops, unsafeWaiting, batch, called, unsafeCalled>> /\ Ids' = Ids
      /\ results' = Append(results, c) /\ ended' = Append(ended, c)
      /\ arrived' = IF ops[c].cb = "unsafe" THEN Append(arrived, c) ELSE arrived
  BY <1>0 DEF AddResult, calls, Ids
<1>3. HasResult(c) /\ \A id : HasResult(id)' = HasResult(id)
  BY <1>0, <1>1, <1>2, Sets, ShapeTypes DEF AddResult, Has, HasResult
<1>4. Elements(ended') = Elements(ended) \cup {c} /\ Elements(results') = Elements(results) \cup {c}
  BY <1>1, <1>2, Sets, CallSets, AppendElements
<1>5. /\ c \notin Elements(results) /\ c \notin Elements(unsafeWaiting) /\ c \notin batch
      /\ c \notin called /\ c \notin Elements(arrived)
  BY <1>1, <1>3 DEF CallInv, TakenInv
<1>6. Distinct(results')
  BY <1>1, <1>2, <1>5, CallSets, AppendDistinct DEF CallInv
<1>7. CallInv'
  BY <1>2, <1>3, <1>4, <1>5, <1>6 DEF CallInv
<1>8. TakenInv'
  <2>1. CASE ops[c].cb # "unsafe"
    BY <1>2, <1>4, <2>1 DEF TakenInv, TakenCount
  <2>2. CASE ops[c].cb = "unsafe"
    <3>1. /\ Elements(arrived') = Elements(arrived) \cup {c} /\ Distinct(arrived')
          /\ Len(arrived') = Len(arrived) + 1
          /\ \A i \in 1 .. Len(arrived) : arrived'[i] = arrived[i]
      BY <1>1, <1>2, <1>5, <2>2, CallSets, AppendElements, AppendDistinct, AppendProperties
         DEF TakenInv
    <3>2. /\ \A i \in 1 .. Len(unsafeCalled) : i \in 1 .. Len(arrived)
          /\ \A i \in 1 .. Len(unsafeWaiting) : Len(unsafeCalled) + i \in 1 .. Len(arrived)
          /\ TakenCount <= Len(arrived) + 1
      BY CallSets DEF TakenInv, TakenCount
    <3> QED
      BY <1>2, <1>4, <2>2, <3>1, <3>2 DEF TakenInv, TakenCount
  <2> QED
    BY <2>1, <2>2
<1> QED
  BY <1>7, <1>8

(* The next unsafe callback in the result queue is the next that arrived.  *)
LEMMA NextUnsafe ==
    ASSUME TypeOK, TakenInv, ResultsInv, pass = "take", results # <<>>,
           ops[Head(results)].cb = "unsafe"
    PROVE  /\ TakenCount + 1 \in 1 .. Len(arrived)
           /\ arrived[TakenCount + 1] = Head(results)
<1>1. /\ Len(results) \in Nat \ {0} /\ Head(results) = results[1]
      /\ TakenCount \in Nat /\ Len(arrived) \in Nat
  BY CallSets, EmptySeq DEF TakenCount
<1>2. stop = "up"
  BY DEF ResultsInv
<1>3. PICK j \in TakenCount + 1 .. Len(arrived) : arrived[j] = results[1]
  BY <1>1, <1>2 DEF ResultsInv
<1>4. TakenCount + 1 \in TakenCount + 1 .. Len(arrived) /\ TakenCount + 1 \in 1 .. Len(arrived)
      /\ j \in 1 .. Len(arrived)
  BY <1>1, <1>3
<1>5. PICK k \in 1 .. Len(results) : arrived[TakenCount + 1] = results[k]
  BY <1>2, <1>4 DEF ResultsInv, Elements
<1>6. CASE k = 1
  BY <1>1, <1>4, <1>5, <1>6
<1>7. CASE k # 1
  <2>1. 1 \in 1 .. Len(results) /\ 1 < k
    BY <1>1, <1>7
  <2>2. j < TakenCount + 1
    BY <1>2, <1>3, <1>4, <1>5, <2>1 DEF ResultsInv
  <2> QED
    BY <1>1, <1>3, <2>2
<1> QED
  BY <1>6, <1>7

(* Update takes a result, to the batch of the pool or to the unsafe ones   *)
(* that wait.                                                              *)
LEMMA TakeCalls ==
    ASSUME TypeOK, CallInv, TakenInv, ResultsInv, TakeResult
    PROVE  CallInv' /\ TakenInv'
<1>0. PICK c : c = Head(results)
  OBVIOUS
<1>1. /\ UNCHANGED <<ops, ended, arrived, called, unsafeCalled>> /\ Ids' = Ids
      /\ results # <<>> /\ results' = Tail(results) /\ pass = "take"
      /\ IF ops[c].cb = "unsafe"
         THEN unsafeWaiting' = Append(unsafeWaiting, c) /\ batch' = batch
         ELSE batch' = batch \cup {c} /\ unsafeWaiting' = unsafeWaiting
  BY <1>0 DEF TakeResult, done, calls, Ids
<1>2. /\ c \in Elements(results) /\ c \in Ids /\ Distinct(results')
      /\ Elements(results') = Elements(results) \ {c}
  BY <1>0, <1>1, CallSets, TailElements DEF CallInv
<1>3. \A id : HasResult(id)' = HasResult(id)
  BY <1>1 DEF HasResult
<1>4. c \notin Elements(unsafeWaiting) /\ c \notin batch
  BY <1>2 DEF CallInv
<1>5. CASE ops[c].cb = "unsafe"
  <2>1. /\ Elements(unsafeWaiting') = Elements(unsafeWaiting) \cup {c}
        /\ Distinct(unsafeWaiting')
        /\ Len(unsafeWaiting') = Len(unsafeWaiting) + 1
        /\ \A i \in 1 .. Len(unsafeWaiting) : unsafeWaiting'[i] = unsafeWaiting[i]
        /\ unsafeWaiting'[Len(unsafeWaiting) + 1] = c
    <3>1. unsafeWaiting \in Seq(Ids) /\ unsafeWaiting' = Append(unsafeWaiting, c)
          /\ Distinct(unsafeWaiting)
      BY <1>1, <1>5, CallSets DEF CallInv
    <3>2. Elements(unsafeWaiting') = Elements(unsafeWaiting) \cup {c}
      BY <1>2, <3>1, AppendElements
    <3>3. Distinct(unsafeWaiting')
      BY <1>2, <1>4, <3>1, AppendDistinct
    <3> QED
      BY <1>2, <3>1, <3>2, <3>3, AppendProperties
  <2>2. CallInv'
    BY <1>1, <1>2, <1>3, <1>5, <2>1 DEF CallInv
  <2>3. TakenCount + 1 <= Len(arrived) /\ arrived[TakenCount + 1] = c
    BY <1>0, <1>1, <1>5, NextUnsafe, CallSets
  <2>4. TakenCount' = TakenCount + 1 /\ TakenCount = Len(unsafeCalled) + Len(unsafeWaiting)
    BY <1>1, <2>1, CallSets DEF TakenCount
  <2>5. \A i \in 1 .. Len(unsafeWaiting') : unsafeWaiting'[i] = arrived[Len(unsafeCalled) + i]
    <3>1. \A i \in 1 .. Len(unsafeWaiting') : i \in 1 .. Len(unsafeWaiting) \/ i = Len(unsafeWaiting) + 1
      BY <2>1, CallSets
    <3>2. Len(unsafeCalled) + (Len(unsafeWaiting) + 1) = TakenCount + 1
      BY <2>4, CallSets
    <3> QED
      BY <2>1, <2>3, <3>1, <3>2 DEF TakenInv
  <2>6. TakenInv'
    BY <1>1, <2>3, <2>4, <2>5 DEF TakenInv
  <2> QED
    BY <2>2, <2>6
<1>6. CASE ops[c].cb # "unsafe"
  <2>1. CallInv'
    BY <1>1, <1>2, <1>3, <1>6 DEF CallInv
  <2>2. TakenInv'
    BY <1>1, <1>6 DEF TakenInv, TakenCount
  <2> QED
    BY <2>1, <2>2
<1> QED
  BY <1>5, <1>6

(* The pool runs the callbacks of the batch.                               *)
LEMMA PoolCalls ==
    ASSUME TypeOK, CallInv, TakenInv, PoolCallback
    PROVE  CallInv' /\ TakenInv'
<1>1. PICK c \in batch : batch' = batch \ {c} /\ called' = called \cup {c}
  BY DEF PoolCallback
<1>2. UNCHANGED <<ops, ended, arrived, results, unsafeWaiting, unsafeCalled>> /\ Ids' = Ids
  BY DEF PoolCallback, done, Ids
<1>3. \A id : HasResult(id)' = HasResult(id)
  BY <1>2 DEF HasResult
<1>4. CallInv'
  BY <1>1, <1>2, <1>3 DEF CallInv
<1>5. TakenInv'
  BY <1>2 DEF TakenInv, TakenCount
<1> QED
  BY <1>4, <1>5

(* Update runs an unsafe callback.                                         *)
LEMMA UnsafeCalls ==
    ASSUME TypeOK, CallInv, TakenInv, UnsafeCallback
    PROVE  CallInv' /\ TakenInv'
<1>0. PICK c : c = Head(unsafeWaiting)
  OBVIOUS
<1>1. /\ UNCHANGED <<ops, ended, arrived, results, batch>> /\ Ids' = Ids
      /\ unsafeWaiting # <<>> /\ unsafeWaiting' = Tail(unsafeWaiting)
      /\ called' = called \cup {c} /\ unsafeCalled' = Append(unsafeCalled, c)
  BY <1>0 DEF UnsafeCallback, done, Ids
<1>2. /\ c \in Elements(unsafeWaiting) /\ c \in Ids /\ Distinct(unsafeWaiting')
      /\ Elements(unsafeWaiting') = Elements(unsafeWaiting) \ {c}
  BY <1>0, <1>1, CallSets, TailElements DEF CallInv
<1>3. \A id : HasResult(id)' = HasResult(id)
  BY <1>1 DEF HasResult
<1>4. CallInv'
  BY <1>1, <1>2, <1>3 DEF CallInv
<1>5. /\ Len(unsafeWaiting) \in Nat \ {0} /\ Len(unsafeWaiting') = Len(unsafeWaiting) - 1
      /\ \A i \in 1 .. Len(unsafeWaiting') : unsafeWaiting'[i] = unsafeWaiting[i + 1]
      /\ c = unsafeWaiting[1]
  BY <1>0, <1>1, CallSets, HeadTailProperties, EmptySeq
<1>6. /\ Len(unsafeCalled') = Len(unsafeCalled) + 1 /\ Len(unsafeCalled) \in Nat
      /\ \A i \in 1 .. Len(unsafeCalled) : unsafeCalled'[i] = unsafeCalled[i]
      /\ unsafeCalled'[Len(unsafeCalled) + 1] = c
  BY <1>1, <1>2, CallSets, AppendProperties
<1>7. TakenCount' = TakenCount
  BY <1>5, <1>6 DEF TakenCount
<1>8. c = arrived[Len(unsafeCalled) + 1]
  <2>1. 1 \in 1 .. Len(unsafeWaiting)
    BY <1>5
  <2> QED
    BY <1>5, <2>1 DEF TakenInv
<1>9. \A i \in 1 .. Len(unsafeCalled') : unsafeCalled'[i] = arrived[i]
  <2>1. \A i \in 1 .. Len(unsafeCalled') : i \in 1 .. Len(unsafeCalled) \/ i = Len(unsafeCalled) + 1
    BY <1>6
  <2> QED
    BY <1>6, <1>8, <2>1 DEF TakenInv
<1>10. \A i \in 1 .. Len(unsafeWaiting') : unsafeWaiting'[i] = arrived[Len(unsafeCalled') + i]
  <2>1. \A i \in 1 .. Len(unsafeWaiting') :
            /\ i + 1 \in 1 .. Len(unsafeWaiting)
            /\ Len(unsafeCalled) + (i + 1) = Len(unsafeCalled') + i
    BY <1>5, <1>6
  <2> QED
    BY <1>5, <2>1 DEF TakenInv
<1>11. TakenInv'
  BY <1>1, <1>7, <1>9, <1>10 DEF TakenInv
<1> QED
  BY <1>4, <1>11

(* CancelAll takes the results that are left.                              *)
LEMMA CancelCalls ==
    ASSUME TypeOK, CallInv, TakenInv, CancelAll
    PROVE  CallInv' /\ TakenInv'
<1>0. PICK c : c = Head(results)
  OBVIOUS
<1>1. UNCHANGED <<ops, ended, arrived, batch, unsafeWaiting, unsafeCalled>> /\ Ids' = Ids
  BY DEF CancelAll, done, Ids
<1>2. \A id : HasResult(id)' = HasResult(id)
  BY <1>1 DEF HasResult
<1>3. CASE results # <<>>
  <2>1. results' = Tail(results) /\ called' = called \cup {c}
    BY <1>0, <1>3 DEF CancelAll
  <2>2. /\ c \in Elements(results) /\ Distinct(results')
        /\ Elements(results') = Elements(results) \ {c}
    BY <1>0, <1>3, <2>1, CallSets, TailElements DEF CallInv
  <2> QED
    BY <1>1, <1>2, <2>1, <2>2 DEF CallInv, TakenInv, TakenCount
<1>4. CASE results = <<>>
  BY <1>1, <1>2, <1>4 DEF CancelAll, CallInv, TakenInv, TakenCount
<1> QED
  BY <1>3, <1>4

(* A new result is behind the others.                                      *)
LEMMA AddResultOrder ==
    ASSUME TypeOK, QueueInv, CallInv, TakenInv, ResultsInv, NEW w \in Workers, AddResult(w)
    PROVE  ResultsInv'
<1>0. PICK c : c = cur[w]
  OBVIOUS
<1>1. c \in Ids /\ c \notin Elements(ended)
  BY <1>0, Sets DEF AddResult, Has, QueueInv, HandInv
<1>2. /\ UNCHANGED <<ops, unsafeWaiting, unsafeCalled, stop, pass>> /\ TakenCount' = TakenCount
      /\ results' = Append(results, c)
      /\ arrived' = IF ops[c].cb = "unsafe" THEN Append(arrived, c) ELSE arrived
  BY <1>0 DEF AddResult, calls, TakenCount, halt
<1>3. c \notin Elements(results) /\ c \notin Elements(arrived)
  BY <1>1 DEF CallInv, TakenInv
<1>4. /\ Len(results') = Len(results) + 1 /\ results'[Len(results) + 1] = c
      /\ \A i \in 1 .. Len(results) : results'[i] = results[i]
      /\ Elements(results') = Elements(results) \cup {c}
  BY <1>1, <1>2, CallSets, AppendProperties, AppendElements
<1>5. /\ Len(results) \in Nat /\ Len(arrived) \in Nat /\ TakenCount \in Nat
      /\ TakenCount <= Len(arrived)
      /\ \A i \in 1 .. Len(results') : i \in 1 .. Len(results) \/ i = Len(results) + 1
      /\ \A i \in 1 .. Len(results) : results[i] # c
      /\ \A j \in 1 .. Len(arrived) : arrived[j] # c
  BY <1>3, <1>4, CallSets, SMTT(30) DEF TakenInv, TakenCount
<1> SUFFICES ASSUME stop \notin {"cancel", "down"}
             PROVE  /\ \A j \in TakenCount + 1 .. Len(arrived') : arrived'[j] \in Elements(results')
                    /\ \A i \in 1 .. Len(results') : ops[results'[i]].cb = "unsafe" =>
                          \E j \in TakenCount + 1 .. Len(arrived') : arrived'[j] = results'[i]
                    /\ \A i, k \in 1 .. Len(results') : i < k =>
                          \A a, b \in 1 .. Len(arrived') :
                              arrived'[a] = results'[i] /\ arrived'[b] = results'[k] => a < b
  BY <1>2 DEF ResultsInv
<1>6. /\ \A j \in TakenCount + 1 .. Len(arrived) : arrived[j] \in Elements(results)
      /\ \A i \in 1 .. Len(results) : ops[results[i]].cb = "unsafe" =>
            \E j \in TakenCount + 1 .. Len(arrived) : arrived[j] = results[i]
      /\ \A i, k \in 1 .. Len(results) : i < k =>
            \A a, b \in 1 .. Len(arrived) :
                arrived[a] = results[i] /\ arrived[b] = results[k] => a < b
  BY DEF ResultsInv
<1>7. CASE ops[c].cb # "unsafe"
  <2>1. arrived' = arrived
    BY <1>2, <1>7
  <2>2. \A i, k \in 1 .. Len(results') : i < k =>
          \A a, b \in 1 .. Len(arrived) :
              arrived[a] = results'[i] /\ arrived[b] = results'[k] => a < b
    BY <1>4, <1>5, <1>6
  <2>3. \A i \in 1 .. Len(results') : ops[results'[i]].cb = "unsafe" =>
          \E j \in TakenCount + 1 .. Len(arrived) : arrived[j] = results'[i]
    BY <1>4, <1>5, <1>6, <1>7
  <2>4. \A j \in TakenCount + 1 .. Len(arrived) : arrived[j] \in Elements(results')
    BY <1>4, <1>6
  <2> QED
    <3>1. \A j \in TakenCount + 1 .. Len(arrived') : arrived'[j] \in Elements(results')
      BY <2>1, <2>4
    <3>2. \A i \in 1 .. Len(results') : ops[results'[i]].cb = "unsafe" =>
            \E j \in TakenCount + 1 .. Len(arrived') : arrived'[j] = results'[i]
      BY <2>1, <2>3
    <3>3. \A i, k \in 1 .. Len(results') : i < k =>
            \A a, b \in 1 .. Len(arrived') :
                arrived'[a] = results'[i] /\ arrived'[b] = results'[k] => a < b
      BY <2>1, <2>2
    <3> QED
      BY <3>1, <3>2, <3>3
<1>8. CASE ops[c].cb = "unsafe"
  <2>1. /\ Len(arrived') = Len(arrived) + 1 /\ arrived'[Len(arrived) + 1] = c
        /\ \A j \in 1 .. Len(arrived) : arrived'[j] = arrived[j]
    BY <1>1, <1>2, <1>8, CallSets, AppendProperties
  <2>2. /\ \A j \in 1 .. Len(arrived') : j \in 1 .. Len(arrived) \/ j = Len(arrived) + 1
        /\ \A j \in TakenCount + 1 .. Len(arrived') :
              j \in TakenCount + 1 .. Len(arrived) \/ j = Len(arrived) + 1
        /\ \A j \in TakenCount + 1 .. Len(arrived) :
              j \in 1 .. Len(arrived) /\ j \in TakenCount + 1 .. Len(arrived')
        /\ Len(arrived) + 1 \in TakenCount + 1 .. Len(arrived')
    BY <1>5, <2>1
  <2>3. \A j \in TakenCount + 1 .. Len(arrived') : arrived'[j] \in Elements(results')
    BY <1>4, <1>6, <2>1, <2>2
  <2>4. ASSUME NEW i \in 1 .. Len(results'), ops[results'[i]].cb = "unsafe"
        PROVE  \E j \in TakenCount + 1 .. Len(arrived') : arrived'[j] = results'[i]
    <3>1. CASE i \in 1 .. Len(results)
      <4>1. PICK j \in TakenCount + 1 .. Len(arrived) : arrived[j] = results[i]
        BY <1>4, <1>6, <2>4, <3>1
      <4> QED
        BY <1>4, <2>1, <2>2, <3>1, <4>1
    <3>2. CASE i = Len(results) + 1
      BY <1>4, <2>1, <2>2, <3>2
    <3> QED
      BY <1>5, <3>1, <3>2
  <2>5. ASSUME NEW i \in 1 .. Len(results'), NEW k \in 1 .. Len(results'), i < k,
               NEW a \in 1 .. Len(arrived'), NEW b \in 1 .. Len(arrived'),
               arrived'[a] = results'[i], arrived'[b] = results'[k]
        PROVE  a < b
    <3>1. i \in 1 .. Len(results) /\ results'[i] = results[i] /\ results[i] # c
      BY <1>4, <1>5, <2>5
    <3>2. a \in 1 .. Len(arrived) /\ arrived'[a] = arrived[a]
      BY <2>1, <2>2, <2>5, <3>1
    <3>3. CASE k \in 1 .. Len(results)
      <4>1. results'[k] = results[k] /\ results[k] # c
        BY <1>4, <1>5, <3>3
      <4>2. b \in 1 .. Len(arrived) /\ arrived'[b] = arrived[b]
        BY <2>1, <2>2, <2>5, <4>1
      <4> QED
        BY <1>6, <2>5, <3>1, <3>2, <3>3, <4>1, <4>2
    <3>4. CASE k = Len(results) + 1
      <4>1. b = Len(arrived) + 1
        BY <1>4, <1>5, <2>1, <2>2, <2>5, <3>4
      <4> QED
        BY <1>5, <3>2, <4>1
    <3> QED
      BY <1>5, <3>3, <3>4
  <2> QED
    BY <2>3, <2>4, <2>5
<1> QED
  BY <1>7, <1>8

(* Update takes results in their order.                                    *)
LEMMA TakeResultOrder ==
    ASSUME TypeOK, CallInv, TakenInv, ResultsInv, TakeResult
    PROVE  ResultsInv'
<1>0. PICK c, n : c = Head(results) /\ n = TakenCount'
  OBVIOUS
<1>1. /\ UNCHANGED <<ops, arrived, unsafeCalled, stop, pass>>
      /\ results # <<>> /\ results' = Tail(results) /\ pass = "take" /\ stop = "up"
  BY DEF TakeResult, calls, halt, ResultsInv
<1>2. /\ Len(results) \in Nat \ {0} /\ Len(results') = Len(results) - 1
      /\ \A i \in 1 .. Len(results') : results'[i] = results[i + 1]
      /\ c = results[1] /\ c \in Elements(results)
      /\ Elements(results') = Elements(results) \ {c}
  BY <1>0, <1>1, CallSets, HeadTailProperties, EmptySeq, TailElements DEF CallInv
<1>3. \A i \in 1 .. Len(results') : i + 1 \in 1 .. Len(results) /\ i + 1 \in 2 .. Len(results)
                                   /\ results[i + 1] # c
  <2>1. \A i \in 1 .. Len(results') : i + 1 \in 1 .. Len(results) /\ i + 1 \in 2 .. Len(results)
                                   /\ i + 1 # 1 /\ 1 \in 1 .. Len(results)
    BY <1>2
  <2> QED
    BY <1>2, <2>1 DEF CallInv, Distinct
<1>4. /\ \A j \in TakenCount + 1 .. Len(arrived) : arrived[j] \in Elements(results)
      /\ \A i \in 1 .. Len(results) : ops[results[i]].cb = "unsafe" =>
            \E j \in TakenCount + 1 .. Len(arrived) : arrived[j] = results[i]
      /\ \A i, k \in 1 .. Len(results) : i < k =>
            \A a, b \in 1 .. Len(arrived) :
                arrived[a] = results[i] /\ arrived[b] = results[k] => a < b
  BY <1>1 DEF ResultsInv
<1>5. TakenCount \in Nat /\ Len(arrived) \in Nat
  BY CallSets DEF TakenCount
<1>6. \/ n = TakenCount /\ \A j \in 1 .. Len(arrived) : arrived[j] # c
      \/ /\ n = TakenCount + 1 /\ n \in 1 .. Len(arrived) /\ arrived[n] = c
         /\ \A j \in 1 .. Len(arrived) : j # n => arrived[j] # c
  <2>1. CASE ops[c].cb = "unsafe"
    <3>1. Len(unsafeWaiting') = Len(unsafeWaiting) + 1
      BY <1>0, <1>1, <2>1, CallSets, HeadTailProperties, AppendProperties DEF TakeResult
    <3>2. n = TakenCount + 1
      BY <1>0, <1>1, <3>1, CallSets DEF TakenCount
    <3>3. n \in 1 .. Len(arrived) /\ arrived[n] = c
      BY <1>0, <1>1, <2>1, <3>2, NextUnsafe
    <3> QED
      BY <3>2, <3>3 DEF TakenInv, Distinct
  <2>2. CASE ops[c].cb # "unsafe"
    <3>1. n = TakenCount
      BY <1>0, <1>1, <2>2 DEF TakeResult, TakenCount
    <3> QED
      BY <2>2, <3>1, CallSets DEF TakenInv
  <2> QED
    BY <2>1, <2>2
<1>7. \A j \in n + 1 .. Len(arrived) : /\ j \in TakenCount + 1 .. Len(arrived)
                                       /\ arrived[j] # c
  BY <1>5, <1>6
<1>8. \A j \in n + 1 .. Len(arrived) : arrived[j] \in Elements(results')
  BY <1>2, <1>4, <1>7
<1>9. ASSUME NEW i \in 1 .. Len(results'), ops[results'[i]].cb = "unsafe"
      PROVE  \E j \in n + 1 .. Len(arrived) : arrived[j] = results'[i]
  <2>1. i + 1 \in 1 .. Len(results) /\ results'[i] = results[i + 1] /\ results[i + 1] # c
    BY <1>2, <1>3
  <2>2. PICK j \in TakenCount + 1 .. Len(arrived) : arrived[j] = results[i + 1]
    BY <1>4, <1>9, <2>1
  <2>3. j \in n + 1 .. Len(arrived)
    BY <1>5, <1>6, <2>1, <2>2
  <2> QED
    BY <2>1, <2>2, <2>3
<1>10. ASSUME NEW i \in 1 .. Len(results'), NEW k \in 1 .. Len(results'), i < k,
              NEW a \in 1 .. Len(arrived), NEW b \in 1 .. Len(arrived),
              arrived[a] = results'[i], arrived[b] = results'[k]
       PROVE  a < b
  <2>1. i + 1 < k + 1
    BY <1>10, <1>2
  <2> QED
    BY <1>2, <1>3, <1>4, <1>10, <2>1
<1> QED
  BY <1>0, <1>1, <1>8, <1>9, <1>10 DEF ResultsInv

(* CancelAll changes no order.                                             *)
LEMMA CancelOrder ==
    ASSUME ResultsInv, CancelAll
    PROVE  ResultsInv'
  BY DEF ResultsInv, CancelAll

(* The other steps leave the result queue alone.                           *)
LEMMA QuietOrder ==
    ASSUME ResultsInv, UNCHANGED <<results, arrived>>, TakenCount' = TakenCount,
           \A i \in 1 .. Len(results) : ops'[results[i]] = ops[results[i]],
           stop \in {"cancel", "down"} => stop' \in {"cancel", "down"},
           stop' # "up" => pass' = "idle"
    PROVE  ResultsInv'
  BY DEF ResultsInv

(* Update works only while the server is up.                               *)
LEMMA PassKept ==
    ASSUME ResultsInv, [Next]_vars
    PROVE  stop' # "up" => pass' = "idle"
<1>1. stop # "up" => pass = "idle"
  BY DEF ResultsInv
<1>2. CASE \E t \in Threads, shape \in Shapes : Handed(t, shape)
  BY <1>1, <1>2, HandedKinds DEF halt, result
<1>3. CASE \E w \in Workers : Work(w)
  BY <1>1, <1>3, WorkKinds DEF halt
<1>4. CASE Elsewhere
  BY <1>1, <1>4 DEF Elsewhere, AllowAsyncTransactions, StopServer,
     BeginTransaction, DelayExecute, RollbackTransaction, Update, BeginUpdate, TakeResult,
     StartPool, UnsafeCallback, EndUnsafe, EndUpdate, PoolCallback, Halt, StopThread,
     JoinThread, ClearBodies, CancelAll, vars, result, halt
<1> QED
  BY <1>2, <1>3, <1>4, StepKinds

(* Every step keeps CallbackInv.                                           *)
LEMMA CallbackKept == TypeOK /\ QueueInv /\ CallbackInv /\ [Next]_vars => CallbackInv'
<1> SUFFICES ASSUME TypeOK, QueueInv, CallInv, TakenInv, ResultsInv, [Next]_vars
             PROVE  CallInv' /\ TakenInv' /\ ResultsInv'
  BY DEF CallbackInv
<1>1. /\ stop' # "up" => pass' = "idle"
      /\ stop \in {"cancel", "down"} => stop' \in {"cancel", "down"}
  BY PassKept, CallKinds
<1>2. ASSUME NEW t \in Threads, NEW shape \in Shapes, Handed(t, shape)
      PROVE  CallInv' /\ TakenInv' /\ ResultsInv'
  <2>1. Issue(shape)
    BY <1>2, HandedKinds DEF AddShared, AddSerial, AddDirect
  <2>2. \A id \in Ids : ops'[id] = ops[id]
    BY <2>1, TypeParts, IssueTypes
  <2>3. UNCHANGED <<results, arrived, unsafeWaiting, unsafeCalled>>
    BY <1>2, HandedKinds DEF result
  <2>4. ResultsInv'
    BY <1>1, <2>2, <2>3, CallSets, QuietOrder DEF TakenCount
  <2> QED
    BY <1>2, <2>4, HandedCalls
<1>3. ASSUME NEW w \in Workers, PerformWrite(w) PROVE CallInv' /\ TakenInv' /\ ResultsInv'
  <2>1. ResultsInv'
    BY <1>1, <1>3, QuietOrder DEF PerformWrite, TakenCount, result
  <2> QED
    BY <1>3, <2>1, WriteCalls
<1>4. ASSUME NEW w \in Workers, AddResult(w) PROVE CallInv' /\ TakenInv' /\ ResultsInv'
  BY <1>4, ResultCalls, AddResultOrder
<1>5. CASE TakeResult
  BY <1>5, TakeCalls, TakeResultOrder
<1>6. CASE PoolCallback
  <2>1. ResultsInv'
    BY <1>1, <1>6, QuietOrder DEF PoolCallback, TakenCount
  <2> QED
    BY <1>6, <2>1, PoolCalls
<1>7. CASE UnsafeCallback
  <2>1. TakenCount' = TakenCount
    <3>1. /\ Len(unsafeWaiting) \in Nat \ {0} /\ Len(unsafeWaiting') = Len(unsafeWaiting) - 1
          /\ Len(unsafeCalled') = Len(unsafeCalled) + 1 /\ Len(unsafeCalled) \in Nat
      BY <1>7, CallSets, HeadTailProperties, EmptySeq, AppendProperties DEF UnsafeCallback
    <3> QED
      BY <3>1 DEF TakenCount
  <2>2. ResultsInv'
    BY <1>1, <1>7, <2>1, QuietOrder DEF UnsafeCallback
  <2> QED
    BY <1>7, <2>2, UnsafeCalls
<1>8. CASE CancelAll
  BY <1>8, CancelCalls, CancelOrder
<1>9. CASE QuietCalls
  <2>1. ResultsInv'
    BY <1>1, <1>9, QuietOrder DEF QuietCalls, TakenCount
  <2>2. CallInv' /\ TakenInv'
    BY <1>9 DEF QuietCalls, CallInv, TakenInv, TakenCount, HasResult
  <2> QED
    BY <2>1, <2>2
<1> QED
  BY <1>2, <1>3, <1>4, <1>5, <1>6, <1>7, <1>8, <1>9, CallKinds

(* There are no results at the start.                                      *)
LEMMA CallbackInitially == Init => CallbackInv
<1> SUFFICES ASSUME Init PROVE CallbackInv
  OBVIOUS
<1>1. /\ ended = <<>> /\ results = <<>> /\ unsafeWaiting = <<>> /\ arrived = <<>>
      /\ unsafeCalled = <<>> /\ batch = {} /\ called = {} /\ pass = "idle"
  BY DEF Init
<1>2. Len(<<>>) = 0 /\ 1 .. 0 = {} /\ 0 + 0 = 0 /\ 0 + 1 .. 0 = {} /\ 0 <= 0
  OBVIOUS
<1>3. Elements(<<>>) = {} /\ Distinct(<<>>)
  BY <1>2 DEF Elements, Distinct
<1> QED
  BY <1>1, <1>2, <1>3 DEF CallbackInv, CallInv, TakenInv, ResultsInv, TakenCount

(* CallbackInv holds in every state of every behaviour.                    *)
LEMMA CallbackAlways == Spec => []CallbackInv
  BY CallbackInitially, CallbackKept, DelayTypes, QueueAlways, PTL DEF Spec

(* Unsafe callbacks run in the order in which their results arrived, for   *)
(* any number of passes that the budget or the timeout of                  *)
(* SqlResultQueue::Update cut short.                                       *)
THEOREM UnsafeRunInOrder == Spec => []UnsafeInOrder
<1>1. CallbackInv => UnsafeInOrder
  BY DEF CallbackInv, TakenInv, UnsafeInOrder
<1> QED
  BY <1>1, CallbackAlways, PTL

(* The callback of a result is in one place until it runs, and runs once,  *)
(* whether Update, the callback pool or CancelAll runs it.                 *)
THEOREM CallbacksRunOnce == Spec => []CallbackOnce
<1>1. TypeOK /\ QueueInv /\ CallbackInv => CallbackOnce
  <2> SUFFICES ASSUME TypeOK, QueueInv, CallInv, NEW id \in Ids, HasResult(id)
               PROVE  Times(id, results) + Times(id, unsafeWaiting)
                      + Cardinality(batch \cap {id}) + Cardinality(called \cap {id})
                      = Times(id, ended)
    BY DEF CallbackOnce, CallbackInv, HasResult
  <2>1. /\ Times(id, results) = IF id \in Elements(results) THEN 1 ELSE 0
        /\ Times(id, unsafeWaiting) = IF id \in Elements(unsafeWaiting) THEN 1 ELSE 0
        /\ Times(id, ended) = IF id \in Elements(ended) THEN 1 ELSE 0
    BY Sets, CallSets, TimesDistinct DEF CallInv, QueueInv, CoverInv
  <2>2. ASSUME NEW S PROVE Cardinality(S \cap {id}) = IF id \in S THEN 1 ELSE 0
    <3>1. CASE id \in S
      <4>1. S \cap {id} = {id}
        BY <3>1
      <4> QED
        BY <3>1, <4>1, FS_Singleton
    <3>2. CASE id \notin S
      <4>1. S \cap {id} = {}
        BY <3>2
      <4> QED
        BY <3>2, <4>1, FS_EmptySet
    <3> QED
      BY <3>1, <3>2
  <2>3. /\ Cardinality(batch \cap {id}) = IF id \in batch THEN 1 ELSE 0
        /\ Cardinality(called \cap {id}) = IF id \in called THEN 1 ELSE 0
    BY <2>2
  <2>4. /\ id \in Elements(results) => /\ id \notin Elements(unsafeWaiting) /\ id \notin batch
                                       /\ id \notin called /\ id \in Elements(ended)
        /\ id \in Elements(unsafeWaiting) => id \notin batch /\ id \notin called /\ id \in Elements(ended)
        /\ id \in batch => id \notin called /\ id \in Elements(ended)
        /\ id \in called => id \in Elements(ended)
        /\ id \in Elements(ended) => \/ id \in Elements(results) \/ id \in Elements(unsafeWaiting)
                                     \/ id \in batch \/ id \in called
    BY DEF CallInv
  <2> QED
    BY <2>1, <2>3, <2>4
<1> QED
  BY <1>1, DelayTypes, QueueAlways, CallbackAlways, PTL
=============================================================================
