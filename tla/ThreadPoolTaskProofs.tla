------------------------- MODULE ThreadPoolTaskProofs -------------------------
(***************************************************************************)
(* Every task of a workload runs exactly once before the future resolves,  *)
(* no task runs in two workloads, and ThreadPool implements TaskBarrier:   *)
(* proofs for any number of workers and tasks and for both worker types.   *)
(*                                                                         *)
(* Positions are counted from 0 as in the code; task[w] and runs count     *)
(* from 1.                                                                 *)
(***************************************************************************)
EXTENDS ThreadPoolProofs, Integers

(* The position was given to a worker: m_index is past it, or the stride   *)
(* of the MultiQueue worker that owns it.                                  *)
Taken(j) == j < IF mode.queue = "SingleQueue" THEN m_index ELSE it[j % m_size]

(* The worker is one that may come to the position.                        *)
Reaches(w, j) == mode.queue = "MultiQueue" => w = j % m_size

Positions == 0 .. Len(runs) - 1

(* The workers have the workload and did not give it back.                 *)
Sharing == owner = "waiting" /\ m_result = "unset" /\ m_status # "READY"

(* A MultiQueue worker with work to do stays on its residue.               *)
StrideInv ==
    Sharing /\ mode.queue = "MultiQueue" =>
        \A w \in Workers : busy[w] => it[w] % m_size = w

(* A position nobody took did not run; one that was taken has run or is    *)
(* being run, unless an exception terminated the pool.                     *)
TakenInv ==
    Sharing => \A j \in Positions :
        /\ ~Taken(j) => runs[j + 1] = 0
        /\ Taken(j) /\ m_status = "PROCESSING" =>
              \/ runs[j + 1] = 1
              \/ \E w \in Workers : pc[w] = "exec" /\ task[w] = j + 1

(* A task being run was taken, did not run before, and has one worker.     *)
ExecInv ==
    Sharing => \A w \in Workers : pc[w] = "exec" =>
        /\ task[w] \in 1 .. Len(runs) /\ Taken(task[w] - 1)
        /\ runs[task[w]] = 0
        /\ \A v \in Workers : pc[v] = "exec" /\ task[v] = task[w] => v = w

(* A position nobody took has a busy worker that will come to it.          *)
CoverInv ==
    Sharing /\ m_status = "PROCESSING" => \A j \in Positions :
        Taken(j) \/ \E w \in Workers : busy[w] /\ pc[w] # "post" /\ Reaches(w, j)

(* Before the workers know of the workload nothing has run; when they give *)
(* it back everything has.                                                 *)
EndsInv ==
    /\ m_result = "none" => runs = <<>>
    /\ owner = "publish" => m_index = 0 /\ \A i \in 1 .. Len(runs) : runs[i] = 0
    /\ m_result = "set" \/ (owner = "waiting" /\ m_status = "READY") =>
          \A i \in 1 .. Len(runs) : runs[i] = 1

(* The tasks of the workload are different ones, known to submitted, and    *)
(* their executions over all workloads are those in the current one;       *)
(* between two workloads, either none of them ran or clearWorkload is due. *)
FreshInv ==
    mode.clear # "NEVER" =>
        /\ \A t \in 1 .. MaxTasks : execs[t] <= 1 /\ (t > submitted => execs[t] = 0)
        /\ \A i \in 1 .. Len(m_workload) : m_workload[i] <= submitted
        /\ \A i, j \in 1 .. Len(m_workload) :
              m_workload[i] = m_workload[j] => i = j
        /\ m_status = "PROCESSING" => m_dirty
        /\ m_status \in {"STOPPED", "READY"} =>
              IF m_dirty THEN mode.clear = "AT_NEXT_WORKLOAD"
              ELSE \A i \in 1 .. Len(m_workload) : execs[m_workload[i]] = 0
        /\ owner = "publish" \/ Sharing =>
              \A i \in 1 .. Len(m_workload) : execs[m_workload[i]] = runs[i]

TaskInv ==
    /\ StrideInv /\ TakenInv /\ ExecInv /\ CoverInv /\ EndsInv
    /\ \A i \in 1 .. Len(runs) : runs[i] \in {0, 1}

-----------------------------------------------------------------------------
(* The tuples of variables that actions leave alone are abbreviations.     *)
USE DEF load, hist, count, flow, Goto

(* Division with remainder.                                                *)

(* A remainder is smaller than the divisor.                                *)
LEMMA ModRange ==
  ASSUME NEW m \in Nat \ {0}, NEW a \in Nat
  PROVE  a % m \in 0 .. m - 1
  OBVIOUS

(* The remainder of a smaller number is the number.                        *)
LEMMA ModSmall ==
  ASSUME NEW m \in Nat \ {0}, NEW a \in Nat, a < m
  PROVE  a % m = a
  OBVIOUS

(* Quotient and remainder make up the number.                              *)
LEMMA ModSplit ==
  ASSUME NEW m \in Nat \ {0}, NEW a \in Nat
  PROVE  a \div m \in Nat /\ a % m = a - m * (a \div m)
  OBVIOUS

(* Moving on by the divisor keeps the remainder: the stride of worker_mq.  *)
LEMMA ModStep ==
  ASSUME NEW m \in Nat \ {0}, NEW a \in Nat
  PROVE  (a + m) % m = a % m
<1> DEFINE q == a \div m
           r == a % m
<1>1. q \in Nat /\ r = a - m * q /\ r \in 0 .. m - 1
  BY ModSplit, ModRange
<1>2. \A b \in Nat, k \in Nat, c \in Nat : b = m * k + c /\ c < m => b % m = c
  OBVIOUS
<1>3. a + m = m * (q + 1) + r
  BY <1>1
<1> HIDE DEF q, r
<1>4. a + m \in Nat /\ q + 1 \in Nat /\ r \in Nat /\ r < m
  BY <1>1
<1>5. (a + m) % m = r
  BY <1>2, <1>3, <1>4, Zenon
<1> QED
  BY <1>5 DEF r

(* Two numbers with the same remainder are equal or a divisor apart.       *)
LEMMA ModSame ==
  ASSUME NEW m \in Nat \ {0}, NEW a \in Nat, NEW b \in Nat,
         a % m = b % m, a <= b, b < a + m
  PROVE  a = b
<1> DEFINE q == b \div m - a \div m
<1>1. q \in Int /\ b - a = m * q
  BY ModSplit
<1> HIDE DEF q
<1>2. CASE q <= 0
  BY <1>1, <1>2
<1>3. CASE q >= 1
  <2>1. m * q >= m
    BY <1>1, <1>3
  <2> QED
    BY <1>1, <2>1
<1> QED
  BY <1>1, <1>2, <1>3

-----------------------------------------------------------------------------
(* Init has no workload.                                                   *)
LEMMA TaskInit == Init => TaskInv
<1> SUFFICES ASSUME Init PROVE TaskInv
  OBVIOUS
<1>1. Len(runs) = 0
  BY DEF Init
<1> QED
  BY <1>1 DEF Init, TaskInv, StrideInv, TakenInv, ExecInv, CoverInv, EndsInv,
     Sharing

(* Steps that take no task, run none and keep busy workers on their way.   *)
LEMMA TaskFrame ==
  ASSUME TaskInv,
         UNCHANGED <<mode, m_index, it, runs, task, owner, m_result>>,
         m_status' = m_status \/ (m_status' = "TERMINATING" /\ m_status # "READY"),
         \A w \in Workers : pc'[w] = "exec" <=> pc[w] = "exec",
         \A w \in Workers : busy[w] /\ pc[w] # "post" =>
                                busy'[w] /\ pc'[w] # "post",
         \A w \in Workers : busy'[w] => busy[w]
  PROVE  TaskInv'
<1>1. \A j : Taken(j)' <=> Taken(j)
  BY DEF Taken
<1>2. \A w, j : Reaches(w, j)' <=> Reaches(w, j)
  BY DEF Reaches
<1>3. Positions' = Positions
  BY DEF Positions
<1>4. StrideInv'
  BY DEF TaskInv, StrideInv, Sharing
<1>8. EndsInv'
  BY DEF TaskInv, EndsInv
<1>5. TakenInv'
  BY <1>1, <1>3 DEF TaskInv, TakenInv, Sharing
<1>6. ExecInv'
  BY <1>1 DEF TaskInv, ExecInv, Sharing
<1>7. CoverInv'
  BY <1>1, <1>2, <1>3 DEF TaskInv, CoverInv, Sharing
<1> QED
  BY <1>4, <1>5, <1>6, <1>7, <1>8 DEF TaskInv

(* The worker steps between two tasks.                                     *)
LEMMA TaskQuietSteps ==
  ASSUME ProtocolInv, TaskInv, NEW w \in Workers,
         \/ WaitForWork(w) \/ SpuriousWakeup(w) \/ LoopTop(w) \/ ReadErrors(w)
         \/ PushError(w) \/ LeaveLoop(w) \/ ClearBusy(w) \/ DecrementActive(w)
  PROVE  TaskInv'
<1>1. UNCHANGED <<mode, m_index, it, runs, task, owner, m_result>>
  BY DEF WaitForWork, SpuriousWakeup, LoopTop, ReadErrors, PushError, LeaveLoop,
         ClearBusy, DecrementActive
<1>2. m_status' = m_status \/ (m_status' = "TERMINATING" /\ m_status # "READY")
  <2>1. pc[w] = "leave" => m_status # "READY"
    BY DEF ProtocolInv, TypeOK, BusyInv, IdleInv, PublishInv, RunningInv,
           ResolvedInv, JoinInv, GoneInv, Idling, Counted
  <2> QED
    BY <2>1 DEF WaitForWork, SpuriousWakeup, LoopTop, ReadErrors, PushError,
                LeaveLoop, ClearBusy, DecrementActive
<1>3. pc \in [Workers -> Labels] /\ busy \in [Workers -> BOOLEAN]
  BY DEF ProtocolInv, TypeOK
<1>4. \A v \in Workers : pc'[v] = "exec" <=> pc[v] = "exec"
  BY <1>3 DEF WaitForWork, SpuriousWakeup, LoopTop, ReadErrors, PushError,
         LeaveLoop, ClearBusy, DecrementActive
<1>5. \A v \in Workers : busy[v] /\ pc[v] # "post" => busy'[v] /\ pc'[v] # "post"
  BY <1>3 DEF WaitForWork, SpuriousWakeup, LoopTop, ReadErrors, PushError,
         LeaveLoop, ClearBusy, DecrementActive
<1>6. \A v \in Workers : busy'[v] => busy[v]
  BY <1>3 DEF WaitForWork, SpuriousWakeup, LoopTop, ReadErrors, PushError,
         LeaveLoop, ClearBusy, DecrementActive
<1> QED
  BY <1>1, <1>2, <1>4, <1>5, <1>6, TaskFrame
-----------------------------------------------------------------------------
(* A worker inside the workload shares it.                                 *)
LEMMA WorkerShares ==
  ASSUME ProtocolInv, NEW w \in Workers,
         pc[w] \in {"work", "exec", "record", "push", "post", "dec", "last"}
  PROVE  /\ Sharing /\ Len(runs) = Len(m_workload)
         /\ pc[w] \in {"exec", "record", "push"} => task[w] \in 1 .. Len(runs)
<1>1. owner = "waiting" /\ m_result = "unset"
  BY WorkerOwner
<1>2. m_status # "READY"
  BY <1>1 DEF ProtocolInv, RunningInv, Idling
<1> QED
  BY <1>1, <1>2 DEF ProtocolInv, RunningInv, Sharing

(* There is a worker, so positions have a residue, which names a worker.   *)
LEMMA Residues ==
  ASSUME ProtocolInv, NEW w \in Workers
  PROVE  /\ m_size \in Nat \ {0}
         /\ \A j \in Nat : j % m_size \in Workers /\ j % m_size <= j
         /\ w \in Nat /\ w < m_size /\ w % m_size = w
<1>1. m_size \in Nat \ {0} /\ w \in Nat /\ w < m_size
  BY PoolAssumption DEF Workers
<1>2. ASSUME NEW j \in Nat PROVE j % m_size \in Workers /\ j % m_size <= j
  <2>1. j % m_size \in 0 .. m_size - 1
    BY <1>1, ModRange
  <2>2. CASE j < m_size
    BY <1>1, <2>1, <2>2, ModSmall DEF Workers
  <2>3. CASE ~(j < m_size)
    BY <1>1, <2>1, <2>3 DEF Workers
  <2> QED
    BY <2>2, <2>3
<1> QED
  BY <1>1, <1>2, ModSmall

(* What taking a task does to the positions: exactly one becomes taken.    *)
LEMMA TakeOne ==
  ASSUME ProtocolInv, TaskInv, NEW w \in Workers, DoWork(w), TakeTask(w)
  PROVE  /\ NextIndex(w) \in Positions
         /\ \A j \in Positions :
               /\ j = NextIndex(w) => ~Taken(j) /\ Taken(j)'
               /\ j # NextIndex(w) => (Taken(j)' <=> Taken(j))
<1>1. Sharing /\ Len(runs) = Len(m_workload) /\ pc[w] = "work" /\ busy[w]
  BY WorkerShares DEF DoWork, ProtocolInv, BusyInv
<1>2. /\ m_index \in Nat /\ it \in [Workers -> Nat] /\ runs \in Seq(Nat)
      /\ mode.queue \in {"SingleQueue", "MultiQueue"}
  BY PoolAssumption DEF ProtocolInv, TypeOK
<1>3. Len(runs) \in Nat /\ UNCHANGED <<mode, runs>>
  BY <1>2 DEF DoWork
<1>4. NextIndex(w) \in Positions
  BY <1>1, <1>2, <1>3 DEF Positions, TakeTask, NextIndex
<1>5. CASE mode.queue = "SingleQueue"
  <2>1. m_index' = m_index + 1 /\ NextIndex(w) = m_index
    BY <1>5 DEF DoWork, NextIndex
  <2>2. \A j : (Taken(j) <=> j < m_index) /\ (Taken(j)' <=> j < m_index + 1)
    BY <1>3, <1>5, <2>1 DEF Taken
  <2> QED
    BY <1>2, <1>3, <1>4, <2>1, <2>2 DEF Positions
<1>6. CASE mode.queue = "MultiQueue"
  <2>1. NextIndex(w) = it[w] /\ it' = [it EXCEPT ![w] = it[w] + m_size]
    BY <1>6 DEF DoWork, NextIndex, Stride
  <2>2. it[w] % m_size = w
    BY <1>1, <1>6 DEF TaskInv, StrideInv
  <2>3. m_size \in Nat \ {0} /\ \A j \in Nat : j % m_size \in Workers
    BY Residues
  <2>4. \A j : (Taken(j) <=> j < it[j % m_size])
               /\ (Taken(j)' <=> j < it'[j % m_size])
    BY <1>3, <1>6 DEF Taken
  <2>5. it[w] \in Nat /\ it'[w] = it[w] + m_size
    BY <1>2, <2>1
  <2>6. \A j : j = it[w] => ~Taken(j) /\ Taken(j)'
    BY <2>2, <2>3, <2>4, <2>5
  <2>7. ASSUME NEW j \in Positions, j # it[w] PROVE Taken(j)' <=> Taken(j)
    <3>1. j \in Nat
      BY <1>3, <2>7 DEF Positions
    <3>2. CASE j % m_size = w
      <4>1. (Taken(j) <=> j < it[w]) /\ (Taken(j)' <=> j < it[w] + m_size)
        BY <2>4, <2>5, <3>2
      <4>2. ~(it[w] <= j /\ j < it[w] + m_size)
        BY <2>2, <2>3, <2>5, <2>7, <3>1, <3>2, ModSame
      <4> QED
        BY <2>3, <2>5, <3>1, <4>1, <4>2
    <3>3. CASE j % m_size # w
      <4>1. it'[j % m_size] = it[j % m_size]
        BY <1>2, <2>1, <2>3, <3>1, <3>3
      <4> QED
        BY <2>4, <4>1
    <3> QED
      BY <3>2, <3>3
  <2> QED
    BY <1>4, <2>1, <2>6, <2>7
<1> QED
  BY <1>2, <1>5, <1>6

(* A worker takes a task nobody took.                                      *)
LEMMA TaskTaken ==
  ASSUME ProtocolInv, TaskInv, NEW w \in Workers, DoWork(w), TakeTask(w)
  PROVE  TaskInv'
<1> PICK n : n = NextIndex(w)
  OBVIOUS
<1>1. /\ n \in Positions /\ ~Taken(n) /\ Taken(n)'
      /\ \A j \in Positions : j # n => (Taken(j)' <=> Taken(j))
  BY TakeOne
<1>2. /\ Sharing /\ busy[w] /\ pc[w] = "work" /\ m_status = "PROCESSING"
      /\ Len(runs) = Len(m_workload)
  BY WorkerShares DEF DoWork, ProtocolInv, BusyInv, TakeTask
<1>3. /\ UNCHANGED <<mode, m_status, m_result, busy, owner, runs>>
      /\ pc' = [pc EXCEPT ![w] = "exec"] /\ task' = [task EXCEPT ![w] = n + 1]
  BY DEF DoWork
<1>4. /\ pc \in [Workers -> Labels] /\ task \in [Workers -> Nat]
      /\ runs \in Seq(Nat) /\ it \in [Workers -> Nat] /\ Len(runs) \in Nat
  BY DEF ProtocolInv, TypeOK
<1>5. Sharing' /\ Positions' = Positions
  BY <1>2, <1>3 DEF Sharing, Positions
<1>6. n \in Nat /\ n + 1 \in 1 .. Len(runs) /\ \A j \in Positions : j \in Nat
  BY <1>1, <1>4 DEF Positions
<1>7. runs[n + 1] = 0
  BY <1>1, <1>2 DEF TaskInv, TakenInv
<1>8. StrideInv'
  <2> SUFFICES ASSUME mode.queue = "MultiQueue", NEW v \in Workers, busy[v]
               PROVE  it'[v] % m_size = v
    BY <1>3 DEF StrideInv
  <2>1. it[v] % m_size = v
    BY <1>2 DEF TaskInv, StrideInv
  <2>2. it' = [it EXCEPT ![w] = it[w] + m_size]
    BY DEF DoWork, Stride
  <2>3. CASE v = w
    BY <1>4, <2>1, <2>2, <2>3, ModStep, Residues
  <2>4. CASE v # w
    BY <1>4, <2>1, <2>2, <2>4
  <2> QED
    BY <2>3, <2>4
<1>9. TakenInv'
  <2> SUFFICES ASSUME NEW j \in Positions
               PROVE  /\ ~Taken(j)' => runs[j + 1] = 0
                      /\ Taken(j)' => \/ runs[j + 1] = 1
                                      \/ \E v \in Workers : pc'[v] = "exec"
                                                            /\ task'[v] = j + 1
    BY <1>3, <1>5 DEF TakenInv
  <2>1. CASE j = n
    BY <1>1, <1>3, <1>4, <2>1
  <2>2. CASE j # n
    <3>1. Taken(j)' <=> Taken(j)
      BY <1>1, <2>2
    <3>2. /\ ~Taken(j) => runs[j + 1] = 0
          /\ Taken(j) => \/ runs[j + 1] = 1
                         \/ \E v \in Workers : pc[v] = "exec" /\ task[v] = j + 1
      BY <1>2 DEF TaskInv, TakenInv
    <3>3. \A v \in Workers : pc[v] = "exec" => pc'[v] = "exec" /\ task'[v] = task[v]
      BY <1>2, <1>3, <1>4
    <3> QED
      BY <3>1, <3>2, <3>3
  <2> QED
    BY <2>1, <2>2
<1>10. ExecInv'
  <2>1. \A v \in Workers \ {w} : pc'[v] = pc[v] /\ task'[v] = task[v]
    BY <1>3, <1>4
  <2>2. pc'[w] = "exec" /\ task'[w] = n + 1
    BY <1>3, <1>4
  <2>3. ASSUME NEW v \in Workers \ {w}, pc[v] = "exec"
        PROVE  /\ task[v] \in 1 .. Len(runs) /\ Taken(task[v] - 1)
               /\ task[v] - 1 \in Positions /\ task[v] # n + 1
               /\ runs[task[v]] = 0
               /\ \A j : j = task[v] - 1 => Taken(j)'
    <3>1. task[v] \in 1 .. Len(runs) /\ Taken(task[v] - 1) /\ runs[task[v]] = 0
      BY <1>2, <2>3 DEF TaskInv, ExecInv
    <3>2. task[v] - 1 \in Positions
      BY <1>4, <3>1 DEF Positions
    <3>3. task[v] - 1 # n
      BY <1>1, <3>1
    <3>4. task[v] # n + 1
      BY <1>4, <1>6, <3>3
    <3> QED
      BY <1>1, <3>1, <3>2, <3>3, <3>4
  <2>4. \A u, v \in Workers \ {w} :
           pc[u] = "exec" /\ pc[v] = "exec" /\ task[v] = task[u] => v = u
    BY <1>2 DEF TaskInv, ExecInv
  <2>5. (n + 1) - 1 = n
    BY <1>6
  <2> SUFFICES ASSUME NEW u \in Workers, pc'[u] = "exec"
               PROVE  /\ task'[u] \in 1 .. Len(runs) /\ Taken(task[u] - 1)'
                      /\ runs[task'[u]] = 0
                      /\ \A v \in Workers : pc'[v] = "exec"
                            /\ task'[v] = task'[u] => v = u
    BY <1>3 DEF ExecInv
  <2>6. CASE u = w
    <3>1. Taken(task[u] - 1)'
      <4>1. \A j : j = n => Taken(j)'
        BY <1>1
      <4>2. task'[u] - 1 = n
        BY <2>2, <2>5, <2>6
      <4> QED
        BY <4>1, <4>2
    <3> QED
      BY <1>6, <1>7, <2>1, <2>2, <2>3, <2>6, <3>1
  <2>7. CASE u # w
    <3>1. Taken(task[u] - 1)'
      BY <2>1, <2>3, <2>7
    <3> QED
      BY <2>1, <2>2, <2>3, <2>4, <2>7, <3>1
  <2> QED
    BY <2>6, <2>7
<1>11. CoverInv'
  <2> SUFFICES ASSUME NEW j \in Positions
               PROVE  Taken(j)' \/ \E v \in Workers :
                          busy[v] /\ pc'[v] # "post" /\ Reaches(v, j)'
    BY <1>3, <1>5 DEF CoverInv
  <2>1. Taken(j) \/ \E v \in Workers : busy[v] /\ pc[v] # "post" /\ Reaches(v, j)
    BY <1>2 DEF TaskInv, CoverInv
  <2>2. \A v : Reaches(v, j)' <=> Reaches(v, j)
    BY <1>3 DEF Reaches
  <2>3. \A v \in Workers : pc[v] # "post" => pc'[v] # "post"
    BY <1>3, <1>4
  <2> QED
    BY <1>1, <2>1, <2>2, <2>3
<1>12. EndsInv'
  BY <1>2, <1>3 DEF TaskInv, EndsInv, Sharing
<1> QED
  BY <1>3, <1>8, <1>9, <1>10, <1>11, <1>12 DEF TaskInv

(* A worker finds nothing to take: what it could have come to was taken.   *)
LEMMA TaskSkipped ==
  ASSUME ProtocolInv, TaskInv, NEW w \in Workers, DoWork(w), ~TakeTask(w)
  PROVE  TaskInv'
<1>1. Sharing /\ Len(runs) = Len(m_workload) /\ pc[w] = "work"
  BY WorkerShares DEF DoWork
<1>2. /\ UNCHANGED <<mode, m_status, m_result, busy, owner, runs, it, task>>
      /\ pc' = [pc EXCEPT ![w] = "post"]
      /\ m_index' = IF mode.queue = "SingleQueue" THEN m_index + 1 ELSE m_index
  BY DEF DoWork
<1>3. /\ pc \in [Workers -> Labels] /\ m_index \in Nat /\ runs \in Seq(Nat)
      /\ it \in [Workers -> Nat] /\ Len(runs) \in Nat
      /\ mode.queue \in {"SingleQueue", "MultiQueue"}
  <2>1. mode.queue \in Queues
    BY DEF ProtocolInv, TypeOK
  <2>2. mode.queue \in {"SingleQueue", "MultiQueue"}
    BY <2>1, PoolAssumption
  <2> QED
    BY <2>2 DEF ProtocolInv, TypeOK
<1>4. Sharing' /\ Positions' = Positions
  BY <1>1, <1>2 DEF Sharing, Positions
<1>5. \A j \in Nat : Taken(j) => Taken(j)'
  <2>1. \A j \in Nat : j < m_index => j < m_index + 1
    BY <1>3
  <2> QED
    BY <1>2, <2>1 DEF Taken
<1>6. ASSUME m_status = "PROCESSING"
      PROVE  /\ \A j \in Positions : Taken(j)' => Taken(j)
             /\ \A j \in Positions : Reaches(w, j) => Taken(j)
  <2>1. NextIndex(w) \in Nat /\ NextIndex(w) >= Len(runs)
    BY <1>1, <1>3, <1>6 DEF TakeTask, NextIndex
  <2>2. CASE mode.queue = "SingleQueue"
    <3>1. \A j \in Positions : j < m_index
      BY <1>3, <2>1, <2>2 DEF NextIndex, Positions
    <3> QED
      BY <2>2, <3>1 DEF Taken
  <2>3. CASE mode.queue = "MultiQueue"
    <3>1. \A j \in Positions : j < it[w]
      BY <1>3, <2>1, <2>3 DEF NextIndex, Positions
    <3>2. mode'.queue # "SingleQueue" /\ mode.queue # "SingleQueue"
      BY <1>2, <2>3
    <3> QED
      BY <1>2, <2>3, <3>1, <3>2 DEF Taken, Reaches
  <2> QED
    BY <1>3, <2>2, <2>3
<1>7. \A j \in Positions : j \in Nat
  BY <1>3 DEF Positions
<1>8. \A v \in Workers : v # w => pc'[v] = pc[v]
  BY <1>2, <1>3
<1>9. pc'[w] = "post"
  BY <1>2, <1>3
<1>10. StrideInv'
  BY <1>1, <1>2 DEF TaskInv, StrideInv
<1>11. TakenInv'
  <2> SUFFICES ASSUME NEW j \in Positions
               PROVE  /\ ~Taken(j)' => runs[j + 1] = 0
                      /\ Taken(j)' /\ m_status = "PROCESSING" =>
                            \/ runs[j + 1] = 1
                            \/ \E v \in Workers : pc'[v] = "exec"
                                                  /\ task[v] = j + 1
    BY <1>2, <1>4 DEF TakenInv
  <2>1. /\ ~Taken(j) => runs[j + 1] = 0
        /\ Taken(j) /\ m_status = "PROCESSING" =>
              \/ runs[j + 1] = 1
              \/ \E v \in Workers : pc[v] = "exec" /\ task[v] = j + 1
    BY <1>1 DEF TaskInv, TakenInv
  <2>2. \A v \in Workers : pc[v] = "exec" => pc'[v] = "exec"
    BY <1>1, <1>8
  <2> QED
    BY <1>5, <1>6, <1>7, <2>1, <2>2
<1>12. ExecInv'
  <2> SUFFICES ASSUME NEW u \in Workers, pc'[u] = "exec"
               PROVE  /\ task[u] \in 1 .. Len(runs)
                      /\ \A j : j = task[u] - 1 => Taken(j)'
                      /\ runs[task[u]] = 0
                      /\ \A v \in Workers : pc'[v] = "exec"
                            /\ task[v] = task[u] => v = u
    BY <1>2 DEF ExecInv
  <2>1. \A v \in Workers : pc'[v] = "exec" => pc[v] = "exec"
    BY <1>8, <1>9
  <2>2. /\ task[u] \in 1 .. Len(runs) /\ Taken(task[u] - 1)
        /\ runs[task[u]] = 0
        /\ \A v \in Workers : pc[v] = "exec" /\ task[v] = task[u] => v = u
    BY <1>1, <2>1 DEF TaskInv, ExecInv
  <2>3. task[u] - 1 \in Nat
    BY <1>3, <2>2
  <2> QED
    BY <1>5, <2>1, <2>2, <2>3
<1>13. CoverInv'
  <2> SUFFICES ASSUME m_status = "PROCESSING", NEW j \in Positions
               PROVE  Taken(j)' \/ \E v \in Workers :
                          busy[v] /\ pc'[v] # "post" /\ Reaches(v, j)'
    BY <1>2, <1>4 DEF CoverInv
  <2>1. Taken(j) \/ \E v \in Workers : busy[v] /\ pc[v] # "post" /\ Reaches(v, j)
    BY <1>1 DEF TaskInv, CoverInv
  <2>2. \A v : Reaches(v, j)' <=> Reaches(v, j)
    BY <1>2 DEF Reaches
  <2> QED
    BY <1>5, <1>6, <1>7, <1>8, <2>1, <2>2
<1>14. EndsInv'
  BY <1>1, <1>2 DEF TaskInv, EndsInv, Sharing
<1> QED
  BY <1>2, <1>10, <1>11, <1>12, <1>13, <1>14 DEF TaskInv

(* A task is counted once: by the worker that took it.                     *)
LEMMA CountOnce ==
  ASSUME ProtocolInv, TaskInv, NEW w \in Workers, pc[w] = "exec", CountRun(w)
  PROVE  /\ Sharing /\ task[w] \in 1 .. Len(runs) /\ runs[task[w]] = 0
         /\ Len(runs') = Len(runs) /\ runs' \in Seq(Nat)
         /\ \A i \in 1 .. Len(runs) :
               runs'[i] = IF i = task[w] THEN 1 ELSE runs[i]
<1>1. Sharing
  BY WorkerShares
<1>2. task[w] \in 1 .. Len(runs) /\ runs[task[w]] = 0
  BY <1>1 DEF TaskInv, ExecInv
<1>3. runs \in Seq(Nat)
  BY DEF ProtocolInv, TypeOK
<1>4. runs' = [runs EXCEPT ![task[w]] = 1]
  BY <1>2 DEF CountRun
<1> QED
  BY <1>1, <1>2, <1>3, <1>4

(* Running a task, whether it returns or throws, makes its count one.      *)
LEMMA TaskRuns ==
  ASSUME ProtocolInv, TaskInv, NEW w \in Workers,
         RunTask(w) \/ TaskThrows(w) \/ TaskAborts(w)
  PROVE  TaskInv'
<1>1. pc[w] = "exec" /\ CountRun(w)
  BY DEF RunTask, TaskThrows, TaskAborts
<1>2. /\ Sharing /\ task[w] \in 1 .. Len(runs) /\ runs[task[w]] = 0
      /\ Len(runs') = Len(runs) /\ runs' \in Seq(Nat)
      /\ \A i \in 1 .. Len(runs) : runs'[i] = IF i = task[w] THEN 1 ELSE runs[i]
  BY <1>1, CountOnce
<1>3. UNCHANGED <<mode, m_status, m_index, m_result, busy, it, task>>
  BY DEF RunTask, TaskThrows, TaskAborts
<1>4. \A i \in 1 .. Len(runs') : runs'[i] \in {0, 1}
  BY <1>2 DEF TaskInv
<1>5. EndsInv'
  BY <1>2, <1>3 DEF EndsInv, Sharing, RunTask, TaskThrows, TaskAborts, Abort
<1>6. CASE TaskAborts(w)
  <2>1. owner' = "gone"
    BY <1>6 DEF TaskAborts, Abort
  <2> QED
    BY <1>4, <1>5, <2>1 DEF TaskInv, StrideInv, TakenInv, ExecInv, CoverInv,
       Sharing
<1>7. CASE RunTask(w) \/ TaskThrows(w)
  <2>1. pc \in [Workers -> Labels]
    BY DEF ProtocolInv, TypeOK
  <2>2. /\ owner' = owner /\ pc'[w] \in {"work", "leave", "record"}
        /\ \A v \in Workers : v # w => pc'[v] = pc[v]
    BY <1>7, <2>1 DEF RunTask, TaskThrows
  <2>3. Sharing' /\ Positions' = Positions
    BY <1>2, <1>3, <2>2 DEF Sharing, Positions
  <2>4. \A j : Taken(j)' <=> Taken(j)
    BY <1>3 DEF Taken
  <2>5. Len(runs) \in Nat /\ \A j \in Positions : j + 1 \in 1 .. Len(runs)
    <3>1. Len(runs) \in Nat
      BY DEF ProtocolInv, TypeOK
    <3> QED
      BY <3>1 DEF Positions
  <2>6. Taken(task[w] - 1)
    BY <1>1, <1>2 DEF TaskInv, ExecInv
  <2>7. StrideInv'
    BY <1>2, <1>3 DEF TaskInv, StrideInv
  <2>8. TakenInv'
    <3> SUFFICES ASSUME NEW j \in Positions
                 PROVE  /\ ~Taken(j) => runs'[j + 1] = 0
                        /\ Taken(j) /\ m_status = "PROCESSING" =>
                              \/ runs'[j + 1] = 1
                              \/ \E v \in Workers : pc'[v] = "exec"
                                                    /\ task[v] = j + 1
      BY <1>3, <2>3, <2>4 DEF TakenInv
    <3>1. /\ ~Taken(j) => runs[j + 1] = 0
          /\ Taken(j) /\ m_status = "PROCESSING" =>
                \/ runs[j + 1] = 1
                \/ \E v \in Workers : pc[v] = "exec" /\ task[v] = j + 1
      BY <1>2 DEF TaskInv, TakenInv
    <3>2. CASE j + 1 = task[w]
      <4>1. runs'[j + 1] = 1
        BY <1>2, <2>5, <3>2
      <4>2. j = task[w] - 1
        BY <2>5, <3>2 DEF Positions
      <4> QED
        BY <2>6, <4>1, <4>2
    <3>3. CASE j + 1 # task[w]
      <4>1. runs'[j + 1] = runs[j + 1]
        BY <1>2, <2>5, <3>3
      <4> QED
        BY <2>2, <3>1, <3>3, <4>1
    <3> QED
      BY <3>2, <3>3
  <2>9. ExecInv'
    <3> SUFFICES ASSUME NEW u \in Workers, pc'[u] = "exec"
                 PROVE  /\ task[u] \in 1 .. Len(runs')
                        /\ \A j : j = task[u] - 1 => Taken(j)'
                        /\ runs'[task[u]] = 0
                        /\ \A v \in Workers : pc'[v] = "exec"
                              /\ task[v] = task[u] => v = u
      BY <1>3 DEF ExecInv
    <3>1. u # w /\ pc[u] = "exec"
      BY <2>2
    <3>2. /\ task[u] \in 1 .. Len(runs) /\ Taken(task[u] - 1)
          /\ runs[task[u]] = 0
          /\ \A v \in Workers : pc[v] = "exec" /\ task[v] = task[u] => v = u
      BY <1>2, <3>1 DEF TaskInv, ExecInv
    <3>3. task[u] # task[w]
      BY <1>1, <3>1, <3>2
    <3>4. runs'[task[u]] = 0
      BY <1>2, <3>2, <3>3
    <3>5. \A v \in Workers : pc'[v] = "exec" => pc[v] = "exec"
      BY <2>2
    <3> QED
      BY <1>2, <2>4, <3>2, <3>4, <3>5
  <2>10. CoverInv'
    <3> SUFFICES ASSUME m_status = "PROCESSING", NEW j \in Positions
                 PROVE  Taken(j)' \/ \E v \in Workers :
                            busy[v] /\ pc'[v] # "post" /\ Reaches(v, j)'
      BY <1>3, <2>3 DEF CoverInv
    <3>1. Taken(j) \/ \E v \in Workers : busy[v] /\ pc[v] # "post" /\ Reaches(v, j)
      BY <1>2 DEF TaskInv, CoverInv
    <3>2. \A v : Reaches(v, j)' <=> Reaches(v, j)
      BY <1>3 DEF Reaches
    <3>3. \A v \in Workers : pc[v] # "post" => pc'[v] # "post"
      BY <2>2
    <3> QED
      BY <2>4, <3>1, <3>2, <3>3
  <2> QED
    BY <1>4, <1>5, <2>7, <2>8, <2>9, <2>10 DEF TaskInv
<1> QED
  BY <1>6, <1>7

(* The pool becomes READY when no worker is counted: every position was    *)
(* taken and nobody is inside a task, so every task has run.               *)
LEMMA AllHaveRun ==
  ASSUME ProtocolInv, TaskInv, NEW w \in Workers, pc[w] = "last"
  PROVE  Sharing /\ \A i \in 1 .. Len(runs) : runs[i] = 1
<1>1. Sharing
  BY WorkerShares
<1>2. /\ m_status = "PROCESSING" /\ Counted = {}
      /\ \A v \in Workers \ {w} : Idling(v)
  BY <1>1 DEF ProtocolInv, RunningInv, Sharing
<1>3. \A v \in Workers : ~busy[v] /\ pc[v] # "exec"
  BY <1>2 DEF Counted, Idling
<1>4. \A j \in Positions : runs[j + 1] = 1
  BY <1>1, <1>2, <1>3 DEF TaskInv, CoverInv, TakenInv
<1>5. ASSUME NEW i \in 1 .. Len(runs) PROVE runs[i] = 1
  <2>1. Len(runs) \in Nat
    BY DEF ProtocolInv, TypeOK
  <2>2. i - 1 \in Positions /\ (i - 1) + 1 = i
    BY <1>5, <2>1 DEF Positions
  <2> QED
    BY <1>4, <2>2
<1> QED
  BY <1>1, <1>5

(* The last worker hands the pool back.                                    *)
LEMMA TaskBecomeReady ==
  ASSUME ProtocolInv, TaskInv, NEW w \in Workers, BecomeReady(w)
  PROVE  TaskInv'
<1>1. Sharing /\ \A i \in 1 .. Len(runs) : runs[i] = 1
  BY AllHaveRun DEF BecomeReady
<1>2. UNCHANGED <<owner, m_result, runs>> /\ m_status' = "READY"
  BY DEF BecomeReady
<1> QED
  BY <1>1, <1>2 DEF TaskInv, StrideInv, TakenInv, ExecInv, CoverInv, EndsInv,
     Sharing

(* The promise is fulfilled by a READY pool.                               *)
LEMMA TaskSetValue ==
  ASSUME ProtocolInv, TaskInv, NEW w \in Workers, SetValue(w)
  PROVE  /\ TaskInv' /\ owner = "waiting" /\ m_result = "unset"
         /\ \A i \in 1 .. Len(runs) : runs[i] = 1
<1>1. owner = "waiting" /\ m_result = "unset"
  BY WorkerOwner DEF SetValue
<1>2. m_status = "READY"
  BY <1>1 DEF ProtocolInv, RunningInv, SetValue
<1>3. UNCHANGED <<owner, runs, m_status>> /\ m_result' = "set"
  BY DEF SetValue
<1> QED
  BY <1>1, <1>2, <1>3 DEF TaskInv, StrideInv, TakenInv, ExecInv, CoverInv,
     EndsInv, Sharing

(* Owner steps outside a workload leave its history alone.                 *)
LEMMA TaskOwnerFrame ==
  ASSUME TaskInv, owner # "waiting", owner' \notin {"publish", "waiting"},
         UNCHANGED <<m_result, runs>>
  PROVE  TaskInv'
  BY DEF TaskInv, StrideInv, TakenInv, ExecInv, CoverInv, EndsInv, Sharing

(* The owner's other steps: the future was set, or the pool is not running. *)
LEMMA TaskOwnerSteps ==
  ASSUME ProtocolInv, TaskInv, Start \/ AppendTask \/ WaitForFuture \/ Destroy \/ Join
  PROVE  TaskInv'
<1>1. UNCHANGED <<m_result, runs>>
  BY DEF Start, AppendTask, WaitForFuture, Destroy, Join
<1>2. CASE WaitForFuture
  <2>1. m_result = "set" /\ owner' = "idle"
    BY <1>2 DEF WaitForFuture
  <2> QED
    BY <1>1, <2>1 DEF TaskInv, StrideInv, TakenInv, ExecInv, CoverInv, EndsInv,
       Sharing
<1>3. CASE Start \/ AppendTask \/ Destroy \/ Join
  <2>1. owner # "waiting" /\ owner' \notin {"publish", "waiting"}
    BY <1>3 DEF Start, AppendTask, Destroy, Join, Abort
  <2> QED
    BY <1>1, <2>1, TaskOwnerFrame
<1> QED
  BY <1>2, <1>3

(* A workload that is accepted has not run.                                *)
LEMMA TaskBegin ==
  ASSUME ProtocolInv, TaskInv, owner = "idle",
         NEW wl \in Seq(1 .. MaxTasks), NEW d, BeginWorkload(wl, d)
  PROVE  TaskInv'
<1> PICK load1 : load1 = IF mode.clear = "AT_NEXT_WORKLOAD" /\ m_status = "READY" /\ d
                         THEN <<>> ELSE wl
  OBVIOUS
<1>1. CASE UNCHANGED <<owner, m_result, runs>>
  BY <1>1, TaskOwnerFrame
<1>2. CASE /\ m_result' = "unset" /\ owner' = "publish" /\ m_index' = 0
           /\ runs' = [i \in 1 .. Len(load1) |-> 0]
  <2>1. Len(load1) \in Nat
    BY EmptySeq
  <2>2. Len(runs') = Len(load1) /\ \A i \in 1 .. Len(runs') : runs'[i] = 0
    BY <1>2, <2>1
  <2> QED
    BY <1>2, <2>2 DEF TaskInv, StrideInv, TakenInv, ExecInv, CoverInv, EndsInv,
       Sharing
<1> QED
  BY <1>1, <1>2 DEF BeginWorkload

(* processWorkload, in its two forms.                                      *)
LEMMA TaskProcess ==
  ASSUME ProtocolInv, TaskInv,
         ProcessWorkload \/ \E n \in 0 .. MaxTasks : ProcessGivenWorkload(n)
  PROVE  TaskInv'
<1>1. CASE ProcessWorkload
  <2>1. m_workload \in Seq(1 .. MaxTasks)
    BY DEF ProtocolInv, TypeOK
  <2> QED
    BY <1>1, <2>1, TaskBegin DEF ProcessWorkload
<1>2. ASSUME NEW n \in 0 .. MaxTasks, ProcessGivenWorkload(n) PROVE TaskInv'
  <2>1. owner = "idle" /\ submitted + n <= MaxTasks
    BY <1>2 DEF ProcessGivenWorkload
  <2>2. submitted \in Nat /\ n \in Nat
    BY PoolAssumption DEF ProtocolInv, TypeOK
  <2>3. [i \in 1 .. n |-> submitted + i] \in Seq(1 .. MaxTasks)
    BY <2>1, <2>2, PoolAssumption
  <2>4. CASE m_status # "READY"
    BY <1>2, <2>1, <2>4, TaskOwnerFrame DEF ProcessGivenWorkload
  <2>5. CASE m_status = "READY"
    BY <1>2, <2>1, <2>3, <2>5, TaskBegin DEF ProcessGivenWorkload
  <2> QED
    BY <2>4, <2>5
<1> QED
  BY <1>1, <1>2

(* Publishing: every position has a worker that was made busy for it.      *)
LEMMA TaskPublish ==
  ASSUME ProtocolInv, TaskInv, Publish
  PROVE  TaskInv'
<1>1. /\ owner = "publish" /\ m_status = "PROCESSING" /\ m_result = "unset"
      /\ \A w \in Workers : Idling(w)
      /\ m_active = SmallerOf(m_size, Len(m_workload)) /\ m_active # 0
      /\ Len(runs) = Len(m_workload)
  BY DEF ProtocolInv, PublishInv, Publish
<1>2. UNCHANGED <<mode, m_status, m_result, m_index, task, runs>>
      /\ owner' = "waiting"
  BY DEF Publish
<1>3. pc' = [w \in Workers |-> "wait"] /\ busy' = [w \in Workers |-> w < m_active]
  BY <1>1 DEF Publish, NotifyAll, Idling
<1>4. m_index = 0 /\ \A i \in 1 .. Len(runs) : runs[i] = 0
  BY <1>1 DEF TaskInv, EndsInv
<1>5. Len(runs) \in Nat /\ m_size \in Nat /\ it \in [Workers -> Nat]
  BY PoolAssumption DEF ProtocolInv, TypeOK
<1>6. 0 \in Workers
  BY <1>1, <1>5 DEF SmallerOf, Workers
<1>7. /\ m_size \in Nat \ {0}
      /\ \A j \in Nat : j % m_size \in Workers /\ j % m_size <= j
      /\ \A w \in Workers : w \in Nat /\ w < m_size /\ w % m_size = w
  BY <1>6, Residues
<1>8. \A j \in Positions : j \in Nat /\ j < Len(runs) /\ j + 1 \in 1 .. Len(runs)
  BY <1>5 DEF Positions
<1>9. \A j \in Positions : j % m_size < m_active
  <2> TAKE j \in Positions
  <2>1. CASE m_size <= Len(runs)
    <3>1. m_active = m_size
      BY <1>1, <1>5, <2>1 DEF SmallerOf
    <3>2. j % m_size \in Workers
      BY <1>7, <1>8
    <3> QED
      BY <1>7, <3>1, <3>2
  <2>2. CASE Len(runs) < m_size
    <3>1. m_active = Len(runs)
      BY <1>1, <1>5, <2>2 DEF SmallerOf
    <3>2. j % m_size <= j /\ j % m_size \in Nat /\ j < Len(runs) /\ j \in Nat
      BY <1>7, <1>8
    <3> QED
      BY <1>5, <3>1, <3>2
  <2> QED
    BY <1>5, <2>1, <2>2
<1>10. mode.queue = "MultiQueue" =>
         \A w \in Workers : w < m_active => it'[w] = w
  BY DEF Publish
<1>11. \A j \in Positions : ~Taken(j)'
  <2> TAKE j \in Positions
  <2>1. CASE mode.queue = "SingleQueue"
    BY <1>2, <1>4, <1>8, <2>1 DEF Taken
  <2>2. CASE mode.queue # "SingleQueue"
    <3>1. mode.queue = "MultiQueue"
      <4>1. mode.queue \in Queues
        BY DEF ProtocolInv, TypeOK
      <4> QED
        BY <2>2, <4>1, PoolAssumption
    <3>2. it'[j % m_size] = j % m_size /\ j % m_size <= j /\ j % m_size \in Nat
      BY <1>7, <1>8, <1>9, <1>10, <3>1
    <3>3. ~(j < it'[j % m_size])
      BY <1>8, <3>2
    <3> QED
      BY <1>2, <2>2, <3>3 DEF Taken
  <2> QED
    BY <2>1, <2>2
<1>12. StrideInv'
  BY <1>2, <1>3, <1>7, <1>10 DEF StrideInv
<1>13. TakenInv'
  BY <1>2, <1>4, <1>8, <1>11 DEF TakenInv, Positions
<1>14. ExecInv'
  BY <1>3 DEF ExecInv
<1>15. CoverInv'
  <2> SUFFICES ASSUME NEW j \in Positions
               PROVE  \E v \in Workers : busy'[v] /\ pc'[v] # "post" /\ Reaches(v, j)'
    BY <1>2 DEF CoverInv, Positions
  <2>1. j % m_size \in Workers /\ busy'[j % m_size] /\ pc'[j % m_size] # "post"
    BY <1>3, <1>7, <1>8, <1>9
  <2>2. Reaches(j % m_size, j)'
    BY DEF Reaches
  <2> QED
    BY <2>1, <2>2
<1>16. EndsInv'
  BY <1>1, <1>2 DEF EndsInv
<1> QED
  BY <1>2, <1>12, <1>13, <1>14, <1>15, <1>16 DEF TaskInv

(* Every step keeps the invariant of the tasks.                            *)
LEMMA TaskNext == ProtocolInv /\ TaskInv /\ [Next]_vars => TaskInv'
<1> SUFFICES ASSUME ProtocolInv, TaskInv, [Next]_vars PROVE TaskInv'
  OBVIOUS
<1>1. CASE OwnerSubmits
  BY <1>1, TaskOwnerSteps, TaskProcess DEF OwnerSubmits
<1>2. CASE OwnerFollowsThrough
  BY <1>2, TaskPublish, TaskOwnerSteps DEF OwnerFollowsThrough
<1>3. ASSUME NEW w \in Workers, WorkerStep(w) \/ SpuriousWakeup(w) PROVE TaskInv'
  BY <1>3, TaskQuietSteps, TaskTaken, TaskSkipped, TaskRuns, TaskBecomeReady,
     TaskSetValue DEF WorkerStep
<1>4. CASE UNCHANGED vars
  BY <1>4 DEF vars, TaskInv, StrideInv, TakenInv, ExecInv, CoverInv, EndsInv,
     Sharing, Taken, Reaches, Positions
<1> QED
  BY <1>1, <1>2, <1>3, <1>4 DEF Next, Finished

(* The two invariants hold together in every reachable state.              *)
THEOREM TaskInvariant == Spec => [](ProtocolInv /\ TaskInv)
<1>1. Init => ProtocolInv /\ TaskInv
  BY ProtocolInit, TaskInit
<1>2. ProtocolInv /\ TaskInv /\ [Next]_vars => (ProtocolInv /\ TaskInv)'
  BY ProtocolNext, TaskNext
<1> QED
  BY <1>1, <1>2, PTL DEF Spec

(* No task of a workload runs twice and none is left when the future is    *)
(* ready, for any number of workers and tasks, with the shared m_index and *)
(* with the strides of worker_mq, whatever the tasks throw.                *)
THEOREM TasksRunOnce == Spec => []ExactlyOnce
<1>1. ProtocolInv /\ TaskInv => ExactlyOnce
  <2> SUFFICES ASSUME ProtocolInv, TaskInv PROVE ExactlyOnce
    OBVIOUS
  <2>1. DOMAIN runs = 1 .. Len(runs)
    BY DEF ProtocolInv, TypeOK
  <2> QED
    BY <2>1 DEF TaskInv, EndsInv, ExactlyOnce
<1> QED
  BY <1>1, TaskInvariant, PTL

-----------------------------------------------------------------------------
(* ThreadPool implements TaskBarrier.                                      *)

(* The initial pool is free and has nothing to do.                         *)
LEMMA BarrierInit == Init => Abstract!Init
<1> SUFFICES ASSUME Init PROVE Abstract!Init
  OBVIOUS
<1>1. DOMAIN runs = {}
  BY DEF Init
<1> QED
  BY <1>1 DEF Init, Abstract!Init

(* A step that neither runs a task nor touches the promise is a stutter.   *)
LEMMA BarrierStutter ==
  ASSUME UNCHANGED <<m_result, runs>>
  PROVE  UNCHANGED Abstract!vars
  BY DEF Abstract!vars

(* Running a task is Run.                                                  *)
LEMMA BarrierRun ==
  ASSUME ProtocolInv, TaskInv, NEW w \in Workers,
         RunTask(w) \/ TaskThrows(w) \/ TaskAborts(w)
  PROVE  Abstract!Next
<1>1. pc[w] = "exec" /\ CountRun(w) /\ m_result' = m_result
  BY DEF RunTask, TaskThrows, TaskAborts
<1>2. /\ Sharing /\ task[w] \in 1 .. Len(runs) /\ runs[task[w]] = 0
      /\ Len(runs') = Len(runs) /\ runs' \in Seq(Nat)
      /\ \A i \in 1 .. Len(runs) : runs'[i] = IF i = task[w] THEN 1 ELSE runs[i]
  BY <1>1, CountOnce
<1>3. DOMAIN runs = 1 .. Len(runs) /\ DOMAIN runs' = 1 .. Len(runs)
  BY <1>2 DEF ProtocolInv, TypeOK
<1>4. {i \in DOMAIN runs' : runs'[i] = 0} = {i \in DOMAIN runs : runs[i] = 0} \ {task[w]}
  BY <1>2, <1>3
<1>5. task[w] \in {i \in DOMAIN runs : runs[i] = 0}
  BY <1>2, <1>3
<1>6. m_result = "unset"
  BY <1>2 DEF Sharing
<1> QED
  BY <1>1, <1>4, <1>5, <1>6 DEF Abstract!Next, Abstract!Run

(* set_value() is Resolve.                                                 *)
LEMMA BarrierResolve ==
  ASSUME ProtocolInv, TaskInv, NEW w \in Workers, SetValue(w)
  PROVE  Abstract!Next
<1>1. m_result = "unset" /\ \A i \in 1 .. Len(runs) : runs[i] = 1
  BY TaskSetValue
<1>2. DOMAIN runs = 1 .. Len(runs)
  BY DEF ProtocolInv, TypeOK
<1>3. {i \in DOMAIN runs : runs[i] = 0} = {}
  BY <1>1, <1>2
<1>4. m_result' = "set" /\ runs' = runs
  BY DEF SetValue
<1> QED
  BY <1>1, <1>3, <1>4 DEF Abstract!Next, Abstract!Resolve

(* A workload that processWorkload accepts is Submit, one that it turns    *)
(* away a stutter.                                                         *)
LEMMA BarrierSubmit ==
  ASSUME ProtocolInv, owner = "idle", NEW wl \in Seq(1 .. MaxTasks), NEW d,
         BeginWorkload(wl, d), submitted' \in 0 .. MaxTasks, Len(wl) <= submitted'
  PROVE  [Abstract!Next]_(Abstract!vars)
<1> PICK load1 : load1 = IF mode.clear = "AT_NEXT_WORKLOAD" /\ m_status = "READY" /\ d
                         THEN <<>> ELSE wl
  OBVIOUS
<1>1. load1 \in Seq(1 .. MaxTasks) /\ Len(load1) \in Nat /\ Len(load1) <= MaxTasks
  <2>1. load1 = wl \/ load1 = <<>>
    OBVIOUS
  <2>2. Len(wl) \in Nat /\ Len(wl) <= MaxTasks
    BY PoolAssumption
  <2>3. CASE load1 = wl
    BY <2>2, <2>3
  <2>4. CASE load1 = <<>>
    <3>1. load1 \in Seq(1 .. MaxTasks) /\ Len(load1) = 0
      BY <2>4, EmptySeq
    <3> QED
      BY <3>1, PoolAssumption
  <2> QED
    BY <2>1, <2>3, <2>4
<1>2. CASE UNCHANGED <<m_result, runs>>
  BY <1>2, BarrierStutter
<1>3. CASE /\ load1 # <<>> /\ m_result' = "unset"
           /\ runs' = [i \in 1 .. Len(load1) |-> 0]
  <2>1. DOMAIN runs' = 1 .. Len(load1) /\ \A i \in 1 .. Len(load1) : runs'[i] = 0
    BY <1>3
  <2>2. {i \in DOMAIN runs' : runs'[i] = 0} = 1 .. Len(load1)
    BY <2>1
  <2>3. 1 .. Len(load1) \in SUBSET (1 .. MaxTasks)
    BY <1>1, PoolAssumption
  <2>4. 1 .. Len(load1) # {}
    <3>1. Len(load1) # 0
      BY <1>1, <1>3, EmptySeq
    <3>2. 1 \in 1 .. Len(load1)
      BY <1>1, <3>1
    <3> QED
      BY <3>2
  <2>5. m_result # "unset"
    BY DEF ProtocolInv, IdleInv
  <2> QED
    BY <1>3, <2>2, <2>3, <2>4, <2>5 DEF Abstract!Next, Abstract!Submit
<1> QED
  BY <1>2, <1>3 DEF BeginWorkload

(* Every step of the pool is a step of the barrier or a stutter.           *)
LEMMA BarrierNext ==
  ProtocolInv /\ TaskInv /\ [Next]_vars => [Abstract!Next]_(Abstract!vars)
<1> SUFFICES ASSUME ProtocolInv, TaskInv, [Next]_vars
             PROVE  [Abstract!Next]_(Abstract!vars)
  OBVIOUS
<1>1. CASE Start \/ AppendTask \/ Destroy \/ OwnerFollowsThrough \/ UNCHANGED vars
  <2>1. UNCHANGED <<m_result, runs>>
    BY <1>1 DEF Start, AppendTask, Destroy, OwnerFollowsThrough, Publish,
       WaitForFuture, Join, vars
  <2> QED
    BY <2>1, BarrierStutter
<1>2. CASE ProcessWorkload
  <2>1. /\ m_workload \in Seq(1 .. MaxTasks) /\ submitted' \in 0 .. MaxTasks
        /\ Len(m_workload) <= submitted' /\ owner = "idle"
        /\ BeginWorkload(m_workload, m_dirty)
    BY <1>2 DEF ProtocolInv, TypeOK, ProcessWorkload
  <2> QED
    BY <2>1, BarrierSubmit
<1>3. ASSUME NEW n \in 0 .. MaxTasks, ProcessGivenWorkload(n)
      PROVE  [Abstract!Next]_(Abstract!vars)
  <2>1. /\ owner = "idle" /\ submitted + n <= MaxTasks
        /\ submitted' = submitted + n
    BY <1>3 DEF ProcessGivenWorkload
  <2>2. submitted \in Nat /\ n \in Nat
    BY PoolAssumption DEF ProtocolInv, TypeOK
  <2>3. [i \in 1 .. n |-> submitted + i] \in Seq(1 .. MaxTasks)
        /\ Len([i \in 1 .. n |-> submitted + i]) = n
    BY <2>1, <2>2, PoolAssumption
  <2>4. submitted' \in 0 .. MaxTasks /\ n <= submitted'
    BY <2>1, <2>2, PoolAssumption
  <2>5. CASE m_status # "READY"
    BY <1>3, <2>5, BarrierStutter DEF ProcessGivenWorkload
  <2>6. CASE m_status = "READY"
    BY <1>3, <2>1, <2>3, <2>4, <2>6, BarrierSubmit DEF ProcessGivenWorkload
  <2> QED
    BY <2>5, <2>6
<1>4. ASSUME NEW w \in Workers, WorkerStep(w) \/ SpuriousWakeup(w)
      PROVE  [Abstract!Next]_(Abstract!vars)
  <2>1. CASE RunTask(w) \/ TaskThrows(w) \/ TaskAborts(w)
    BY <2>1, BarrierRun
  <2>2. CASE SetValue(w)
    BY <2>2, BarrierResolve
  <2>3. CASE ~(RunTask(w) \/ TaskThrows(w) \/ TaskAborts(w) \/ SetValue(w))
    <3>1. UNCHANGED <<m_result, runs>>
      BY <1>4, <2>3 DEF WorkerStep, WaitForWork, SpuriousWakeup, LoopTop, DoWork,
         ReadErrors, PushError, LeaveLoop, ClearBusy, DecrementActive, BecomeReady
    <3> QED
      BY <3>1, BarrierStutter
  <2> QED
    BY <2>1, <2>2, <2>3
<1> QED
  BY <1>1, <1>2, <1>3, <1>4 DEF Next, OwnerSubmits, Finished

(* ThreadPool implements TaskBarrier: the owner gets the pool back when,   *)
(* and only when, every task of the workload has run once.                 *)
THEOREM PoolIsABarrier == Spec => ImplementsBarrier
  BY BarrierInit, BarrierNext, TaskInvariant, PTL
  DEF Spec, ImplementsBarrier, Abstract!Spec

-----------------------------------------------------------------------------
(* No task runs in two workloads.                                          *)

(* Init has no task.                                                       *)
LEMMA FreshInit == Init => FreshInv
<1> SUFFICES ASSUME Init PROVE FreshInv
  OBVIOUS
<1>1. Len(m_workload) = 0
  BY DEF Init
<1> QED
  BY <1>1 DEF Init, FreshInv, Sharing

(* Steps that leave the workload and its histories alone.                  *)
LEMMA FreshFrame ==
  ASSUME FreshInv, submitted \in Nat,
         UNCHANGED <<mode, m_workload, m_dirty, execs>>,
         submitted' \in Nat, submitted <= submitted',
         owner' = "publish" \/ Sharing' =>
             runs' = runs /\ (owner = "publish" \/ Sharing),
         m_status' \in {"STOPPED", "READY"} => m_status \in {"STOPPED", "READY"},
         m_status' = "PROCESSING" => m_status = "PROCESSING",
         m_workload \in Seq(Nat), execs \in [1 .. MaxTasks -> Nat]
  PROVE  FreshInv'
<1> SUFFICES ASSUME mode.clear # "NEVER" PROVE FreshInv'
  BY DEF FreshInv
<1>1. \A t \in 1 .. MaxTasks : execs[t] <= 1 /\ (t > submitted' => execs[t] = 0)
  BY PoolAssumption DEF FreshInv
<1>2. \A i \in 1 .. Len(m_workload) : m_workload[i] <= submitted'
  BY DEF FreshInv
<1> QED
  BY <1>1, <1>2 DEF FreshInv

(* Counting a run of a task that never ran.                                *)
LEMMA FreshRuns ==
  ASSUME ProtocolInv, TaskInv, FreshInv, NEW w \in Workers,
         RunTask(w) \/ TaskThrows(w) \/ TaskAborts(w)
  PROVE  FreshInv'
<1> SUFFICES ASSUME mode.clear # "NEVER" PROVE FreshInv'
  BY DEF FreshInv, RunTask, TaskThrows, TaskAborts
<1>1. pc[w] = "exec" /\ CountRun(w)
  BY DEF RunTask, TaskThrows, TaskAborts
<1>2. /\ Sharing /\ task[w] \in 1 .. Len(runs) /\ runs[task[w]] = 0
      /\ \A i \in 1 .. Len(runs) : runs'[i] = IF i = task[w] THEN 1 ELSE runs[i]
  BY <1>1, CountOnce
<1>3. UNCHANGED <<mode, m_status, m_workload, m_dirty, submitted>>
  BY DEF RunTask, TaskThrows, TaskAborts
<1>4. Len(runs) = Len(m_workload)
  BY <1>1, WorkerShares
<1> PICK id : id = m_workload[task[w]]
  OBVIOUS
<1>5. id \in 1 .. MaxTasks
  BY <1>1, CountRunType
<1>6. execs[id] = 0 /\ id <= submitted
  BY <1>2, <1>4 DEF FreshInv
<1>7. execs' = [execs EXCEPT ![id] = 1]
  BY <1>1, <1>6 DEF CountRun
<1>8. execs \in [1 .. MaxTasks -> Nat] /\ submitted \in Nat
  BY PoolAssumption DEF ProtocolInv, TypeOK
<1>9. \A t \in 1 .. MaxTasks : execs'[t] <= 1 /\ (t > submitted' => execs'[t] = 0)
  <2> TAKE t \in 1 .. MaxTasks
  <2>1. CASE t = id
    BY <1>3, <1>5, <1>6, <1>7, <1>8, <2>1
  <2>2. CASE t # id
    BY <1>3, <1>7, <1>8, <2>2 DEF FreshInv
  <2> QED
    BY <2>1, <2>2
<1>10. \A i \in 1 .. Len(m_workload) : execs'[m_workload[i]] = runs'[i]
  <2> TAKE i \in 1 .. Len(m_workload)
  <2>1. m_workload[i] \in 1 .. MaxTasks
    BY ElementOfSeq DEF ProtocolInv, TypeOK
  <2>2. CASE i = task[w]
    BY <1>2, <1>4, <1>5, <1>7, <1>8, <2>2
  <2>3. CASE i # task[w]
    <3>1. m_workload[i] # id
      BY <1>2, <1>4, <2>3 DEF FreshInv
    <3>2. execs'[m_workload[i]] = execs[m_workload[i]]
      BY <1>7, <1>8, <2>1, <3>1
    <3> QED
      BY <1>2, <1>4, <2>3, <3>2 DEF FreshInv
  <2> QED
    BY <2>2, <2>3
<1>11. m_status \notin {"STOPPED", "READY"}
  BY <1>2 DEF ProtocolInv, RunningInv, Sharing
<1> QED
  BY <1>3, <1>9, <1>10, <1>11 DEF FreshInv

(* After the workload it is empty, or clearWorkload is due.                *)
LEMMA FreshBecomeReady ==
  ASSUME ProtocolInv, FreshInv, NEW w \in Workers, BecomeReady(w)
  PROVE  FreshInv'
<1> SUFFICES ASSUME mode.clear # "NEVER" PROVE FreshInv'
  BY DEF FreshInv, BecomeReady
<1>1. /\ UNCHANGED <<mode, submitted, execs, runs, owner, m_result>>
      /\ m_status' = "READY"
      /\ m_workload' = Cleared(mode.clear = "UPPON_COMPLETION")
      /\ m_dirty' = (m_dirty /\ mode.clear # "UPPON_COMPLETION")
  BY DEF BecomeReady
<1>2. Sharing /\ ~Sharing' /\ owner' # "publish"
  BY <1>1, WorkerShares DEF BecomeReady, Sharing
<1>3. m_status = "PROCESSING"
  BY <1>2 DEF ProtocolInv, RunningInv, Sharing, BecomeReady
<1>4. m_dirty
  BY <1>3 DEF FreshInv
<1>5. CASE mode.clear = "UPPON_COMPLETION"
  <2>1. m_workload' = <<>> /\ Len(m_workload') = 0
    BY <1>1, <1>5 DEF Cleared
  <2>2. ~m_dirty'
    BY <1>1, <1>5, Zenon
  <2>3. \A i : i \notin 1 .. Len(m_workload')
    BY <2>1
  <2> QED
    BY <1>1, <1>2, <2>2, <2>3 DEF FreshInv
<1>6. CASE mode.clear # "UPPON_COMPLETION"
  <2>1. m_workload' = m_workload /\ m_dirty'
    BY <1>1, <1>4, <1>6 DEF Cleared
  <2>2. mode.clear = "AT_NEXT_WORKLOAD"
    <3>1. mode.clear \in ClearModes
      BY DEF ProtocolInv, TypeOK
    <3> QED
      BY <1>6, <3>1, PoolAssumption
  <2> QED
    BY <1>1, <1>2, <2>1, <2>2 DEF FreshInv
<1> QED
  BY <1>5, <1>6

(* operator<< clears a workload that ran, then adds a new task.            *)
LEMMA FreshAppend ==
  ASSUME ProtocolInv, FreshInv, AppendTask
  PROVE  FreshInv'
<1> SUFFICES ASSUME mode.clear # "NEVER" PROVE FreshInv'
  BY DEF FreshInv, AppendTask
<1>1. owner = "idle" /\ m_status \in {"STOPPED", "READY"}
  BY DEF ProtocolInv, IdleInv, AppendTask
<1> PICK old : old = Cleared(DirtyAtNext)
  OBVIOUS
<1>2. /\ UNCHANGED <<mode, m_status, execs, owner>>
      /\ submitted' = submitted + 1 /\ submitted < MaxTasks
      /\ m_workload' = Append(old, submitted')
      /\ m_dirty' = (m_dirty /\ ~DirtyAtNext)
  BY <1>1 DEF AppendTask
<1>3. ~m_dirty'
  BY <1>1, <1>2 DEF FreshInv, DirtyAtNext
<1>4. /\ old \in Seq(1 .. MaxTasks)
      /\ \A i \in 1 .. Len(old) : old[i] <= submitted /\ execs[old[i]] = 0
      /\ \A i, j \in 1 .. Len(old) : old[i] = old[j] => i = j
  <2>1. CASE DirtyAtNext
    <3>1. old = <<>> /\ Len(old) = 0
      BY <2>1 DEF Cleared
    <3> QED
      BY <3>1, EmptySeq
  <2>2. CASE ~DirtyAtNext
    <3>1. old = m_workload /\ ~m_dirty
      BY <1>2, <1>3, <2>2 DEF Cleared
    <3> QED
      BY <1>1, <3>1 DEF FreshInv, ProtocolInv, TypeOK
  <2> QED
    BY <2>1, <2>2
<1>5. submitted \in Nat /\ submitted' \in 1 .. MaxTasks /\ submitted' > submitted
      /\ execs \in [1 .. MaxTasks -> Nat]
  BY <1>2, PoolAssumption DEF ProtocolInv, TypeOK
<1>6. /\ Len(m_workload') = Len(old) + 1 /\ Len(old) \in Nat
      /\ m_workload'[Len(old) + 1] = submitted'
      /\ \A i \in 1 .. Len(old) : m_workload'[i] = old[i]
  BY <1>2, <1>4, <1>5, AppendProperties
<1>7. \A i \in 1 .. Len(m_workload') : i \in 1 .. Len(old) \/ i = Len(old) + 1
  BY <1>6
<1>8. \A i \in 1 .. Len(old) : old[i] \in 1 .. MaxTasks
  BY <1>4, ElementOfSeq
<1>9. \A i \in 1 .. Len(m_workload') :
         m_workload'[i] <= submitted' /\ execs[m_workload'[i]] = 0
  <2> TAKE i \in 1 .. Len(m_workload')
  <2>1. CASE i \in 1 .. Len(old)
    BY <1>4, <1>5, <1>6, <1>8, <2>1
  <2>2. CASE i = Len(old) + 1
    BY <1>5, <1>6, <2>2 DEF FreshInv
  <2> QED
    BY <1>7, <2>1, <2>2
<1>10. \A i, j \in 1 .. Len(m_workload') : m_workload'[i] = m_workload'[j] => i = j
  <2>1. \A i \in 1 .. Len(old) : m_workload'[i] # submitted'
    BY <1>4, <1>5, <1>6, <1>8
  <2> QED
    BY <1>4, <1>6, <1>7, <2>1
<1>11. \A t \in 1 .. MaxTasks : execs[t] <= 1 /\ (t > submitted' => execs[t] = 0)
  BY <1>5 DEF FreshInv
<1> QED
  BY <1>1, <1>2, <1>3, <1>9, <1>10, <1>11 DEF FreshInv, Sharing

(* A workload whose tasks are new, or that is cleared first, is accepted   *)
(* with no run behind it.                                                  *)
LEMMA FreshBegin ==
  ASSUME ProtocolInv, FreshInv, owner = "idle", m_status = "READY",
         NEW wl \in Seq(1 .. MaxTasks), NEW d \in BOOLEAN, BeginWorkload(wl, d),
         UNCHANGED <<mode, execs>>,
         submitted' \in 0 .. MaxTasks, submitted <= submitted',
         \A i \in 1 .. Len(wl) : wl[i] <= submitted',
         \A i, j \in 1 .. Len(wl) : wl[i] = wl[j] => i = j,
         mode.clear # "NEVER" /\ d => mode.clear = "AT_NEXT_WORKLOAD",
         mode.clear # "NEVER" /\ ~d => \A i \in 1 .. Len(wl) : execs[wl[i]] = 0
  PROVE  FreshInv'
<1> SUFFICES ASSUME mode.clear # "NEVER" PROVE FreshInv'
  BY DEF FreshInv
<1> PICK load1 : load1 = IF mode.clear = "AT_NEXT_WORKLOAD" /\ m_status = "READY" /\ d
                         THEN <<>> ELSE wl
  OBVIOUS
<1>1. m_workload' = load1
  BY DEF BeginWorkload
<1>2. /\ Len(load1) \in Nat
      /\ \A i \in 1 .. Len(load1) : load1[i] <= submitted' /\ execs[load1[i]] = 0
      /\ \A i, j \in 1 .. Len(load1) : load1[i] = load1[j] => i = j
  <2>1. CASE d
    <3>1. load1 = <<>> /\ Len(load1) = 0
      BY <2>1
    <3> QED
      BY <3>1
  <2>2. CASE ~d
    <3>1. load1 = wl
      BY <2>2
    <3> QED
      BY <2>2, <3>1
  <2> QED
    BY <2>1, <2>2
<1>3. \A t \in 1 .. MaxTasks : execs[t] <= 1 /\ (t > submitted' => execs[t] = 0)
  <2>1. submitted \in Nat /\ execs \in [1 .. MaxTasks -> Nat]
    BY PoolAssumption DEF ProtocolInv, TypeOK
  <2> QED
    BY <2>1, PoolAssumption DEF FreshInv
<1>4. CASE load1 = <<>>
  <2>1. UNCHANGED <<m_status, owner>> /\ Len(load1) = 0
    BY <1>4 DEF BeginWorkload
  <2>2. m_dirty' => mode.clear = "AT_NEXT_WORKLOAD"
    BY <1>4 DEF BeginWorkload
  <2> QED
    BY <1>1, <1>2, <1>3, <2>1, <2>2 DEF FreshInv, Sharing
<1>5. CASE load1 # <<>>
  <2>1. /\ m_dirty' = TRUE /\ m_status' = "PROCESSING" /\ owner' = "publish"
        /\ runs' = [i \in 1 .. Len(load1) |-> 0]
    BY <1>5 DEF BeginWorkload
  <2>2. \A i \in 1 .. Len(load1) : runs'[i] = 0
    BY <2>1
  <2> QED
    BY <1>1, <1>2, <1>3, <2>1, <2>2 DEF FreshInv
<1> QED
  BY <1>4, <1>5

(* processWorkload, in its two forms.                                      *)
LEMMA FreshProcess ==
  ASSUME ProtocolInv, FreshInv,
         ProcessWorkload \/ \E n \in 0 .. MaxTasks : ProcessGivenWorkload(n)
  PROVE  FreshInv'
<1>1. /\ owner = "idle" /\ UNCHANGED <<mode, execs>>
      /\ m_status \in {"STOPPED", "READY"}
  BY DEF ProtocolInv, IdleInv, ProcessWorkload, ProcessGivenWorkload
<1>2. /\ submitted \in Nat /\ m_workload \in Seq(1 .. MaxTasks)
      /\ m_workload \in Seq(Nat) /\ m_dirty \in BOOLEAN
      /\ execs \in [1 .. MaxTasks -> Nat]
  BY PoolAssumption DEF ProtocolInv, TypeOK
<1>3. CASE ProcessWorkload
  <2>1. BeginWorkload(m_workload, m_dirty) /\ submitted' = submitted
    BY <1>3 DEF ProcessWorkload
  <2>2. submitted' \in 0 .. MaxTasks /\ submitted <= submitted'
    BY <1>2, <2>1 DEF ProtocolInv, TypeOK
  <2>3. CASE mode.clear = "NEVER"
    BY <1>1, <2>3 DEF FreshInv
  <2>4. CASE mode.clear # "NEVER" /\ m_status = "READY"
    BY <1>1, <1>2, <2>1, <2>2, <2>4, FreshBegin DEF FreshInv
  <2>5. CASE m_status = "STOPPED"
    <3>1. UNCHANGED <<m_workload, m_status, owner>>
          /\ m_dirty' = m_dirty
      BY <1>2, <2>1, <2>5 DEF BeginWorkload
    <3> QED
      BY <1>1, <1>2, <2>1, <2>2, <2>5, <3>1, FreshFrame DEF Sharing
  <2> QED
    BY <1>1, <2>3, <2>4, <2>5
<1>4. ASSUME NEW n \in 0 .. MaxTasks, ProcessGivenWorkload(n) PROVE FreshInv'
  <2>1. n \in Nat /\ submitted + n <= MaxTasks /\ submitted' = submitted + n
    BY <1>4, PoolAssumption DEF ProcessGivenWorkload
  <2>2. submitted' \in 0 .. MaxTasks /\ submitted <= submitted'
    BY <1>2, <2>1, PoolAssumption
  <2> PICK wl : wl = [i \in 1 .. n |-> submitted + i]
    OBVIOUS
  <2>3. /\ wl \in Seq(1 .. MaxTasks) /\ Len(wl) = n
        /\ \A i \in 1 .. n : wl[i] = submitted + i
    BY <1>2, <2>1, PoolAssumption
  <2>4. \A i \in 1 .. n : /\ wl[i] <= submitted' /\ wl[i] \in 1 .. MaxTasks
                          /\ wl[i] > submitted
    BY <1>2, <2>1, <2>3, PoolAssumption
  <2>5. \A i, j \in 1 .. n : wl[i] = wl[j] => i = j
    BY <1>2, <2>1, <2>3
  <2>6. mode.clear # "NEVER" => \A i \in 1 .. n : execs[wl[i]] = 0
    BY <2>4 DEF FreshInv
  <2>7. CASE m_status = "READY"
    <3>1. BeginWorkload(wl, FALSE)
      BY <1>4, <2>7 DEF ProcessGivenWorkload
    <3>2. /\ wl \in Seq(1 .. MaxTasks)
          /\ \A i \in 1 .. Len(wl) : wl[i] <= submitted'
          /\ \A i, j \in 1 .. Len(wl) : wl[i] = wl[j] => i = j
          /\ mode.clear # "NEVER" => \A i \in 1 .. Len(wl) : execs[wl[i]] = 0
      BY <2>3, <2>4, <2>5, <2>6
    <3> QED
      BY <1>1, <2>2, <2>7, <3>1, <3>2, FreshBegin
  <2>8. CASE m_status # "READY"
    <3>1. UNCHANGED <<m_workload, m_dirty, m_status, owner>>
      BY <1>4, <2>8 DEF ProcessGivenWorkload
    <3> QED
      BY <1>1, <1>2, <2>1, <2>2, <3>1, FreshFrame DEF Sharing
  <2> QED
    BY <2>7, <2>8
<1> QED
  BY <1>3, <1>4

(* The steps that leave the workload as it is.                             *)
LEMMA FreshOtherSteps ==
  ASSUME ProtocolInv, FreshInv,
         \/ Start \/ Destroy \/ OwnerFollowsThrough \/ UNCHANGED vars
         \/ \E w \in Workers :
               \/ WaitForWork(w) \/ SpuriousWakeup(w) \/ LoopTop(w) \/ DoWork(w)
               \/ ReadErrors(w) \/ PushError(w) \/ LeaveLoop(w) \/ ClearBusy(w)
               \/ DecrementActive(w) \/ SetValue(w)
  PROVE  FreshInv'
<1>1. UNCHANGED <<mode, m_workload, m_dirty, execs, submitted, runs>>
  BY DEF Start, Destroy, OwnerFollowsThrough, Publish, WaitForFuture, Join, vars,
     WaitForWork, SpuriousWakeup, LoopTop, DoWork, ReadErrors, PushError,
     LeaveLoop, ClearBusy, DecrementActive, SetValue
<1>2. submitted \in Nat /\ m_workload \in Seq(Nat)
      /\ execs \in [1 .. MaxTasks -> Nat]
  BY PoolAssumption, SMTT(30) DEF ProtocolInv, TypeOK
<1>3. /\ m_status' \in {"STOPPED", "READY"} => m_status \in {"STOPPED", "READY"}
      /\ m_status' = "PROCESSING" => m_status = "PROCESSING"
  BY DEF Start, Destroy, OwnerFollowsThrough, Publish, WaitForFuture, Join, vars,
     WaitForWork, SpuriousWakeup, LoopTop, DoWork, ReadErrors, PushError,
     LeaveLoop, ClearBusy, DecrementActive, SetValue
<1>4. owner' = "publish" \/ Sharing' => owner = "publish" \/ Sharing
  <2>1. \A w \in Workers : pc[w] = "leave" => m_status # "READY"
    BY DEF ProtocolInv, TypeOK, BusyInv, IdleInv, PublishInv, RunningInv,
           ResolvedInv, JoinInv, GoneInv, Idling, Counted
  <2>2. CASE Start \/ Destroy \/ OwnerFollowsThrough \/ UNCHANGED vars
    BY <2>2 DEF Start, Destroy, OwnerFollowsThrough, Publish, WaitForFuture, Join,
       vars, Sharing
  <2>3. ASSUME NEW w \in Workers,
               \/ WaitForWork(w) \/ SpuriousWakeup(w) \/ LoopTop(w) \/ DoWork(w)
               \/ ReadErrors(w) \/ PushError(w) \/ LeaveLoop(w) \/ ClearBusy(w)
               \/ DecrementActive(w) \/ SetValue(w)
        PROVE  owner' = "publish" \/ Sharing' => owner = "publish" \/ Sharing
    BY <2>1, <2>3 DEF WaitForWork, SpuriousWakeup, LoopTop, DoWork, ReadErrors,
       PushError, LeaveLoop, ClearBusy, DecrementActive, SetValue, Sharing
  <2> QED
    BY <2>2, <2>3
<1>5. submitted' \in Nat /\ submitted <= submitted'
  BY <1>1, <1>2
<1> QED
  BY <1>1, <1>2, <1>3, <1>4, <1>5, FreshFrame

(* Every step keeps workloads fresh.                                       *)
LEMMA FreshNext == ProtocolInv /\ TaskInv /\ FreshInv /\ [Next]_vars => FreshInv'
<1> SUFFICES ASSUME ProtocolInv, TaskInv, FreshInv, [Next]_vars PROVE FreshInv'
  OBVIOUS
<1>1. CASE OwnerSubmits
  BY <1>1, FreshOtherSteps, FreshAppend, FreshProcess DEF OwnerSubmits
<1>2. CASE OwnerFollowsThrough \/ UNCHANGED vars
  BY <1>2, FreshOtherSteps
<1>3. ASSUME NEW w \in Workers, WorkerStep(w) \/ SpuriousWakeup(w) PROVE FreshInv'
  BY <1>3, FreshOtherSteps, FreshRuns, FreshBecomeReady DEF WorkerStep
<1> QED
  BY <1>1, <1>2, <1>3 DEF Next, Finished

(* Unless the pool was built with ClearMode::NEVER, no task is run by two  *)
(* workloads, however often processWorkload() is called on what is left.   *)
THEOREM TasksNeverRerun == Spec => []NoRerun
<1>1. Spec => []FreshInv
  BY FreshInit, FreshNext, TaskInvariant, PTL DEF Spec
<1>2. FreshInv => NoRerun
  BY DEF FreshInv, NoRerun
<1> QED
  BY <1>1, <1>2, PTL
=============================================================================
