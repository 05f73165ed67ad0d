--------------------------- MODULE ThreadPoolProofs ---------------------------
(***************************************************************************)
(* Proofs about ThreadPool for any number of workers, tasks and workloads, *)
(* all clear modes, all error modes and both worker types.                 *)
(*                                                                         *)
(* The protocol invariant says who counts in m_active and what the owner   *)
(* can see in each of its phases.                                          *)
(***************************************************************************)
EXTENDS ThreadPool, FiniteSetTheorems, SequenceTheorems, TLAPS

(* The workers --m_active is still to be called for.                       *)
Counted == {w \in Workers : busy[w] \/ pc[w] = "dec"}

(* A worker outside any workload.                                          *)
Idling(w) == ~busy[w] /\ pc[w] \in {"wait", "blocked"}

(* What busy says about where a worker is.                                 *)
BusyInv ==
    \A w \in Workers :
        /\ pc[w] \in {"work", "exec", "record", "push", "post"} => busy[w]
        /\ pc[w] \in {"unborn", "dec", "last", "fulfil"} => ~busy[w]
        /\ pc[w] \in {"woken", "leave"} => busy[w] \/ m_status = "TERMINATING"
        /\ pc[w] \in {"record", "push", "leave"} /\ m_status # "TERMINATING"
              => mode.error # "NONE"
        /\ pc[w] \in {"record", "push"} => mode.error # "NONE"
        /\ pc[w] = "exit" => m_status = "TERMINATING" \/ owner = "gone"

(* The owner has the pool.                                                 *)
IdleInv ==
    owner = "idle" =>
        /\ m_result # "unset"
        /\ \/ /\ m_status = "STOPPED" /\ m_result = "none"
              /\ \A w \in Workers : pc[w] = "unborn"
           \/ m_status = "READY" /\ \A w \in Workers : Idling(w)

(* The workload is announced but no worker was told yet.                   *)
PublishInv ==
    owner = "publish" =>
        /\ m_status = "PROCESSING" /\ m_result = "unset"
        /\ \A w \in Workers : Idling(w)
        /\ m_active = SmallerOf(m_size, Len(m_workload)) /\ m_active # 0
        /\ Len(runs) = Len(m_workload)

(* The workers have the workload: m_active counts them; when it is zero,   *)
(* one worker is about to hand the pool back.  A pool that an exception    *)
(* terminated keeps a counted worker for good.                             *)
RunningInv ==
    owner = "waiting" /\ m_result = "unset" =>
        /\ m_active = Cardinality(Counted)
        /\ m_status \in {"PROCESSING", "READY", "TERMINATING"}
        /\ m_status = "TERMINATING" =>
              \E w \in Workers : busy[w] /\ pc[w] = "exit"
        /\ \A w \in Workers : pc[w] # "unborn"
        /\ \A w \in Workers : pc[w] \in {"last", "fulfil"} =>
              /\ Counted = {}
              /\ \A v \in Workers \ {w} : Idling(v)
              /\ pc[w] = "last" => m_status = "PROCESSING"
              /\ pc[w] = "fulfil" => m_status = "READY"
        /\ m_status = "READY" => \E w \in Workers : pc[w] = "fulfil"
        /\ \A w \in Workers : pc[w] \in {"exec", "record", "push"} =>
              task[w] \in 1 .. Len(m_workload)
        /\ m_status # "READY" => Len(runs) = Len(m_workload)

(* The promise is fulfilled, the owner did not look yet.                   *)
ResolvedInv ==
    owner = "waiting" /\ m_result # "unset" =>
        m_result = "set" /\ m_status = "READY" /\ \A w \in Workers : Idling(w)

(* The destructor waits for the workers.                                   *)
JoinInv ==
    owner = "join" =>
        /\ m_status = "TERMINATING" /\ m_result # "unset"
        /\ \A w \in Workers :
              ~busy[w] /\ pc[w] \in {"unborn", "wait", "blocked", "woken",
                                     "leave", "exit"}

(* Nothing moves any more.                                                 *)
GoneInv ==
    owner = "gone" => \A w \in Workers : pc[w] \in {"unborn", "exit"}

ProtocolInv ==
    /\ TypeOK
    /\ Len(m_workload) <= submitted
    /\ m_status \in {"READY", "PROCESSING"} => m_size # 0
    /\ aborted # "append"
    /\ BusyInv /\ IdleInv /\ PublishInv /\ RunningInv /\ ResolvedInv
    /\ JoinInv /\ GoneInv

-----------------------------------------------------------------------------
(* The tuples of variables that actions leave alone are abbreviations.     *)
USE DEF load, hist, count, flow, Goto

(* Init establishes the protocol invariant: the constructor starts no      *)
(* thread.                                                                 *)
LEMMA ProtocolInit == Init => ProtocolInv
<1> SUFFICES ASSUME Init PROVE ProtocolInv
  OBVIOUS
<1>1. Len(m_workload) = 0 /\ Len(runs) = 0
  BY DEF Init
<1>2. TypeOK
  <2>1. m_workload \in Seq(1 .. MaxTasks) /\ m_errors \in Seq(1 .. MaxTasks)
    BY DEF Init
  <2>2. errs \in [Workers -> Seq(1 .. MaxTasks)] /\ runs \in Seq(Nat)
    BY DEF Init
  <2>3. pc \in [Workers -> Labels]
    BY DEF Init, Labels
  <2>4. m_dirty \in BOOLEAN /\ busy \in [Workers -> BOOLEAN]
    BY DEF Init
  <2>5. m_active \in 0 .. m_size /\ submitted \in 0 .. MaxTasks
        /\ rounds \in 0 .. MaxRounds /\ Len(runs) <= MaxTasks
    BY <1>1, PoolAssumption DEF Init
  <2>6. it \in [Workers -> Nat] /\ task \in [Workers -> Nat]
        /\ execs \in [1 .. MaxTasks -> Nat] /\ m_index \in Nat
    BY DEF Init
  <2> QED
    BY <2>1, <2>2, <2>3, <2>4, <2>5, <2>6 DEF Init, TypeOK
<1> QED
  BY <1>1, <1>2, PoolAssumption
  DEF Init, ProtocolInv, BusyInv, IdleInv, PublishInv, RunningInv,
      ResolvedInv, JoinInv, GoneInv

(* A worker inside a workload works for an owner that waits for it.        *)
LEMMA WorkerOwner ==
  ASSUME ProtocolInv, NEW w \in Workers,
         pc[w] \in {"work", "exec", "record", "push", "post", "dec", "last",
                    "fulfil"}
  PROVE  owner = "waiting" /\ m_result = "unset"
  BY DEF ProtocolInv, TypeOK, BusyInv, IdleInv, PublishInv, ResolvedInv,
         JoinInv, GoneInv, Idling

(* There are finitely many workers.                                        *)
LEMMA CountedFinite ==
  IsFiniteSet(Counted) /\ Cardinality(Counted) \in Nat
<1>1. IsFiniteSet(Workers)
  BY PoolAssumption, FS_Interval DEF Workers
<1>2. Counted \in SUBSET Workers
  BY DEF Counted
<1> QED
  BY <1>1, <1>2, FS_Subset, FS_CardinalityType

(* A cleared workload is empty, an uncleared one as it was.                *)
LEMMA ClearedType ==
  ASSUME ProtocolInv, NEW condition \in BOOLEAN
  PROVE  /\ Cleared(condition) \in Seq(1 .. MaxTasks)
         /\ Len(Cleared(condition)) <= submitted
<1>1. m_workload \in Seq(1 .. MaxTasks) /\ Len(m_workload) <= submitted
      /\ submitted \in Nat
  BY DEF ProtocolInv, TypeOK
<1>2. CASE condition
  BY <1>1, <1>2, EmptySeq DEF Cleared
<1>3. CASE ~condition
  BY <1>1, <1>3 DEF Cleared
<1> QED
  BY <1>2, <1>3

(* waitForWork moves one worker between its test and the wait.             *)
LEMMA WaitForWorkStep ==
  ASSUME ProtocolInv, NEW w \in Workers, WaitForWork(w)
  PROVE  ProtocolInv'
<1>1. TypeOK'
  BY PoolAssumption DEF ProtocolInv, TypeOK, Labels, WaitForWork
<1>2. Counted' = Counted
  BY DEF ProtocolInv, TypeOK, BusyInv, Counted, WaitForWork
<1>3. BusyInv' /\ IdleInv' /\ PublishInv'
  BY <1>1 DEF ProtocolInv, TypeOK, WaitForWork, BusyInv, IdleInv,
      PublishInv, RunningInv, Idling
<1>4. ResolvedInv' /\ JoinInv' /\ GoneInv'
  BY <1>1 DEF ProtocolInv, TypeOK, WaitForWork, BusyInv, ResolvedInv, RunningInv,
      JoinInv, GoneInv, Idling
<1>5. RunningInv'
  BY <1>1, <1>2 DEF ProtocolInv, TypeOK, WaitForWork, BusyInv, RunningInv, Idling
<1> QED
  BY <1>1, <1>3, <1>4, <1>5 DEF ProtocolInv, WaitForWork

(* A spurious wake-up repeats the test.                                    *)
LEMMA SpuriousWakeupStep ==
  ASSUME ProtocolInv, NEW w \in Workers, SpuriousWakeup(w)
  PROVE  ProtocolInv'
<1>1. TypeOK'
  BY PoolAssumption DEF ProtocolInv, TypeOK, Labels, SpuriousWakeup
<1>2. Counted' = Counted
  BY DEF ProtocolInv, TypeOK, BusyInv, Counted, SpuriousWakeup
<1>3. BusyInv' /\ IdleInv' /\ PublishInv'
  BY <1>1 DEF ProtocolInv, TypeOK, SpuriousWakeup, BusyInv, IdleInv,
      PublishInv, RunningInv, Idling
<1>4. ResolvedInv' /\ JoinInv' /\ GoneInv'
  BY <1>1 DEF ProtocolInv, TypeOK, SpuriousWakeup, BusyInv, ResolvedInv, RunningInv,
      JoinInv, GoneInv, Idling
<1>5. RunningInv'
  BY <1>1, <1>2 DEF ProtocolInv, TypeOK, SpuriousWakeup, BusyInv, RunningInv, Idling
<1> QED
  BY <1>1, <1>3, <1>4, <1>5 DEF ProtocolInv, SpuriousWakeup

(* Leaving the loop needs TERMINATING, entering doWork needs busy.         *)
LEMMA LoopTopStep ==
  ASSUME ProtocolInv, NEW w \in Workers, LoopTop(w)
  PROVE  ProtocolInv'
<1>1. TypeOK'
  BY PoolAssumption DEF ProtocolInv, TypeOK, Labels, LoopTop
<1>2. Counted' = Counted
  BY DEF ProtocolInv, TypeOK, BusyInv, Counted, LoopTop
<1>3. BusyInv' /\ IdleInv' /\ PublishInv'
  BY <1>1 DEF ProtocolInv, TypeOK, LoopTop, BusyInv, IdleInv,
      PublishInv, RunningInv, Idling
<1>4. ResolvedInv' /\ JoinInv' /\ GoneInv'
  BY <1>1 DEF ProtocolInv, TypeOK, LoopTop, BusyInv, ResolvedInv, RunningInv,
      JoinInv, GoneInv, Idling
<1>5. RunningInv'
  BY <1>1, <1>2 DEF ProtocolInv, TypeOK, LoopTop, BusyInv, RunningInv, Idling
<1> QED
  BY <1>1, <1>3, <1>4, <1>5 DEF ProtocolInv, LoopTop

(* doWork takes a task that exists or goes on to post().                   *)
LEMMA DoWorkStep ==
  ASSUME ProtocolInv, NEW w \in Workers, DoWork(w)
  PROVE  ProtocolInv'
<1>1. owner = "waiting" /\ m_result = "unset" /\ pc[w] = "work"
  BY WorkerOwner DEF DoWork
<1>2. /\ pc' = [pc EXCEPT ![w] = "exec"] \/ pc' = [pc EXCEPT ![w] = "post"]
      /\ pc' \in [Workers -> Labels]
  BY DEF ProtocolInv, TypeOK, Labels, DoWork
<1>3. m_index' \in Nat /\ it' \in [Workers -> Nat]
  BY PoolAssumption DEF ProtocolInv, TypeOK, DoWork, Stride
<1>4. /\ task' \in [Workers -> Nat]
      /\ \A v \in Workers : pc'[v] \in {"exec", "record", "push"} =>
            task'[v] \in 1 .. Len(m_workload)
  <2>1. NextIndex(w) \in Nat /\ Len(m_workload) \in Nat
    BY DEF ProtocolInv, TypeOK, NextIndex
  <2>2. \A v \in Workers : pc[v] \in {"exec", "record", "push"} =>
            task[v] \in 1 .. Len(m_workload)
    BY <1>1 DEF ProtocolInv, RunningInv
  <2>3. CASE TakeTask(w)
    <3>1. task' = [task EXCEPT ![w] = NextIndex(w) + 1]
          /\ pc' = [pc EXCEPT ![w] = "exec"]
      BY <2>3 DEF DoWork
    <3> QED
      BY <2>1, <2>2, <2>3, <3>1 DEF ProtocolInv, TypeOK, TakeTask
  <2>4. CASE ~TakeTask(w)
    <3>1. task' = task /\ pc' = [pc EXCEPT ![w] = "post"]
      BY <2>4 DEF DoWork
    <3> QED
      BY <2>2, <3>1 DEF ProtocolInv, TypeOK
  <2> QED
    BY <2>3, <2>4
<1>5. TypeOK'
  BY <1>2, <1>3, <1>4 DEF ProtocolInv, TypeOK, DoWork
<1>6. Counted' = Counted
  BY <1>1, <1>2 DEF ProtocolInv, TypeOK, BusyInv, Counted, DoWork
<1>7. BusyInv'
  BY <1>1, <1>2 DEF ProtocolInv, TypeOK, BusyInv, DoWork
<1>8. RunningInv'
  BY <1>1, <1>2, <1>4, <1>6 DEF ProtocolInv, TypeOK, BusyInv, RunningInv, Idling, DoWork
<1> QED
  BY <1>1, <1>5, <1>7, <1>8 DEF ProtocolInv, DoWork, IdleInv, PublishInv,
     ResolvedInv, JoinInv, GoneInv

(* Counting a run keeps the two histories well typed: the task a worker    *)
(* took is one of the workload's.                                          *)
LEMMA CountRunType ==
  ASSUME ProtocolInv, NEW w \in Workers, pc[w] = "exec", CountRun(w)
  PROVE  /\ runs' \in Seq(Nat) /\ Len(runs') = Len(runs)
         /\ execs' \in [1 .. MaxTasks -> Nat]
         /\ m_workload[task[w]] \in 1 .. MaxTasks
<1>1. owner = "waiting" /\ m_result = "unset"
  BY WorkerOwner
<1>2. m_status # "READY"
  BY <1>1 DEF ProtocolInv, RunningInv, Idling
<1>3. task[w] \in 1 .. Len(m_workload) /\ Len(runs) = Len(m_workload)
  BY <1>1, <1>2 DEF ProtocolInv, RunningInv
<1>4. m_workload[task[w]] \in 1 .. MaxTasks
  <2>1. m_workload \in Seq(1 .. MaxTasks)
    BY DEF ProtocolInv, TypeOK
  <2> QED
    BY <1>3, <2>1, ElementOfSeq
<1>5. runs' \in Seq(Nat) /\ Len(runs') = Len(runs)
  BY <1>3 DEF ProtocolInv, TypeOK, CountRun
<1>6. execs' \in [1 .. MaxTasks -> Nat]
  BY <1>4 DEF ProtocolInv, TypeOK, CountRun
<1> QED
  BY <1>4, <1>5, <1>6

(* Running a task counts it and nothing else.                              *)
LEMMA RunTaskStep ==
  ASSUME ProtocolInv, NEW w \in Workers, RunTask(w)
  PROVE  ProtocolInv'
<1>1. owner = "waiting" /\ m_result = "unset" /\ pc[w] = "exec"
  BY WorkerOwner DEF RunTask
<1>2. /\ runs' \in Seq(Nat) /\ Len(runs') = Len(runs)
      /\ execs' \in [1 .. MaxTasks -> Nat]
  BY CountRunType DEF RunTask
<1>3. TypeOK'
  BY <1>2 DEF ProtocolInv, TypeOK, Labels, RunTask
<1>4. Counted' = Counted
  BY DEF ProtocolInv, TypeOK, BusyInv, Counted, RunTask
<1>5. BusyInv'
  BY <1>1 DEF ProtocolInv, TypeOK, BusyInv, RunTask
<1>6. RunningInv'
  BY <1>1, <1>2, <1>4 DEF ProtocolInv, TypeOK, BusyInv, RunningInv, Idling, RunTask
<1> QED
  BY <1>1, <1>3, <1>5, <1>6 DEF ProtocolInv, RunTask, IdleInv, PublishInv,
     ResolvedInv, JoinInv, GoneInv

(* An uncaught exception ends the process.                                 *)
LEMMA TaskAbortsStep ==
  ASSUME ProtocolInv, NEW w \in Workers, TaskAborts(w)
  PROVE  ProtocolInv'
<1>1. owner = "waiting" /\ m_result = "unset" /\ pc[w] = "exec"
  BY WorkerOwner DEF TaskAborts
<1>2. /\ runs' \in Seq(Nat) /\ Len(runs') = Len(runs)
      /\ execs' \in [1 .. MaxTasks -> Nat]
      /\ m_workload[task[w]] \in 1 .. MaxTasks
  BY CountRunType DEF TaskAborts
<1>3. TypeOK'
  <2>1. pc' \in [Workers -> Labels]
    BY DEF TaskAborts, Abort, Labels
  <2> QED
    BY <1>2, <2>1 DEF ProtocolInv, TypeOK, TaskAborts, Abort
<1>4. owner' = "gone" /\ pc' = [v \in Workers |-> "exit"]
  BY DEF TaskAborts, Abort
<1>5. BusyInv' /\ GoneInv'
  BY <1>4 DEF BusyInv, GoneInv
<1> QED
  BY <1>3, <1>4, <1>5 DEF ProtocolInv, TaskAborts, Abort, IdleInv, PublishInv,
     RunningInv, ResolvedInv, JoinInv

(* A caught exception leaves the worker busy.                              *)
LEMMA TaskThrowsStep ==
  ASSUME ProtocolInv, NEW w \in Workers, TaskThrows(w)
  PROVE  ProtocolInv'
<1>1. owner = "waiting" /\ m_result = "unset" /\ pc[w] = "exec"
  BY WorkerOwner DEF TaskThrows
<1>2. /\ runs' \in Seq(Nat) /\ Len(runs') = Len(runs)
      /\ execs' \in [1 .. MaxTasks -> Nat]
      /\ m_workload[task[w]] \in 1 .. MaxTasks
  BY CountRunType DEF TaskThrows
<1>3. TypeOK'
  BY <1>2 DEF ProtocolInv, TypeOK, Labels, TaskThrows
<1>4. Counted' = Counted
  BY DEF ProtocolInv, TypeOK, BusyInv, Counted, TaskThrows
<1>5. BusyInv'
  BY <1>1 DEF ProtocolInv, TypeOK, BusyInv, TaskThrows
<1>6. RunningInv'
  BY <1>1, <1>2, <1>4 DEF ProtocolInv, TypeOK, BusyInv, RunningInv, Idling, TaskThrows
<1> QED
  BY <1>1, <1>3, <1>5, <1>6 DEF ProtocolInv, TaskThrows, IdleInv, PublishInv,
     ResolvedInv, JoinInv, GoneInv

(* Reading m_errors.                                                       *)
LEMMA ReadErrorsStep ==
  ASSUME ProtocolInv, NEW w \in Workers, ReadErrors(w)
  PROVE  ProtocolInv'
<1>1. TypeOK'
  BY PoolAssumption DEF ProtocolInv, TypeOK, Labels, ReadErrors
<1>2. Counted' = Counted
  BY DEF ProtocolInv, TypeOK, BusyInv, Counted, ReadErrors
<1>3. BusyInv' /\ IdleInv' /\ PublishInv'
  BY <1>1 DEF ProtocolInv, TypeOK, ReadErrors, BusyInv, IdleInv,
      PublishInv, RunningInv, Idling
<1>4. ResolvedInv' /\ JoinInv' /\ GoneInv'
  BY <1>1 DEF ProtocolInv, TypeOK, ReadErrors, BusyInv, ResolvedInv, RunningInv,
      JoinInv, GoneInv, Idling
<1>5. RunningInv'
  BY <1>1, <1>2 DEF ProtocolInv, TypeOK, ReadErrors, BusyInv, RunningInv, Idling
<1> QED
  BY <1>1, <1>3, <1>4, <1>5 DEF ProtocolInv, ReadErrors

(* Writing m_errors back keeps it a sequence of tasks.                     *)
LEMMA PushErrorStep ==
  ASSUME ProtocolInv, NEW w \in Workers, PushError(w)
  PROVE  ProtocolInv'
<1>1. owner = "waiting" /\ m_result = "unset" /\ pc[w] = "push"
  BY WorkerOwner DEF PushError
<1>2. task[w] \in 1 .. Len(m_workload)
  BY <1>1 DEF ProtocolInv, RunningInv
<1>3. m_workload \in Seq(1 .. MaxTasks) /\ errs[w] \in Seq(1 .. MaxTasks)
  BY DEF ProtocolInv, TypeOK
<1>4. m_workload[task[w]] \in 1 .. MaxTasks
  BY <1>2, <1>3, ElementOfSeq
<1>5. m_errors' \in Seq(1 .. MaxTasks)
  BY <1>3, <1>4 DEF PushError
<1>6. errs' \in [Workers -> Seq(1 .. MaxTasks)]
  BY DEF ProtocolInv, TypeOK, PushError
<1>7. TypeOK'
  BY <1>5, <1>6 DEF ProtocolInv, TypeOK, Labels, PushError
<1>8. Counted' = Counted
  BY DEF ProtocolInv, TypeOK, BusyInv, Counted, PushError
<1>9. BusyInv'
  BY <1>1 DEF ProtocolInv, TypeOK, BusyInv, PushError
<1>10. RunningInv'
  BY <1>1, <1>8 DEF ProtocolInv, TypeOK, BusyInv, RunningInv, Idling, PushError
<1> QED
  BY <1>1, <1>7, <1>9, <1>10 DEF ProtocolInv, PushError, IdleInv, PublishInv,
     ResolvedInv, JoinInv, GoneInv

(* The end of loop_wrapper keeps a busy worker counted.                    *)
LEMMA LeaveLoopStep ==
  ASSUME ProtocolInv, NEW w \in Workers, LeaveLoop(w)
  PROVE  ProtocolInv'
<1>1. TypeOK'
  BY PoolAssumption DEF ProtocolInv, TypeOK, Labels, LeaveLoop
<1>2. Counted' = Counted
  BY DEF ProtocolInv, TypeOK, BusyInv, Counted, LeaveLoop
<1>3. BusyInv' /\ IdleInv' /\ PublishInv'
  BY <1>1 DEF ProtocolInv, TypeOK, LeaveLoop, BusyInv, IdleInv,
      PublishInv, RunningInv, Idling
<1>4. ResolvedInv' /\ JoinInv' /\ GoneInv'
  BY <1>1 DEF ProtocolInv, TypeOK, LeaveLoop, BusyInv, ResolvedInv, RunningInv,
      JoinInv, GoneInv, Idling
<1>5. RunningInv'
  BY <1>1, <1>2 DEF ProtocolInv, TypeOK, LeaveLoop, BusyInv, RunningInv, Idling
<1> QED
  BY <1>1, <1>3, <1>4, <1>5 DEF ProtocolInv, LeaveLoop

(* busy = false happens before --m_active, so the worker stays counted.    *)
LEMMA ClearBusyStep ==
  ASSUME ProtocolInv, NEW w \in Workers, ClearBusy(w)
  PROVE  ProtocolInv'
<1>1. TypeOK'
  BY PoolAssumption DEF ProtocolInv, TypeOK, Labels, ClearBusy
<1>2. Counted' = Counted
  BY DEF ProtocolInv, TypeOK, BusyInv, Counted, ClearBusy
<1>3. BusyInv' /\ IdleInv' /\ PublishInv'
  BY <1>1 DEF ProtocolInv, TypeOK, ClearBusy, BusyInv, IdleInv,
      PublishInv, RunningInv, Idling
<1>4. ResolvedInv' /\ JoinInv' /\ GoneInv'
  BY <1>1 DEF ProtocolInv, TypeOK, ClearBusy, BusyInv, ResolvedInv, RunningInv,
      JoinInv, GoneInv, Idling
<1>5. RunningInv'
  BY <1>1, <1>2 DEF ProtocolInv, TypeOK, ClearBusy, BusyInv, RunningInv, Idling
<1> QED
  BY <1>1, <1>3, <1>4, <1>5 DEF ProtocolInv, ClearBusy

(* --m_active removes one counted worker; if it was the only one, all      *)
(* others are idle, for an exception that terminated the pool would have   *)
(* left a counted worker behind.                                           *)
LEMMA DecrementActiveStep ==
  ASSUME ProtocolInv, NEW w \in Workers, DecrementActive(w)
  PROVE  ProtocolInv'
<1>1. owner = "waiting" /\ m_result = "unset" /\ pc[w] = "dec" /\ ~busy[w]
  BY WorkerOwner DEF DecrementActive, ProtocolInv, BusyInv
<1>2. w \in Counted /\ m_active = Cardinality(Counted)
  BY <1>1 DEF ProtocolInv, RunningInv, Counted
<1>3. IsFiniteSet(Counted) /\ Cardinality(Counted) \in Nat \ {0}
  BY <1>2, CountedFinite, FS_EmptySet
<1>4. Counted' = Counted \ {w}
  BY <1>1 DEF ProtocolInv, TypeOK, Counted, DecrementActive
<1>5. Cardinality(Counted') = m_active - 1
  BY <1>2, <1>3, <1>4, FS_RemoveElement
<1>6. m_active' = m_active - 1 /\ m_active' \in 0 .. m_size
  BY <1>2, <1>3, PoolAssumption DEF DecrementActive, ProtocolInv, TypeOK
<1>7. TypeOK'
  BY <1>6 DEF ProtocolInv, TypeOK, Labels, DecrementActive
<1>8. BusyInv'
  BY <1>1 DEF ProtocolInv, TypeOK, BusyInv, DecrementActive
<1>9. \A v \in Workers : pc[v] \notin {"last", "fulfil"}
  BY <1>1, <1>2 DEF ProtocolInv, RunningInv
<1>10. ASSUME m_active = 1 PROVE RunningInv'
  <2>1. Counted' = {}
    BY <1>3, <1>4, <1>5, <1>10, FS_RemoveElement, FS_EmptySet
  <2>2. m_status = "PROCESSING"
    <3>1. m_status # "READY"
      BY <1>1, <1>9 DEF ProtocolInv, RunningInv
    <3>2. m_status # "TERMINATING"
      BY <1>1, <1>4, <2>1 DEF ProtocolInv, RunningInv, Counted
    <3> QED
      BY <1>1, <3>1, <3>2 DEF ProtocolInv, RunningInv
  <2>3. \A v \in Workers \ {w} : ~busy[v] /\ pc[v] # "dec"
    BY <1>4, <2>1 DEF Counted
  <2>4. \A v \in Workers \ {w} : Idling(v)
    BY <1>1, <1>9, <2>2, <2>3 DEF ProtocolInv, TypeOK, Labels, BusyInv,
       RunningInv, Idling
  <2>5. pc' = [pc EXCEPT ![w] = "last"]
    BY <1>10 DEF DecrementActive
  <2> QED
    BY <1>1, <1>5, <1>6, <1>9, <2>1, <2>2, <2>4, <2>5
    DEF ProtocolInv, TypeOK, RunningInv, Idling, DecrementActive
<1>11. ASSUME m_active # 1 PROVE RunningInv'
  <2>1. pc' = [pc EXCEPT ![w] = "wait"]
    BY <1>11 DEF DecrementActive
  <2> QED
    BY <1>1, <1>5, <1>6, <1>9, <2>1
    DEF ProtocolInv, TypeOK, BusyInv, RunningInv, DecrementActive
<1> QED
  BY <1>1, <1>7, <1>8, <1>10, <1>11 DEF ProtocolInv, DecrementActive, IdleInv,
     PublishInv, ResolvedInv, JoinInv, GoneInv

(* The last worker makes the pool READY while every other one is idle.     *)
LEMMA BecomeReadyStep ==
  ASSUME ProtocolInv, NEW w \in Workers, BecomeReady(w)
  PROVE  ProtocolInv'
<1>1. owner = "waiting" /\ m_result = "unset" /\ pc[w] = "last"
  BY WorkerOwner DEF BecomeReady
<1>2. /\ Counted = {} /\ \A v \in Workers \ {w} : Idling(v)
      /\ ~busy[w]
  BY <1>1 DEF ProtocolInv, BusyInv, RunningInv
<1>3. /\ m_workload' \in Seq(1 .. MaxTasks) /\ Len(m_workload') <= submitted
      /\ m_dirty' \in BOOLEAN
  <2>1. /\ m_workload' = Cleared(mode.clear = "UPPON_COMPLETION")
        /\ m_dirty' \in BOOLEAN /\ submitted \in Nat
    BY DEF ProtocolInv, TypeOK, BecomeReady
  <2> QED
    BY <2>1, ClearedType
<1>4. /\ m_status' = "READY" /\ pc' = [pc EXCEPT ![w] = "fulfil"]
      /\ pc' \in [Workers -> Labels]
  BY DEF ProtocolInv, TypeOK, BecomeReady, Labels
<1>5. TypeOK'
  BY <1>3, <1>4 DEF ProtocolInv, TypeOK, BecomeReady
<1>6. BusyInv'
  BY <1>1, <1>2, <1>4 DEF ProtocolInv, TypeOK, BusyInv, Idling, BecomeReady
<1>7. Counted' = Counted
  BY <1>1, <1>4 DEF ProtocolInv, TypeOK, Counted, BecomeReady
<1>8. RunningInv'
  BY <1>1, <1>2, <1>4, <1>7 DEF ProtocolInv, TypeOK, RunningInv, Idling, BecomeReady
<1>9. m_size # 0
  BY PoolAssumption DEF Workers
<1> QED
  BY <1>1, <1>3, <1>5, <1>6, <1>8, <1>9 DEF ProtocolInv, BecomeReady, IdleInv, PublishInv,
     ResolvedInv, JoinInv, GoneInv

(* set_value finds every other worker idle.                                *)
LEMMA SetValueStep ==
  ASSUME ProtocolInv, NEW w \in Workers, SetValue(w)
  PROVE  ProtocolInv'
<1>1. TypeOK'
  BY PoolAssumption DEF ProtocolInv, TypeOK, Labels, SetValue
<1>2. Counted' = Counted
  BY DEF ProtocolInv, TypeOK, BusyInv, Counted, SetValue
<1>3. BusyInv' /\ IdleInv' /\ PublishInv'
  BY <1>1 DEF ProtocolInv, TypeOK, SetValue, BusyInv, IdleInv,
      PublishInv, RunningInv, Idling
<1>4. ResolvedInv' /\ JoinInv' /\ GoneInv'
  BY <1>1 DEF ProtocolInv, TypeOK, SetValue, BusyInv, ResolvedInv, RunningInv,
      JoinInv, GoneInv, Idling
<1>5. RunningInv'
  BY <1>1, <1>2 DEF ProtocolInv, TypeOK, SetValue, BusyInv, RunningInv, Idling
<1> QED
  BY <1>1, <1>3, <1>4, <1>5 DEF ProtocolInv, SetValue

(* start() makes every worker idle.                                        *)
LEMMA StartStep ==
  ASSUME ProtocolInv, Start
  PROVE  ProtocolInv'
<1>1. TypeOK'
  BY PoolAssumption DEF ProtocolInv, TypeOK, Labels, Start
<1>2. \A w \in Workers : ~busy[w]
  BY DEF ProtocolInv, BusyInv, IdleInv, Start
<1> QED
  BY <1>1, <1>2 DEF ProtocolInv, Start, BusyInv, IdleInv, PublishInv, RunningInv,
     ResolvedInv, JoinInv, GoneInv, Idling

(* operator<< only touches the workload: it never meets a pool that is     *)
(* processing.                                                             *)
LEMMA AppendTaskStep ==
  ASSUME ProtocolInv, AppendTask
  PROVE  ProtocolInv'
<1>1. owner = "idle" /\ m_status \notin {"PROCESSING", "ERROR"}
  BY DEF ProtocolInv, IdleInv, AppendTask
<1>2. /\ UNCHANGED <<owner, pc, aborted>>
      /\ m_workload' = Append(Cleared(DirtyAtNext), submitted')
      /\ m_dirty' = (m_dirty /\ ~DirtyAtNext)
      /\ submitted' = submitted + 1 /\ submitted < MaxTasks
  BY <1>1 DEF AppendTask
<1>3. submitted' \in 1 .. MaxTasks
  BY <1>2, PoolAssumption DEF ProtocolInv, TypeOK
<1>4. /\ Cleared(DirtyAtNext) \in Seq(1 .. MaxTasks)
      /\ Len(Cleared(DirtyAtNext)) <= submitted
  BY ClearedType DEF DirtyAtNext, ProtocolInv, TypeOK
<1>5. m_workload' \in Seq(1 .. MaxTasks) /\ Len(m_workload') <= submitted'
  BY <1>2, <1>3, <1>4 DEF ProtocolInv, TypeOK
<1>6. m_dirty' \in BOOLEAN
  BY <1>2
<1>7. TypeOK'
  BY <1>2, <1>3, <1>5, <1>6 DEF ProtocolInv, TypeOK, AppendTask
<1> QED
  BY <1>1, <1>2, <1>5, <1>7 DEF ProtocolInv, AppendTask, BusyInv, IdleInv,
     PublishInv, RunningInv, ResolvedInv, JoinInv, GoneInv, Idling

(* Publishing a workload makes exactly the first m_active workers counted. *)
LEMMA PublishStep ==
  ASSUME ProtocolInv, Publish
  PROVE  ProtocolInv'
<1>1. /\ owner = "publish" /\ owner' = "waiting" /\ m_status = "PROCESSING"
      /\ m_result = "unset" /\ \A w \in Workers : Idling(w)
      /\ Len(runs) = Len(m_workload)
  BY DEF ProtocolInv, PublishInv, Publish
<1>2. pc' = [w \in Workers |-> "wait"]
  BY <1>1 DEF Publish, NotifyAll, Idling
<1>3. busy' = [w \in Workers |-> w < m_active]
  BY <1>1 DEF Publish, Idling
<1>4. it' \in [Workers -> Nat]
  BY PoolAssumption DEF ProtocolInv, TypeOK, Publish, Workers
<1>5. TypeOK'
  <2>1. pc' \in [Workers -> Labels] /\ busy' \in [Workers -> BOOLEAN]
    BY <1>2, <1>3 DEF Labels
  <2> QED
    BY <1>1, <1>4, <2>1 DEF ProtocolInv, TypeOK, Publish
<1>6. m_active \in 0 .. m_size
  BY DEF ProtocolInv, TypeOK
<1>7. Counted' = 0 .. m_active - 1
  <2>1. Counted' = {w \in Workers : w < m_active}
    BY <1>2, <1>3 DEF Counted
  <2> QED
    BY <1>6, <2>1, PoolAssumption DEF Workers
<1>8. Cardinality(Counted') = m_active
  BY <1>6, <1>7, FS_Interval, PoolAssumption
<1>9. BusyInv'
  BY <1>1, <1>2, <1>3 DEF BusyInv
<1>10. RunningInv'
  BY <1>1, <1>2, <1>8 DEF RunningInv, Publish
<1> QED
  BY <1>1, <1>5, <1>9, <1>10 DEF ProtocolInv, Publish, IdleInv, PublishInv,
     ResolvedInv, JoinInv, GoneInv

(* The owner takes the pool back.                                          *)
LEMMA WaitForFutureStep ==
  ASSUME ProtocolInv, WaitForFuture
  PROVE  ProtocolInv'
<1>1. TypeOK'
  BY DEF ProtocolInv, TypeOK, WaitForFuture
<1>2. m_status = "READY" /\ \A w \in Workers : Idling(w)
  BY DEF ProtocolInv, ResolvedInv, WaitForFuture
<1>3. BusyInv'
  BY <1>2 DEF BusyInv, WaitForFuture, Idling
<1> QED
  BY <1>1, <1>2, <1>3 DEF ProtocolInv, WaitForFuture, IdleInv, PublishInv,
     RunningInv, ResolvedInv, JoinInv, GoneInv, Idling

(* The destructor takes over an idle pool, started or not.                 *)
LEMMA DestroyStep ==
  ASSUME ProtocolInv, Destroy
  PROVE  ProtocolInv'
<1>1. \A w \in Workers : ~busy[w] /\ pc[w] \in {"unborn", "wait", "blocked"}
  BY DEF ProtocolInv, BusyInv, IdleInv, Idling, Destroy
<1>2. \A w \in Workers : pc'[w] \in {"unborn", "wait"}
  BY <1>1 DEF Destroy, NotifyAll
<1>3. TypeOK'
  BY <1>1 DEF ProtocolInv, TypeOK, Labels, Destroy, NotifyAll
<1>4. BusyInv'
  BY <1>1, <1>2 DEF BusyInv, Destroy
<1>5. JoinInv'
  BY <1>1, <1>2 DEF ProtocolInv, IdleInv, JoinInv, Destroy
<1> QED
  BY <1>3, <1>4, <1>5 DEF ProtocolInv, Destroy, IdleInv, PublishInv, RunningInv,
     ResolvedInv, GoneInv

(* All threads are joined.                                                 *)
LEMMA JoinStep ==
  ASSUME ProtocolInv, Join
  PROVE  ProtocolInv'
<1>1. TypeOK'
  BY PoolAssumption DEF ProtocolInv, TypeOK, Labels, Join
<1>2. Counted' = Counted
  BY DEF ProtocolInv, TypeOK, BusyInv, Counted, Join
<1>3. BusyInv' /\ IdleInv' /\ PublishInv'
  BY <1>1 DEF ProtocolInv, TypeOK, Join, BusyInv, IdleInv,
      PublishInv, RunningInv, Idling
<1>4. ResolvedInv' /\ JoinInv' /\ GoneInv'
  BY <1>1 DEF ProtocolInv, TypeOK, Join, BusyInv, ResolvedInv, RunningInv,
      JoinInv, GoneInv, Idling
<1>5. RunningInv'
  BY <1>1, <1>2 DEF ProtocolInv, TypeOK, Join, BusyInv, RunningInv, Idling
<1> QED
  BY <1>1, <1>3, <1>4, <1>5 DEF ProtocolInv, Join

(* A workload is announced to an idle pool, or turned away.                *)
LEMMA BeginWorkloadStep ==
  ASSUME ProtocolInv, owner = "idle",
         NEW wl \in Seq(1 .. MaxTasks), NEW d \in BOOLEAN,
         BeginWorkload(wl, d), Len(wl) <= submitted',
         submitted' \in 0 .. MaxTasks, rounds' \in 0 .. MaxRounds,
         UNCHANGED <<mode, m_errors, busy, it, flow, execs, aborted>>
  PROVE  ProtocolInv'
<1> DEFINE clear == mode.clear = "AT_NEXT_WORKLOAD" /\ m_status = "READY" /\ d
           load1 == IF clear THEN <<>> ELSE wl
<1>1. load1 \in Seq(1 .. MaxTasks) /\ Len(load1) \in Nat /\ Len(load1) <= submitted'
  <2>1. CASE clear
    BY <2>1, EmptySeq
  <2>2. CASE ~clear
    BY <2>2
  <2> QED
    BY <2>1, <2>2
<1>2. m_workload' = load1
  BY DEF BeginWorkload
<1>3. \A w \in Workers : ~busy[w]
  BY DEF ProtocolInv, BusyInv, IdleInv, Idling
<1>4. CASE m_status # "READY" \/ load1 = <<>>
  <2>1. /\ UNCHANGED <<m_status, m_active, m_index, m_result, owner, runs>>
        /\ m_dirty' = (d /\ ~clear)
    BY <1>4 DEF BeginWorkload
  <2>2. m_dirty' \in BOOLEAN
    BY <2>1
  <2>3. TypeOK'
    BY <1>1, <1>2, <2>1, <2>2 DEF ProtocolInv, TypeOK
  <2> QED
    BY <1>1, <1>2, <2>1, <2>3 DEF ProtocolInv, BusyInv, IdleInv, PublishInv,
       RunningInv, ResolvedInv, JoinInv, GoneInv, Idling
<1>5. CASE ~(m_status # "READY" \/ load1 = <<>>)
  <2>1. /\ m_dirty' = TRUE /\ m_result' = "unset"
        /\ m_active' = SmallerOf(m_size, Len(load1)) /\ m_index' = 0
        /\ m_status' = "PROCESSING" /\ owner' = "publish"
        /\ runs' = [i \in 1 .. Len(load1) |-> 0]
    BY <1>5 DEF BeginWorkload
  <2>2. m_status = "READY" /\ m_size # 0 /\ Len(load1) # 0
    <3>1. load1 # <<>> /\ m_status = "READY"
      BY <1>5
    <3> QED
      BY <1>1, <3>1, EmptySeq DEF ProtocolInv
  <2>3. m_active' \in 1 .. m_size
    BY <1>1, <2>1, <2>2, PoolAssumption DEF SmallerOf
  <2>4. runs' \in Seq(Nat) /\ Len(runs') = Len(load1) /\ Len(runs') <= MaxTasks
    BY <1>1, <2>1, PoolAssumption
  <2>5. TypeOK'
    BY <1>1, <1>2, <2>1, <2>3, <2>4 DEF ProtocolInv, TypeOK
  <2>6. \A w \in Workers : Idling(w)
    BY <2>2 DEF ProtocolInv, IdleInv
  <2>7. BusyInv' /\ PublishInv'
    BY <1>2, <2>1, <2>3, <2>4, <2>6 DEF BusyInv, PublishInv, Idling
  <2> QED
    BY <1>1, <1>2, <2>1, <2>2, <2>5, <2>7 DEF ProtocolInv, IdleInv, RunningInv,
       ResolvedInv, JoinInv, GoneInv
<1> QED
  BY <1>4, <1>5

(* processWorkload() with the tasks that operator<< appended.              *)
LEMMA ProcessWorkloadStep ==
  ASSUME ProtocolInv, ProcessWorkload
  PROVE  ProtocolInv'
<1>1. /\ m_workload \in Seq(1 .. MaxTasks) /\ m_dirty \in BOOLEAN
      /\ Len(m_workload) <= submitted' /\ submitted' \in 0 .. MaxTasks
      /\ rounds' \in 0 .. MaxRounds
  BY PoolAssumption DEF ProtocolInv, TypeOK, ProcessWorkload
<1> QED
  BY <1>1, BeginWorkloadStep DEF ProcessWorkload

(* processWorkload(workload) replaces the workload of a pool that is ready. *)
LEMMA ProcessGivenWorkloadStep ==
  ASSUME ProtocolInv, NEW n \in 0 .. MaxTasks, ProcessGivenWorkload(n)
  PROVE  ProtocolInv'
<1> DEFINE wl == [i \in 1 .. n |-> submitted + i]
<1>1. submitted \in Nat /\ n \in Nat /\ submitted + n <= MaxTasks
  BY PoolAssumption DEF ProtocolInv, TypeOK, ProcessGivenWorkload
<1>2. wl \in Seq(1 .. MaxTasks) /\ Len(wl) = n
  BY <1>1, PoolAssumption
<1>3. submitted' \in 0 .. MaxTasks /\ rounds' \in 0 .. MaxRounds
      /\ Len(wl) <= submitted'
  BY <1>1, <1>2, PoolAssumption DEF ProtocolInv, TypeOK, ProcessGivenWorkload
<1>4. CASE m_status # "READY"
  <2>1. UNCHANGED <<mode, m_status, load, m_active, m_index, m_errors, m_result,
                    busy, it, flow, owner, hist>>
    BY <1>4 DEF ProcessGivenWorkload
  <2>2. TypeOK' /\ submitted <= submitted'
    BY <1>1, <1>3, <2>1 DEF ProtocolInv, TypeOK, ProcessGivenWorkload
  <2>3. Counted' = Counted
    BY <2>1 DEF Counted
  <2>4. Len(m_workload') <= submitted'
    BY <1>1, <1>3, <2>1, <2>2 DEF ProtocolInv, TypeOK
  <2> QED
    BY <2>1, <2>2, <2>3, <2>4 DEF ProtocolInv, BusyInv, IdleInv, PublishInv,
       RunningInv, ResolvedInv, JoinInv, GoneInv, Idling
<1>5. CASE m_status = "READY"
  BY <1>2, <1>3, <1>5, BeginWorkloadStep DEF ProcessGivenWorkload
<1> QED
  BY <1>4, <1>5

(* Every step of the pool keeps the protocol invariant.                    *)
LEMMA ProtocolNext == ProtocolInv /\ [Next]_vars => ProtocolInv'
<1> SUFFICES ASSUME ProtocolInv, [Next]_vars PROVE ProtocolInv'
  OBVIOUS
<1>1. CASE OwnerSubmits
  BY <1>1, StartStep, AppendTaskStep, ProcessWorkloadStep, DestroyStep,
     ProcessGivenWorkloadStep DEF OwnerSubmits
<1>2. CASE OwnerFollowsThrough
  BY <1>2, PublishStep, WaitForFutureStep, JoinStep DEF OwnerFollowsThrough
<1>3. ASSUME NEW w \in Workers, WorkerStep(w) PROVE ProtocolInv'
  BY <1>3, WaitForWorkStep, LoopTopStep, DoWorkStep, RunTaskStep, TaskAbortsStep,
     TaskThrowsStep, ReadErrorsStep, PushErrorStep, LeaveLoopStep, ClearBusyStep,
     DecrementActiveStep, BecomeReadyStep, SetValueStep DEF WorkerStep
<1>4. ASSUME NEW w \in Workers, SpuriousWakeup(w) PROVE ProtocolInv'
  BY <1>4, SpuriousWakeupStep
<1>5. CASE UNCHANGED vars
  <2>1. TypeOK' /\ Counted' = Counted
    BY <1>5 DEF ProtocolInv, TypeOK, Counted, vars
  <2> QED
    BY <1>5, <2>1 DEF ProtocolInv, vars, BusyInv, IdleInv, PublishInv,
       RunningInv, ResolvedInv, JoinInv, GoneInv, Idling
<1> QED
  BY <1>1, <1>2, <1>3, <1>4, <1>5 DEF Next, Finished

(* The protocol invariant holds in every reachable state.                  *)
THEOREM ProtocolInvariant == Spec => []ProtocolInv
  BY ProtocolInit, ProtocolNext, PTL DEF Spec

(* Every variable keeps its type; m_active never drops below zero and no   *)
(* worker indexes the workload out of bounds.                              *)
THEOREM TypeCorrect == Spec => []TypeOK
<1>1. ProtocolInv => TypeOK
  BY DEF ProtocolInv
<1> QED
  BY <1>1, ProtocolInvariant, PTL

(* When the owner has the pool back, every worker is out of the workload.  *)
THEOREM PoolIsQuiet == Spec => []QuietWhenResolved
<1>1. ProtocolInv => QuietWhenResolved
  BY DEF ProtocolInv, IdleInv, QuietWhenResolved, Idling
<1> QED
  BY <1>1, ProtocolInvariant, PTL

(* operator<< never throws and a started pool accepts every workload of an *)
(* owner that waits for its futures.                                       *)
THEOREM OwnerIsServed == Spec => []OwnerFindsReady
<1>1. ProtocolInv => OwnerFindsReady
  BY DEF ProtocolInv, IdleInv, OwnerFindsReady
<1> QED
  BY <1>1, ProtocolInvariant, PTL
=============================================================================
