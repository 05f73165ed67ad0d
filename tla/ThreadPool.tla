------------------------------ MODULE ThreadPool ------------------------------
(***************************************************************************)
(* The fork/join pool of src/shared/ThreadPool.{h,cpp}.  One owner thread  *)
(* fills a workload, hands it to m_size workers, waits for the future that *)
(* processWorkload returned, and finally destroys the pool.  The owner is  *)
(* modelled as every caller in the repository uses the pool                *)
(* (SqlResultQueue::Update, World::Update, MapManager::Update, Map): it    *)
(* waits for a valid future before it touches the pool again.              *)
(*                                                                         *)
(* m_mutex is not a variable: waitForWork holds it shared from the test of *)
(* busy to the (atomic) release inside wait, processWorkload and the       *)
(* destructor hold it exclusively from the first write to notify_all, so   *)
(* each of these sections is one action.  Everything outside the mutex     *)
(* (m_status, m_active, m_index, busy = false) is a step of its own.       *)
(* A worker's thread reads m_status through an opaque call in every loop,  *)
(* so a plain load is always a load of the current value.                  *)
(***************************************************************************)
EXTENDS Naturals, Sequences

CONSTANTS m_size,      \* number of worker threads
          ClearModes,  \* ClearMode values the pool may be built with
          ErrorModes,  \* ErrorHandling values the pool may be built with
          Queues,      \* worker types start() may be instantiated with
          MaxTasks,    \* bound: tasks the owner ever submits
          MaxRounds    \* bound: workloads the owner ever submits

ASSUME PoolAssumption ==
    /\ m_size \in Nat /\ MaxTasks \in Nat /\ MaxRounds \in Nat
    /\ ClearModes \subseteq {"NEVER", "UPPON_COMPLETION", "AT_NEXT_WORKLOAD"}
    /\ ErrorModes \subseteq {"NONE", "IGNORE", "LOG", "TERMINATE"}
    /\ Queues \subseteq {"SingleQueue", "MultiQueue"}

VARIABLES
    mode,        \* the constructor's and start()'s parameters
    m_status, m_workload, m_dirty, m_active, m_index, m_errors,
    m_result,    \* the promise: "none", "unset", "set"
    busy, it,    \* worker::busy, worker_mq::it
    pc,          \* where each worker thread is
    task,        \* the task a worker took from the workload
    errs,        \* a worker's view of m_errors inside push_back
    owner,       \* where the owner thread is
    submitted, rounds,  \* how many tasks and workloads were submitted
    runs,        \* history: executions of each task of the current workload
    execs,       \* history: executions of each task ever submitted
    aborted      \* std::terminate was called: by a "task", by "append", "no"

flow == <<pc, task, errs>>
load == <<m_workload, m_dirty>>
hist == <<runs, execs, aborted>>
count == <<submitted, rounds>>
vars == <<mode, m_status, load, m_active, m_index, m_errors, m_result, busy,
          it, flow, owner, count, hist>>

Workers == 0 .. m_size - 1

\* Mutant: the number of threads is not taken into account.
SecondOf(a, b) == b

(* std::min.                                                               *)
SmallerOf(a, b) == IF a < b THEN a ELSE b

-----------------------------------------------------------------------------
(* The constructor: nothing runs until start().                            *)
Init ==
    /\ mode \in [clear : ClearModes, error : ErrorModes, queue : Queues]
    /\ m_status = "STOPPED" /\ m_workload = <<>> /\ m_dirty = FALSE
    /\ m_active = 0 /\ m_index = 0 /\ m_errors = <<>> /\ m_result = "none"
    /\ busy = [w \in Workers |-> FALSE] /\ it = [w \in Workers |-> 0]
    /\ pc = [w \in Workers |-> "unborn"] /\ task = [w \in Workers |-> 0]
    /\ errs = [w \in Workers |-> <<>>]
    /\ owner = "idle" /\ submitted = 0 /\ rounds = 0
    /\ runs = <<>> /\ execs = [t \in 1 .. MaxTasks |-> 0]
    /\ aborted = "no"

(* start(): the threads are created between STARTING and READY and only    *)
(* look at TERMINATING meanwhile, so the two assignments are one step.      *)
(* With no threads to create it returns at once.                           *)
Start ==
    /\ owner = "idle" /\ m_status = "STOPPED" /\ m_size # 0
    /\ m_status' = "READY" /\ pc' = [w \in Workers |-> "wait"]
    /\ UNCHANGED <<mode, load, m_active, m_index, m_errors, m_result, busy, it,
                   task, errs, owner, count, hist>>

-----------------------------------------------------------------------------
(* The owner thread.                                                       *)

(* clearWorkload() as operator<< and processWorkload() call it.            *)
DirtyAtNext == mode.clear = "AT_NEXT_WORKLOAD" /\ m_dirty

\* Mutant: clearWorkload resets the flag and forgets the tasks.
KeptTasks(condition) == m_workload

Cleared(condition) == IF condition THEN <<>> ELSE m_workload

(* std::terminate: every thread of the process ends.                       *)
Abort(reason) ==
    /\ aborted' = reason
    /\ owner' = "gone"
    /\ pc' = [w \in Workers |-> "exit"]

(* operator<<: it throws on a load being processed, which no caller        *)
(* catches; otherwise the task goes to the end of the workload.            *)
AppendTask ==
    /\ owner = "idle" /\ submitted < MaxTasks
    /\ submitted' = submitted + 1
    /\ IF m_status \in {"PROCESSING", "ERROR"}
       THEN Abort("append") /\ UNCHANGED load
       ELSE /\ m_workload' = Append(Cleared(DirtyAtNext), submitted')
            /\ m_dirty' = (m_dirty /\ ~DirtyAtNext)
            /\ UNCHANGED <<owner, pc, aborted>>
    /\ UNCHANGED <<mode, m_status, m_active, m_index, m_errors, m_result, busy,
                   it, task, errs, rounds, runs, execs>>

(* processWorkload, from the tests to m_status = PROCESSING, on workload   *)
(* w whose dirty flag is d.  An invalid future sends the owner on its way. *)
BeginWorkload(w, d) ==
    LET clear == mode.clear = "AT_NEXT_WORKLOAD" /\ m_status = "READY" /\ d
        load1 == IF clear THEN <<>> ELSE w
    IN /\ m_workload' = load1
       /\ IF m_status # "READY" \/ load1 = <<>>
          THEN /\ m_dirty' = (d /\ ~clear)
               /\ UNCHANGED <<m_status, m_active, m_index, m_result, owner,
                              runs>>
          ELSE /\ m_dirty' = TRUE
               /\ m_result' = "unset"
               /\ m_active' = SmallerOf(m_size, Len(load1))
               /\ m_index' = 0
               /\ m_status' = "PROCESSING"
               /\ owner' = "publish"
               /\ runs' = [i \in 1 .. Len(load1) |-> 0]

(* processWorkload() on what was appended with operator<<.                 *)
ProcessWorkload ==
    /\ owner = "idle" /\ rounds < MaxRounds
    /\ rounds' = rounds + 1
    /\ BeginWorkload(m_workload, m_dirty)
    /\ UNCHANGED <<mode, m_errors, busy, it, flow, submitted, execs, aborted>>

(* processWorkload(workload) with n new tasks; the copy and the move       *)
(* differ only in what is left in the caller's vector.                     *)
ProcessGivenWorkload(n) ==
    /\ owner = "idle" /\ rounds < MaxRounds /\ submitted + n <= MaxTasks
    /\ rounds' = rounds + 1
    /\ submitted' = submitted + n
    /\ IF m_status # "READY"
       THEN UNCHANGED <<m_status, load, m_active, m_index, m_result, owner,
                        runs>>
       ELSE BeginWorkload([i \in 1 .. n |-> submitted + i], FALSE)
    /\ UNCHANGED <<mode, m_errors, busy, it, flow, execs, aborted>>

\* Mutant: nobody is notified.
NotifyNobody == UNCHANGED pc

(* Wakes every worker blocked on m_waitForWork.                            *)
NotifyAll == pc' = [w \in Workers |-> IF pc[w] = "blocked" THEN "wait"
                                      ELSE pc[w]]

(* The rest of processWorkload, under the exclusive lock: prepare the      *)
(* first m_active workers (a MultiQueue worker starts at its id), notify.  *)
Publish ==
    /\ owner = "publish"
    /\ busy' = [w \in Workers |-> w < m_active \/ busy[w]]
    /\ it' = [w \in Workers |-> IF w < m_active /\ mode.queue = "MultiQueue"
                                THEN w ELSE it[w]]
    /\ NotifyAll
    /\ owner' = "waiting"
    /\ UNCHANGED <<mode, m_status, load, m_active, m_index, m_errors, m_result,
                   task, errs, count, hist>>

(* job.wait() in the callers.                                              *)
WaitForFuture ==
    /\ owner = "waiting" /\ m_result = "set"
    /\ owner' = "idle"
    /\ UNCHANGED <<mode, m_status, load, m_active, m_index, m_errors, m_result,
                   busy, it, flow, count, hist>>

(* ~ThreadPool: TERMINATING and notify_all under the exclusive lock...     *)
Destroy ==
    /\ owner = "idle"
    /\ m_status' = "TERMINATING"
    /\ NotifyAll
    /\ owner' = "join"
    /\ UNCHANGED <<mode, load, m_active, m_index, m_errors, m_result, busy, it,
                   task, errs, count, hist>>

(* ... then ~worker joins every thread that was created.                   *)
Join ==
    /\ owner = "join" /\ \A w \in Workers : pc[w] \in {"unborn", "exit"}
    /\ owner' = "gone"
    /\ UNCHANGED <<mode, m_status, load, m_active, m_index, m_errors, m_result,
                   busy, it, flow, count, hist>>

-----------------------------------------------------------------------------
(* The worker threads.                                                     *)

Goto(w, label) == pc' = [pc EXCEPT ![w] = label]

(* waitForWork: test busy and TERMINATING under the shared lock, block.    *)
WaitForWork(w) ==
    /\ pc[w] = "wait"
    /\ Goto(w, IF busy[w] \/ m_status = "TERMINATING" THEN "woken"
               ELSE "blocked")
    /\ UNCHANGED <<mode, m_status, load, m_active, m_index, m_errors, m_result,
                   busy, it, task, errs, owner, count, hist>>

(* condition_variable_any::wait may return without a notification.         *)
SpuriousWakeup(w) ==
    /\ pc[w] = "blocked"
    /\ Goto(w, "wait")
    /\ UNCHANGED <<mode, m_status, load, m_active, m_index, m_errors, m_result,
                   busy, it, task, errs, owner, count, hist>>

(* loop: leave when the pool is terminating, else pre() and doWork().      *)
LoopTop(w) ==
    /\ pc[w] = "woken"
    /\ Goto(w, IF m_status = "TERMINATING" THEN "leave" ELSE "work")
    /\ UNCHANGED <<mode, m_status, load, m_active, m_index, m_errors, m_result,
                   busy, it, task, errs, owner, count, hist>>

(* The index a worker looks at next, and how it moves on: the shared       *)
(* m_index++ of worker_sq, the private stride of worker_mq.                *)
NextIndex(w) == IF mode.queue = "SingleQueue" THEN m_index ELSE it[w]

TakeTask(w) == NextIndex(w) < Len(m_workload) /\ m_status = "PROCESSING"

\* Mutant: a MultiQueue worker moves on by one.
UnitStride == 1

(* it += pool->m_size: the workers take every m_size-th task each.         *)
Stride == m_size

(* doWork: worker_sq advances even when there is nothing left, worker_mq   *)
(* only when it takes the task.                                            *)
DoWork(w) ==
    /\ pc[w] = "work"
    /\ IF TakeTask(w)
       THEN Goto(w, "exec") /\ task' = [task EXCEPT ![w] = NextIndex(w) + 1]
       ELSE Goto(w, "post") /\ UNCHANGED task
    /\ m_index' = IF mode.queue = "SingleQueue" THEN m_index + 1 ELSE m_index
    /\ it' = IF mode.queue = "MultiQueue" /\ TakeTask(w)
             THEN [it EXCEPT ![w] = @ + Stride] ELSE it
    /\ UNCHANGED <<mode, m_status, load, m_active, m_errors, m_result, busy,
                   errs, owner, count, hist>>

CountRun(w) ==
    /\ runs' = [runs EXCEPT ![task[w]] = @ + 1]
    /\ execs' = [execs EXCEPT ![m_workload[task[w]]] = @ + 1]

(* The task returns.                                                       *)
RunTask(w) ==
    /\ pc[w] = "exec"
    /\ CountRun(w)
    /\ Goto(w, "work")
    /\ UNCHANGED <<mode, m_status, load, m_active, m_index, m_errors, m_result,
                   busy, it, task, errs, owner, count, aborted>>

(* The task throws and nothing catches it.                                 *)
TaskAborts(w) ==
    /\ pc[w] = "exec" /\ mode.error = "NONE"
    /\ CountRun(w)
    /\ Abort("task")
    /\ UNCHANGED <<mode, m_status, load, m_active, m_index, m_errors, m_result,
                   busy, it, task, errs, count>>

(* The task throws and loop_wrapper catches it, to record it unless errors *)
(* are ignored.                                                            *)
TaskThrows(w) ==
    /\ pc[w] = "exec" /\ mode.error # "NONE"
    /\ CountRun(w)
    /\ Goto(w, IF mode.error = "IGNORE" THEN "leave" ELSE "record")
    /\ UNCHANGED <<mode, m_status, load, m_active, m_index, m_errors, m_result,
                   busy, it, task, errs, owner, count, aborted>>

(* m_errors.push_back is not synchronised: a worker reads the vector...    *)
ReadErrors(w) ==
    /\ pc[w] = "record"
    /\ errs' = [errs EXCEPT ![w] = m_errors]
    /\ Goto(w, "push")
    /\ UNCHANGED <<mode, m_status, load, m_active, m_index, m_errors, m_result,
                   busy, it, task, owner, count, hist>>

(* ... and writes it back, losing what others pushed in between.           *)
PushError(w) ==
    /\ pc[w] = "push"
    /\ m_errors' = Append(errs[w], m_workload[task[w]])
    /\ errs' = [errs EXCEPT ![w] = <<>>]
    /\ Goto(w, "leave")
    /\ UNCHANGED <<mode, m_status, load, m_active, m_index, m_result, busy, it,
                   task, owner, count, hist>>

(* The end of loop_wrapper: TERMINATE stops the pool, a terminating pool   *)
(* ends the thread, otherwise the loop starts again with busy still set.   *)
LeaveLoop(w) ==
    LET terminating == m_status = "TERMINATING" \/ mode.error = "TERMINATE"
    IN /\ pc[w] = "leave"
       /\ m_status' = IF mode.error = "TERMINATE" THEN "TERMINATING"
                      ELSE m_status
       /\ Goto(w, IF mode.error = "NONE" \/ terminating THEN "exit" ELSE "wait")
       /\ UNCHANGED <<mode, load, m_active, m_index, m_errors, m_result, busy,
                      it, task, errs, owner, count, hist>>

(* loop after doWork: post() and busy = false ...                          *)
ClearBusy(w) ==
    /\ pc[w] = "post"
    /\ busy' = [busy EXCEPT ![w] = FALSE]
    /\ Goto(w, "dec")
    /\ UNCHANGED <<mode, m_status, load, m_active, m_index, m_errors, m_result,
                   it, task, errs, owner, count, hist>>

\* Mutant: the last but one worker completes the workload.
DecrementActiveEarly(w) ==
    /\ pc[w] = "dec"
    /\ m_active' = m_active - 1
    /\ Goto(w, IF m_active <= 2 THEN "last" ELSE "wait")
    /\ UNCHANGED <<mode, m_status, load, m_index, m_errors, m_result, busy, it,
                   task, errs, owner, count, hist>>

(* ... --m_active; only the worker that brings it to zero completes ...    *)
DecrementActive(w) ==
    /\ pc[w] = "dec"
    /\ m_active' = m_active - 1
    /\ Goto(w, IF m_active = 1 THEN "last" ELSE "wait")
    /\ UNCHANGED <<mode, m_status, load, m_index, m_errors, m_result, busy, it,
                   task, errs, owner, count, hist>>

\* Mutant: the promise is fulfilled before the pool is READY again.
PromiseFirst(w) ==
    /\ pc[w] = "last"
    /\ m_result' = "set"
    /\ Goto(w, "fulfil")
    /\ UNCHANGED <<mode, m_status, load, m_active, m_index, m_errors, busy, it,
                   task, errs, owner, count, hist>>

(* ... the workload: clear it if so configured, READY ...                  *)
(* (No assignment of Status::ERROR exists, so that branch is dead code.)   *)
BecomeReady(w) ==
    /\ pc[w] = "last"
    /\ m_workload' = Cleared(mode.clear = "UPPON_COMPLETION")
    /\ m_dirty' = (m_dirty /\ mode.clear # "UPPON_COMPLETION")
    /\ m_status' = "READY"
    /\ Goto(w, "fulfil")
    /\ UNCHANGED <<mode, m_active, m_index, m_errors, m_result, busy, it, task,
                   errs, owner, count, hist>>

(* ... and only then m_result.set_value().                                 *)
SetValue(w) ==
    /\ pc[w] = "fulfil"
    /\ m_result' = "set"
    /\ Goto(w, "wait")
    /\ UNCHANGED <<mode, m_status, load, m_active, m_index, m_errors, busy, it,
                   task, errs, owner, count, hist>>

-----------------------------------------------------------------------------
WorkerStep(w) ==
    \/ WaitForWork(w) \/ LoopTop(w) \/ DoWork(w) \/ RunTask(w)
    \/ TaskAborts(w) \/ TaskThrows(w) \/ ReadErrors(w) \/ PushError(w)
    \/ LeaveLoop(w) \/ ClearBusy(w) \/ DecrementActive(w) \/ BecomeReady(w)
    \/ SetValue(w)

OwnerSubmits ==
    \/ Start \/ AppendTask \/ ProcessWorkload \/ Destroy
    \/ \E n \in 0 .. MaxTasks : ProcessGivenWorkload(n)

OwnerFollowsThrough == Publish \/ WaitForFuture \/ Join

(* The pool is gone, or the process is.                                    *)
Finished == owner = "gone" /\ UNCHANGED vars

Next ==
    \/ OwnerSubmits
    \/ OwnerFollowsThrough
    \/ \E w \in Workers : WorkerStep(w) \/ SpuriousWakeup(w)
    \/ Finished

Spec == Init /\ [][Next]_vars

(* Threads are scheduled by the operating system: one that can run does.   *)
(* Nothing forces the owner to submit, or a wait to return spuriously.     *)
Fairness ==
    /\ WF_vars(OwnerFollowsThrough)
    /\ \A w \in Workers : WF_vars(WorkerStep(w))

FairSpec == Spec /\ Fairness

-----------------------------------------------------------------------------
(* Properties.                                                             *)

Labels == {"unborn", "wait", "blocked", "woken", "work", "exec", "record",
           "push", "leave", "post", "dec", "last", "fulfil", "exit"}

(* Every variable stays in the range the code's types give it; m_active,   *)
(* an atomic<int>, never goes below zero.                                  *)
TypeOK ==
    /\ mode \in [clear : ClearModes, error : ErrorModes, queue : Queues]
    /\ m_status \in {"STOPPED", "READY", "PROCESSING", "TERMINATING"}
    /\ m_workload \in Seq(1 .. MaxTasks) /\ m_dirty \in BOOLEAN
    /\ m_active \in 0 .. m_size /\ m_index \in Nat
    /\ m_errors \in Seq(1 .. MaxTasks)
    /\ m_result \in {"none", "unset", "set"}
    /\ busy \in [Workers -> BOOLEAN] /\ it \in [Workers -> Nat]
    /\ pc \in [Workers -> Labels] /\ task \in [Workers -> Nat]
    /\ errs \in [Workers -> Seq(1 .. MaxTasks)]
    /\ owner \in {"idle", "publish", "waiting", "join", "gone"}
    /\ submitted \in 0 .. MaxTasks /\ rounds \in 0 .. MaxRounds
    /\ runs \in Seq(Nat) /\ Len(runs) <= MaxTasks
    /\ execs \in [1 .. MaxTasks -> Nat]
    /\ aborted \in {"no", "task", "append"}

(* No task of a workload runs twice, whatever worker type shares it out,   *)
(* and when the future is ready every task has run: nothing is skipped     *)
(* behind the owner's back (doWork, m_index, the last --m_active).         *)
ExactlyOnce ==
    /\ \A i \in DOMAIN runs : runs[i] <= 1
    /\ m_result = "set" => \A i \in DOMAIN runs : runs[i] = 1

(* Once the owner holds the pool again no worker is inside the old         *)
(* workload, so its tasks and what they point at may be destroyed; only a  *)
(* pool that is being destroyed moves a worker.                            *)
QuietWhenResolved ==
    m_result = "set" /\ owner = "idle" =>
        \A w \in Workers : ~busy[w] /\ pc[w] \in {"wait", "blocked"}

(* A task is not run again by a later workload unless the pool was built   *)
(* with ClearMode::NEVER: SqlResultQueue::Update calls processWorkload()   *)
(* on every tick, also when nothing was appended since.                    *)
NoRerun == mode.clear # "NEVER" => \A t \in 1 .. MaxTasks : execs[t] <= 1

(* An owner that waited for its future finds the pool ready: operator<<    *)
(* never throws and no workload is turned away (READY before set_value).   *)
OwnerFindsReady ==
    /\ aborted # "append"
    /\ owner = "idle" => m_status \in {"STOPPED", "READY"}

(* A workload that was handed over comes back to its owner, and the        *)
(* destructor returns: no wake-up is lost between busy, m_active, the      *)
(* status and the condition variable.  Not under TERMINATE, where the      *)
(* worker whose task threw ends without --m_active and the owner waits for *)
(* ever; no pool of the program is built with it.                          *)
OwnerReturns ==
    owner \in {"publish", "waiting", "join"} /\ mode.error # "TERMINATE"
        ~> owner \in {"idle", "gone"}

(* The refinement mapping: the pool is the owner's again once the promise  *)
(* is fulfilled.                                                           *)
Abstract == INSTANCE TaskBarrier WITH
    Tasks <- 1 .. MaxTasks,
    phase <- IF m_result = "unset" THEN "running" ELSE "free",
    todo  <- {i \in DOMAIN runs : runs[i] = 0}

(* ThreadPool implements TaskBarrier.                                      *)
ImplementsBarrier == Abstract!Spec
=============================================================================
