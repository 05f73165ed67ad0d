-------------------------------- MODULE SqlDelay --------------------------------
(***************************************************************************)
(* Asynchronous SQL: src/shared/Database (Database, SqlDelayThread,        *)
(* SqlOperations).  Caller threads hand statements, transactions, queries  *)
(* and query holders to delay threads, through one shared queue or through *)
(* the serial queue of one thread; results come back through the result    *)
(* queue, which the world thread empties once a tick; StopServer ends it.  *)
(*                                                                         *)
(* An operation is its position in ops, the order in which operations were *)
(* handed over.  A transaction is one step: nothing of it is visible before*)
(* COMMIT.  Whether it succeeds, and what a lost connection does to it, is *)
(* in SqlSession.  LockedQueue locks every add and next, so each is one    *)
(* step.                                                                   *)
(***************************************************************************)
EXTENDS Naturals, Sequences, FiniteSets

CONSTANTS Threads,        \* threads that call the database
          NumWorkers,     \* WorkerThreads of the configuration
          Shapes,         \* the kinds of operations these threads issue
          HolderQueries,  \* queries in one SqlQueryHolder
          MaxOps,         \* bound: operations ever issued
          MaxMixed,       \* bound: those issued if they are not all alike
          MaxStmts,       \* bound: statements of a transaction
          Limited         \* a budget or a tick timeout is configured

(* What a thread may ask for: the serial id (a player's GUID, 0: none) and *)
(* the callback: "none", "op" (SqlOperation::callback, run by the delay    *)
(* thread), "safe" or "unsafe" (IQueryCallback, run from the result queue).*)
OpShapes ==
    [kind : {"plain"}, serial : {0}, cb : {"none", "op"}]
    \cup [kind : {"trans"}, serial : Nat, cb : {"none", "op"}]
    \cup [kind : {"query"}, serial : {0}, cb : {"safe", "unsafe"}]
    \cup [kind : {"holder"}, serial : Nat, cb : {"safe", "unsafe"}]

ASSUME SqlAssumption ==
    /\ NumWorkers \in Nat \ {0}
    /\ MaxOps \in Nat /\ MaxMixed \in Nat /\ MaxStmts \in Nat
    /\ HolderQueries \in Nat \ {0} /\ Limited \in BOOLEAN
    /\ Shapes \subseteq OpShapes

VARIABLES
    ops,                 \* history: the operations handed over
    async,               \* m_bAllowAsyncTransactions
    trans,               \* m_TransStorage: the open transaction of a thread
    m_delayQueue, m_serialDelayQueue, m_running,
    pc, cur,             \* where a delay thread is, the operation it has
    ended,               \* history: operations executed, in this order
    seen,                \* what the queries of a holder found
    results,             \* SqlResultQueue itself
    unsafeWaiting,       \* _threadUnsafeWaitingQueries
    batch,               \* callbacks the callback pool has in this pass
    pass, ran,           \* where SqlResultQueue::Update is; unsafeRan
    arrived,             \* history: unsafe callbacks in the order of results
    called,              \* history: operations whose callback was run
    unsafeCalled,        \* history: unsafe callbacks run by Update, in order
    stop, at             \* where StopServer is, and its loop variable

client == <<async, trans>>
queues == <<m_delayQueue, m_serialDelayQueue>>
worker == <<pc, cur>>
done == <<ended, seen>>
result == <<results, unsafeWaiting, batch, pass, ran, arrived>>
calls == <<called, unsafeCalled>>
halt == <<m_running, stop, at>>
vars == <<ops, client, queues, worker, done, result, calls, halt>>

Workers == 0 .. NumWorkers - 1
Ids == 1 .. Len(ops)
NoTrans == [serial |-> 0, size |-> 0, open |-> FALSE]
Elements(s) == {s[i] : i \in 1 .. Len(s)}

(* Database::Initialize: connections, result queue, one thread per worker. *)
Init ==
    /\ ops = <<>> /\ async = FALSE /\ trans = [t \in Threads |-> NoTrans]
    /\ m_delayQueue = <<>> /\ m_serialDelayQueue = [w \in Workers |-> <<>>]
    /\ m_running = [w \in Workers |-> TRUE]
    /\ pc = [w \in Workers |-> "test"] /\ cur = [w \in Workers |-> 0]
    /\ ended = <<>> /\ seen = <<>>
    /\ results = <<>> /\ unsafeWaiting = <<>> /\ batch = {}
    /\ pass = "idle" /\ ran = FALSE /\ arrived = <<>>
    /\ called = {} /\ unsafeCalled = <<>>
    /\ stop = "up" /\ at = 0

-----------------------------------------------------------------------------
(* The calling threads.  They have ended when StopServer is called.        *)

(* AllowAsyncTransactions, when the server has started.                    *)
AllowAsyncTransactions ==
    /\ stop = "up" /\ ~async /\ async' = TRUE
    /\ UNCHANGED <<ops, trans, queues, worker, done, result, calls, halt>>

(* A new operation, the id of which is its place in ops.                   *)
Issue(shape) ==
    /\ stop = "up" /\ Len(ops) < MaxOps
    /\ Len(ops) < MaxMixed \/ Elements(ops) \subseteq {shape}
    /\ ops' = Append(ops, shape) /\ seen' = Append(seen, <<>>)

(* AddToDelayQueue.                                                        *)
AddToDelayQueue(id) ==
    m_delayQueue' = Append(m_delayQueue, id) /\ UNCHANGED m_serialDelayQueue

\* Mutant: balance the load by queue length.
LeastLoaded(id, serial) ==
    LET best == CHOOSE w \in Workers : \A v \in Workers :
                    Len(m_serialDelayQueue[w]) <= Len(m_serialDelayQueue[v])
    IN /\ m_serialDelayQueue' = [m_serialDelayQueue EXCEPT ![best] = Append(@, id)]
       /\ UNCHANGED m_delayQueue

(* AddToSerialDelayQueue: the thread is chosen by the serial id.           *)
AddToSerialDelayQueue(id, serial) ==
    IF serial = 0
    THEN AddToDelayQueue(id)
    ELSE /\ m_serialDelayQueue' = [m_serialDelayQueue EXCEPT
                                      ![serial % NumWorkers] = Append(@, id)]
         /\ UNCHANGED m_delayQueue

(* Execution on m_pAsyncConn by the calling thread, under its lock.        *)
Directly(id) ==
    /\ ended' = Append(ended, id)
    /\ UNCHANGED queues

(* Execute, ExecuteStmt outside a transaction.  DirectExecute of the       *)
(* start-up forgets the callback.                                          *)
Execute(t, shape) ==
    /\ shape.kind = "plain" /\ ~trans[t].open
    /\ Issue(shape)
    /\ LET id == Len(ops) + 1 IN
       IF async THEN AddToDelayQueue(id) /\ UNCHANGED ended
                ELSE Directly(id)
    /\ UNCHANGED <<client, worker, result, calls, halt>>

(* BeginTransaction; a nested one is refused.                              *)
BeginTransaction(t, serial) ==
    /\ stop = "up" /\ ~trans[t].open /\ Len(ops) < MaxOps
    /\ trans' = [trans EXCEPT ![t] = [serial |-> serial, size |-> 0, open |-> TRUE]]
    /\ UNCHANGED <<ops, async, queues, worker, done, result, calls, halt>>

(* Execute, ExecuteStmt inside a transaction: DelayExecute.                *)
DelayExecute(t) ==
    /\ stop = "up" /\ trans[t].open /\ trans[t].size < MaxStmts
    /\ trans' = [trans EXCEPT ![t].size = @ + 1]
    /\ UNCHANGED <<ops, async, queues, worker, done, result, calls, halt>>

(* RollbackTransaction: the statements were not executed yet.              *)
RollbackTransaction(t) ==
    /\ stop = "up" /\ trans[t].open
    /\ trans' = [trans EXCEPT ![t] = NoTrans]
    /\ UNCHANGED <<ops, async, queues, worker, done, result, calls, halt>>

(* CommitTransaction: direct until the server has started (the callback is *)
(* then called at once), by serial id after that.                          *)
CommitTransaction(t, shape) ==
    /\ shape.kind = "trans" /\ trans[t].open /\ shape.serial = trans[t].serial
    /\ Issue(shape)
    /\ trans' = [trans EXCEPT ![t] = NoTrans]
    /\ LET id == Len(ops) + 1 IN
       IF async
       THEN AddToSerialDelayQueue(id, shape.serial) /\ UNCHANGED <<ended, called>>
       ELSE /\ Directly(id)
            /\ called' = IF shape.cb = "op" THEN called \cup {id} ELSE called
    /\ UNCHANGED <<async, worker, result, unsafeCalled, halt>>

(* CommitTransactionDirect; MailDraft::SendMailTo is its only caller that  *)
(* asks for it, with a transaction that has no serial id.                  *)
CommitTransactionDirect(t, shape) ==
    /\ shape.kind = "trans" /\ shape.cb = "none" /\ shape.serial = 0
    /\ trans[t].open /\ trans[t].serial = 0 /\ async
    /\ Issue(shape)
    /\ trans' = [trans EXCEPT ![t] = NoTrans]
    /\ Directly(Len(ops) + 1)
    /\ UNCHANGED <<async, worker, result, calls, halt>>

(* AsyncQuery and AsyncQueryUnsafe.                                        *)
AsyncQuery(t, shape) ==
    /\ shape.kind = "query" /\ Issue(shape)
    /\ AddToDelayQueue(Len(ops) + 1)
    /\ UNCHANGED <<client, worker, ended, result, calls, halt>>

(* DelayQueryHolder and DelayQueryHolderUnsafe: SqlQueryHolder::Execute.   *)
(* All callers are sessions, bots and commands, which exist only once      *)
(* Master::Run has allowed asynchronous transactions.                      *)
DelayQueryHolder(t, shape) ==
    /\ shape.kind = "holder" /\ async /\ Issue(shape)
    /\ AddToSerialDelayQueue(Len(ops) + 1, shape.serial)
    /\ UNCHANGED <<client, worker, ended, result, calls, halt>>

-----------------------------------------------------------------------------
(* A delay thread: SqlDelayThread::run.                                    *)

(* while (m_running); the sleep that follows changes nothing.              *)
LoopTest(w) ==
    /\ pc[w] = "test"
    /\ pc' = [pc EXCEPT ![w] = IF m_running[w] THEN "shared" ELSE "exit"]
    /\ UNCHANGED <<ops, client, queues, cur, done, result, calls, halt>>

\* Mutant: front and pop_front without the lock; another thread's pop may be
\* the one that counts.
NextUnlockedOperation(w) ==
    /\ pc[w] = "shared" /\ cur[w] = 0
    /\ IF m_delayQueue = <<>>
       THEN pc' = [pc EXCEPT ![w] = "serial"] /\ UNCHANGED <<cur, m_delayQueue>>
       ELSE /\ cur' = [cur EXCEPT ![w] = Head(m_delayQueue)]
            /\ m_delayQueue' \in {m_delayQueue, Tail(m_delayQueue)} /\ UNCHANGED pc
    /\ UNCHANGED <<ops, client, m_serialDelayQueue, done, result, calls, halt>>

(* ProcessRequests, first loop: all of the shared queue.                   *)
NextDelayedOperation(w) ==
    /\ pc[w] = "shared" /\ cur[w] = 0
    /\ IF m_delayQueue = <<>>
       THEN pc' = [pc EXCEPT ![w] = "serial"] /\ UNCHANGED <<cur, m_delayQueue>>
       ELSE /\ cur' = [cur EXCEPT ![w] = Head(m_delayQueue)]
            /\ m_delayQueue' = Tail(m_delayQueue) /\ UNCHANGED pc
    /\ UNCHANGED <<ops, client, m_serialDelayQueue, done, result, calls, halt>>

\* Mutant: an idle thread helps with the serial queue of another.
NextStolenOperation(w) ==
    /\ pc[w] = "serial" /\ cur[w] = 0
    /\ LET q == IF m_serialDelayQueue[w] # <<>> THEN w ELSE (w + 1) % NumWorkers IN
       IF m_serialDelayQueue[q] = <<>>
       THEN /\ pc' = [pc EXCEPT ![w] = IF stop = "drain" THEN "gone" ELSE "test"]
            /\ UNCHANGED <<cur, m_serialDelayQueue>>
       ELSE /\ cur' = [cur EXCEPT ![w] = Head(m_serialDelayQueue[q])]
            /\ m_serialDelayQueue' = [m_serialDelayQueue EXCEPT ![q] = Tail(@)]
            /\ UNCHANGED pc
    /\ UNCHANGED <<ops, client, m_delayQueue, done, result, calls, halt>>

(* ProcessRequests, second loop: the serial queue of this thread.          *)
NextSerialOperation(w) ==
    /\ pc[w] = "serial" /\ cur[w] = 0
    /\ IF m_serialDelayQueue[w] = <<>>
       THEN /\ pc' = [pc EXCEPT ![w] = IF stop = "drain" THEN "gone" ELSE "test"]
            /\ UNCHANGED <<cur, m_serialDelayQueue>>
       ELSE /\ cur' = [cur EXCEPT ![w] = Head(m_serialDelayQueue[w])]
            /\ m_serialDelayQueue' = [m_serialDelayQueue EXCEPT ![w] = Tail(@)]
            /\ UNCHANGED pc
    /\ UNCHANGED <<ops, client, m_delayQueue, done, result, calls, halt>>

Has(w, kinds) == cur[w] # 0 /\ ops[cur[w]].kind \in kinds

(* Execute of a statement or a transaction, then its callback.             *)
PerformWrite(w) ==
    /\ Has(w, {"plain", "trans"})
    /\ ended' = Append(ended, cur[w])
    /\ called' = IF ops[cur[w]].cb = "op" THEN called \cup {cur[w]} ELSE called
    /\ cur' = [cur EXCEPT ![w] = 0]
    /\ UNCHANGED <<ops, client, queues, pc, seen, result, unsafeCalled, halt>>

(* The saves of a player that a query finds.                               *)
SavedOf(serial) ==
    {id \in Elements(ended) : ops[id].kind = "trans" /\ ops[id].serial = serial}

(* SqlQueryHolderEx::Execute: one query of the holder.                     *)
HolderQuery(w) ==
    /\ Has(w, {"holder"}) /\ Len(seen[cur[w]]) < HolderQueries
    /\ seen' = [seen EXCEPT ![cur[w]] = Append(@, SavedOf(ops[cur[w]].serial))]
    /\ UNCHANGED <<ops, client, queues, worker, ended, result, calls, halt>>

(* SqlQuery::Execute, and the end of SqlQueryHolderEx::Execute: the        *)
(* callback goes to the result queue.                                      *)
AddResult(w) ==
    /\ Has(w, {"query", "holder"})
    /\ ops[cur[w]].kind = "holder" => Len(seen[cur[w]]) = HolderQueries
    /\ results' = Append(results, cur[w])
    /\ arrived' = IF ops[cur[w]].cb = "unsafe" THEN Append(arrived, cur[w]) ELSE arrived
    /\ ended' = Append(ended, cur[w])
    /\ cur' = [cur EXCEPT ![w] = 0]
    /\ UNCHANGED <<ops, client, queues, pc, seen, unsafeWaiting, batch,
                   pass, ran, calls, halt>>

-----------------------------------------------------------------------------
(* The world thread: SqlResultQueue::Update, once a tick.                  *)

BeginUpdate ==
    /\ stop = "up" /\ pass = "idle"
    /\ results # <<>> \/ unsafeWaiting # <<>>
    /\ pass' = "take" /\ ran' = FALSE
    /\ UNCHANGED <<ops, client, queues, worker, done, results, unsafeWaiting,
                   batch, arrived, calls, halt>>

\* Mutant: no else after the test of IsThreadSafe.
TakeResultTwice ==
    /\ pass = "take" /\ results # <<>>
    /\ LET id == Head(results) IN
       /\ unsafeWaiting' = IF ops[id].cb = "unsafe" THEN Append(unsafeWaiting, id)
                                                    ELSE unsafeWaiting
       /\ batch' = batch \cup {id}
    /\ results' = Tail(results)
    /\ UNCHANGED <<ops, client, queues, worker, done, pass, ran, arrived, calls,
                   halt>>

(* The first loop: unsafe callbacks wait, safe ones are for the pool.      *)
TakeResult ==
    /\ pass = "take" /\ results # <<>>
    /\ LET id == Head(results) IN
       IF ops[id].cb = "unsafe"
       THEN unsafeWaiting' = Append(unsafeWaiting, id) /\ UNCHANGED batch
       ELSE batch' = batch \cup {id} /\ UNCHANGED unsafeWaiting
    /\ results' = Tail(results)
    /\ UNCHANGED <<ops, client, queues, worker, done, pass, ran, arrived, calls,
                   halt>>

(* processWorkload, when the result queue was found empty.                 *)
StartPool ==
    /\ pass = "take" /\ results = <<>> /\ pass' = "run"
    /\ UNCHANGED <<ops, client, queues, worker, done, results, unsafeWaiting,
                   batch, ran, arrived, calls, halt>>

(* A thread of the pool runs a callback (TaskBarrier!Run).                 *)
PoolCallback ==
    /\ pass \in {"run", "wait"}
    /\ \E id \in batch : batch' = batch \ {id} /\ called' = called \cup {id}
    /\ UNCHANGED <<ops, client, queues, worker, done, results, unsafeWaiting,
                   pass, ran, arrived, unsafeCalled, halt>>

\* Mutant: the callback the budget stopped at goes back to the end.
UnsafeCallbackRequeued ==
    /\ pass = "run" /\ unsafeWaiting # <<>>
    /\ \/ /\ unsafeWaiting' = Tail(unsafeWaiting)
          /\ called' = called \cup {Head(unsafeWaiting)}
          /\ unsafeCalled' = Append(unsafeCalled, Head(unsafeWaiting))
       \/ /\ Limited /\ ran
          /\ unsafeWaiting' = Append(Tail(unsafeWaiting), Head(unsafeWaiting))
          /\ UNCHANGED calls
    /\ ran' = TRUE
    /\ UNCHANGED <<ops, client, queues, worker, done, results, batch, pass,
                   arrived, halt>>

(* The second loop: the world thread runs the oldest unsafe callback.      *)
UnsafeCallback ==
    /\ pass = "run" /\ unsafeWaiting # <<>>
    /\ unsafeWaiting' = Tail(unsafeWaiting)
    /\ called' = called \cup {Head(unsafeWaiting)}
    /\ unsafeCalled' = Append(unsafeCalled, Head(unsafeWaiting))
    /\ ran' = TRUE
    /\ UNCHANGED <<ops, client, queues, worker, done, results, batch, pass,
                   arrived, halt>>

\* Mutant: the budget is tested before the first callback of a pass, too.
StopBeforeFirst == Limited

(* StopBefore of the budget, and the test of the tick timeout: both only   *)
(* once a callback of this pass has run.                                   *)
StopBefore == Limited /\ ran

(* The second loop ends.                                                   *)
EndUnsafe ==
    /\ pass = "run" /\ (unsafeWaiting = <<>> \/ StopBefore)
    /\ pass' = "wait"
    /\ UNCHANGED <<ops, client, queues, worker, done, results, unsafeWaiting,
                   batch, ran, arrived, calls, halt>>

(* job.wait(): the pool has run them all.                                  *)
EndUpdate ==
    /\ pass = "wait" /\ batch = {} /\ pass' = "idle"
    /\ UNCHANGED <<ops, client, queues, worker, done, results, unsafeWaiting,
                   batch, ran, arrived, calls, halt>>

-----------------------------------------------------------------------------
(* The main thread, after it joined the world thread: StopServer.          *)

StopServer ==
    /\ stop = "up" /\ pass = "idle" /\ async
    /\ stop' = "halt" /\ at' = 0
    /\ UNCHANGED <<ops, client, queues, worker, done, result, calls, m_running>>

\* Mutants: the loop ends one thread too late, or too early.
StopTooMany ==
    /\ stop = "halt"
    /\ IF at <= NumWorkers
       THEN m_running' = [m_running EXCEPT ![at] = FALSE] /\ at' = at + 1 /\ UNCHANGED stop
       ELSE stop' = "join" /\ at' = 0 /\ UNCHANGED m_running
    /\ UNCHANGED <<ops, client, queues, worker, done, result, calls>>
StopTooFew ==
    /\ stop = "halt"
    /\ IF at < NumWorkers - 1
       THEN m_running' = [m_running EXCEPT ![at] = FALSE] /\ at' = at + 1 /\ UNCHANGED stop
       ELSE stop' = "join" /\ at' = 0 /\ UNCHANGED m_running
    /\ UNCHANGED <<ops, client, queues, worker, done, result, calls>>

(* HaltDelayThread, first loop: Stop.                                      *)
StopThread ==
    /\ stop = "halt"
    /\ IF at < NumWorkers
       THEN m_running' = [m_running EXCEPT ![at] = FALSE] /\ at' = at + 1 /\ UNCHANGED stop
       ELSE stop' = "join" /\ at' = 0 /\ UNCHANGED m_running
    /\ UNCHANGED <<ops, client, queues, worker, done, result, calls>>

(* HaltDelayThread, second loop: join.                                     *)
JoinThread ==
    /\ stop = "join"
    /\ IF at < NumWorkers
       THEN pc[at] = "exit" /\ at' = at + 1 /\ UNCHANGED stop
       ELSE stop' = "drain" /\ at' = 0
    /\ UNCHANGED <<ops, client, queues, worker, done, result, calls, m_running>>

\* Mutant: ~SqlDelayThread does not process what is left.
DropBody(w) == pc' = [pc EXCEPT ![w] = "gone"]

(* ~SqlDelayThread: ProcessRequests once more, now on the main thread,     *)
(* with the connection of the thread that has ended.                       *)
DestroyBody(w) == pc' = [pc EXCEPT ![w] = "shared"]

(* m_threadsBodies.clear(): one body after the other.                      *)
ClearBodies ==
    /\ stop = "drain" /\ (at > 0 => pc[at - 1] = "gone")
    /\ IF at < NumWorkers
       THEN DestroyBody(at) /\ at' = at + 1 /\ UNCHANGED stop
       ELSE stop' = "cancel" /\ UNCHANGED <<pc, at>>
    /\ UNCHANGED <<ops, client, queues, cur, done, result, calls, m_running>>

(* CancelAll: what is in the result queue is called with no result.  The   *)
(* result queue is then deleted, and the connections with it.              *)
CancelAll ==
    /\ stop = "cancel"
    /\ IF results # <<>>
       THEN /\ called' = called \cup {Head(results)}
            /\ results' = Tail(results) /\ UNCHANGED stop
       ELSE stop' = "down" /\ UNCHANGED <<called, results>>
    /\ UNCHANGED <<ops, client, queues, worker, done, unsafeWaiting, batch, pass,
                   ran, arrived, unsafeCalled, m_running, at>>

(* The process ends after StopServer.                                      *)
Stopped == stop = "down" /\ UNCHANGED vars

-----------------------------------------------------------------------------
Call(t) ==
    \/ \E shape \in Shapes :
          \/ Execute(t, shape) \/ CommitTransaction(t, shape)
          \/ CommitTransactionDirect(t, shape)
          \/ AsyncQuery(t, shape) \/ DelayQueryHolder(t, shape)
          \/ shape.kind = "trans" /\ BeginTransaction(t, shape.serial)
    \/ DelayExecute(t) \/ RollbackTransaction(t)

Work(w) ==
    \/ LoopTest(w) \/ NextDelayedOperation(w) \/ NextSerialOperation(w)
    \/ PerformWrite(w) \/ HolderQuery(w) \/ AddResult(w)

Update ==
    \/ BeginUpdate \/ TakeResult \/ StartPool \/ UnsafeCallback \/ EndUnsafe
    \/ EndUpdate

Halt ==
    \/ StopThread \/ JoinThread \/ ClearBodies \/ CancelAll

Next ==
    \/ AllowAsyncTransactions \/ StopServer
    \/ \E t \in Threads : Call(t)
    \/ \E w \in Workers : Work(w)
    \/ Update \/ PoolCallback \/ Halt \/ Stopped

Spec == Init /\ [][Next]_vars

(* The scheduler runs every thread; callers need not call, and nobody need *)
(* stop the server.                                                        *)
FairSpec ==
    /\ Spec
    /\ \A w \in Workers : WF_vars(Work(w))
    /\ WF_vars(Update) /\ WF_vars(PoolCallback) /\ WF_vars(Halt)

-----------------------------------------------------------------------------
(* The types of the variables.                                             *)
TypeOK ==
    /\ ops \in Seq(Shapes) /\ Len(ops) <= MaxOps
    /\ async \in BOOLEAN
    /\ trans \in [Threads -> [serial : {s.serial : s \in Shapes} \cup {0},
                              size : 0 .. MaxStmts, open : BOOLEAN]]
    /\ m_delayQueue \in Seq(Ids) /\ m_serialDelayQueue \in [Workers -> Seq(Ids)]
    /\ m_running \in [Workers -> BOOLEAN]
    /\ pc \in [Workers -> {"test", "shared", "serial", "exit", "gone"}]
    /\ cur \in [Workers -> Ids \cup {0}]
    /\ ended \in Seq(Ids)
    /\ seen \in Seq(Seq(SUBSET Ids)) /\ Len(seen) = Len(ops)
    /\ results \in Seq(Ids) /\ unsafeWaiting \in Seq(Ids) /\ batch \subseteq Ids
    /\ pass \in {"idle", "take", "run", "wait"} /\ ran \in BOOLEAN
    /\ arrived \in Seq(Ids) /\ called \subseteq Ids /\ unsafeCalled \in Seq(Ids)
    /\ stop \in {"up", "halt", "join", "drain", "cancel", "down"}
    /\ at \in 0 .. NumWorkers

Times(id, s) == Cardinality({i \in 1 .. Len(s) : s[i] = id})

(* An operation handed to the database (AddToDelayQueue,                   *)
(* AddToSerialDelayQueue) waits in one queue, is in the hands of one       *)
(* thread, or was executed once: two threads never get the same one and    *)
(* none disappears, not even while the threads stop.                       *)
ExecutedOnce ==
    \A id \in Ids :
        /\ Cardinality({w \in Workers : cur[w] = id})
           + Cardinality({w \in Workers : Times(id, m_serialDelayQueue[w]) = 1})
           + Times(id, m_delayQueue) + Times(id, ended) = 1
        /\ \A w \in Workers : Times(id, m_serialDelayQueue[w]) <= 1

(* HaltDelayThread leaves nothing behind: what was queued while the        *)
(* threads were stopping is executed by their destructors.                 *)
HaltDrains == stop \in {"cancel", "down"} => Elements(ended) = Ids

(* Player::SaveToDB and the login of the same character are serialised by  *)
(* the GUID: every query of the login holder finds all saves handed over   *)
(* before it and none handed over after it, so relogging neither loses nor *)
(* duplicates items.                                                       *)
LoginSeesSaves ==
    \A h \in Ids : ops[h].kind = "holder" /\ ops[h].serial # 0 =>
        \A k \in 1 .. Len(seen[h]) :
            seen[h][k] = {id \in 1 .. h - 1 : ops[id].kind = "trans"
                                              /\ ops[id].serial = ops[h].serial}

(* Operations with the same serial id are executed in the order in which   *)
(* they were handed over, whatever the number of delay threads.            *)
SerialOrder ==
    \A i, j \in 1 .. Len(ended) :
        /\ i < j /\ ops[ended[i]].serial = ops[ended[j]].serial
        /\ ops[ended[i]].serial # 0
        => ended[i] < ended[j]

(* A result's callback is in one place until it runs, and runs once:       *)
(* neither the passes of Update nor CancelAll run one a second time.       *)
CallbackOnce ==
    \A id \in Ids : ops[id].cb \in {"safe", "unsafe"} =>
        Times(id, results) + Times(id, unsafeWaiting)
        + Cardinality(batch \cap {id}) + Cardinality(called \cap {id})
        = Times(id, ended)

(* Unsafe callbacks run in the order of their results, however many passes *)
(* the budget and the timeout cut short.                                   *)
UnsafeInOrder ==
    \A i \in 1 .. Len(unsafeCalled) : unsafeCalled[i] = arrived[i]

(* A callback of a query runs some time, unless the server stops: a pass   *)
(* of Update cut short by the budget has run one callback at least.        *)
CallbackRuns ==
    \A id \in 1 .. MaxOps :
        id \in Ids /\ ops[id].cb \in {"safe", "unsafe"}
            ~> (stop # "up" \/ id \in called)

(* StopServer returns: the threads see m_running and can be joined.        *)
StopReturns == stop = "halt" ~> stop = "down"

(* "cancels scheduled queries": a stopped server has called back everyone  *)
(* who waits for a result.                                                 *)
CancelsScheduled ==
    stop = "down" =>
        \A id \in Ids : ops[id].cb \in {"safe", "unsafe"} => id \in called
=============================================================================
