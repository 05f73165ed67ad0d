# Verification of the Tortoise-WoW server core

TLA+ models of the concurrent and stateful parts of the server core under
`src/src/{shared,game}`, TLC configurations that check them on small instances,
and TLAPS proofs that hold for every value of the constants.

`PROJECT.json` gives, for every definition that models code, the file and the
lines it stands for, the runs with their properties, the mutants that show each
property can fail, the hazards of the code and the findings.

## 1. The system and its parts

The world server (`mangosd`) is one process. A *world thread* calls
`World::Update` again and again: it handles the packets of the sessions, has the
maps updated by pools, runs the callbacks of database results and the periodic
managers. Around it are threads that share state with it.

| part | state it keeps | operations | what is hard | what makes it correct |
|---|---|---|---|---|
| thread pool (`shared/ThreadPool`) | status, workload, `m_active`, `m_index`, the promise, a `busy` flag per worker | `start`, `<<`, `processWorkload`, the worker loop, the destructor | who is the last worker; lost wake-ups; an exception in a task; the owner reuses the pool at once | every task runs once, and the owner gets the pool back when and only when nobody is in it |
| asynchronous SQL (`shared/Database`) | shared and serial queues, a transaction per thread, the result queue, the callbacks still waiting | `Execute`, `Begin/Commit/RollbackTransaction`, `AsyncQuery`, `DelayQueryHolder`, `SqlDelayThread::run`, `SqlResultQueue::Update`, `StopServer` | several delay threads, shutdown while operations arrive, a budget per tick | saves and loads of one character in order, nothing lost or run twice, shutdown ends |
| MySQL session (`shared/Database/DatabaseMysql`) | the handle, the server's transaction | `Execute`, `ExecuteStmt`, the transaction commands, `HandleMySQLError`, ping | a connection lost at any point, retries | transactions are atomic, none is left open, the connection comes back |
| dungeon finder (`game/LFT`) | queue, rolechecks, offers, `m_playerOffers`; fill bots; listings | message handlers, `Update`, `OnPlayerLogout` | long sequences of messages, expiries, logouts, teleports and party changes nobody reports to it | the maps agree, offers are full groups, nothing stays open for ever |
| map update (`game/Maps`) | maps, update phases, delayed teleports | `MapManager::Update` | the barrier between pools and world thread | an object is touched by one thread at a time |
| sessions and login queue (`game/World`, `game/WorldSession`) | `addSessQueue`, `m_sessions`, `m_disconnectedSessions`, two queues, population counters, grace periods | `AddSession_`, `RemoveQueuedSession`, `UpdateSessions`, `SetSessionDisconnected` | a second login, lost sockets at any point of a tick, lingering characters, counts read once per tick | every session has one owner, waits or has passed; the limit kept up to one round, a free place is given out |
| characters between session, world and database (`Handlers/CharacterHandler`, `game/WorldSession`) | `_player`, `m_playerLoading`, `m_disconnectTimer`, the login holders under way | login, takeover, logout, timeout, `Shutdown` | an answer that arrives late or for another session; a character without a client or between two maps | character and session point to each other; who leaves is saved, unless the save is refused; who comes back is who left |
| battleground queue (`game/Battlegrounds`) | groups by bracket, invitations, events | add, remove, update, expiry events | an invitation answered late | invited counts agree with invitations |
| groups (`game/Group`) | members, leader, subgroups | add, remove, disband, change of leader | offline members | a player is in one group, a group has a leader |
| realm server (`realmd`) | authentication status per socket | challenge, proof, reconnect | messages out of order | a list only after a proof |

How they interact: the world thread is the owner of the pools (maps, instances,
database callbacks). Handlers on the world thread and on map threads hand
operations to the database; results come back as callbacks in the world
thread's tick or in the callback pool. The dungeon finder, groups and queues are
called from handlers and from the tick, all on the world thread.

## 2. Modules

| module | what it is |
|---|---|
| `ThreadPool` | the pool and its owner |
| `TaskBarrier` | what the pool promises: the abstract specification |
| `ThreadPoolProofs` | proofs about `ThreadPool`: types and protocol |
| `ThreadPoolTaskProofs` | proofs about `ThreadPool`: tasks, and the refinement of `TaskBarrier` |
| `SqlDelay` | delay threads, queues, result queue, shutdown |
| `SqlDelayProofs` | proofs about `SqlDelay` |
| `SqlSession` | one connection, the operations on it, the server |
| `SqlSessionProofs` | proofs about `SqlSession` |
| `LFTQueue` | rolechecks, queue, matcher, offers, group forming |
| `SeqFolds` | what the proofs use of folds over sequences |
| `LFTQueueProofs` | proofs about `LFTQueue` |
| `LoginQueue` | sessions, login queues, populations, grace periods: the tick of `UpdateSessions` |
| `LoginQueueProofs` | proofs about `LoginQueue` |
| `PlayerLogin` | the characters of one account: login, takeover, lingering, saves, shutdown |
| `PlayerLoginProofs` | proofs about `PlayerLogin` |
| `MC*` | constants for TLC; `MCLFTQueueLive` adds a bit that tells one call of `Update` from the next |

`SqlDelay` uses the promise of `TaskBarrier` for its callback pool (each callback
once, `job.wait()` returns when all have run), and treats a transaction as one
step; what happens inside that step is `SqlSession`. `PlayerLogin` uses what
`SqlDelay` promises (`LoginSeesSaves`, `SerialOrder`: the operations of one
character in order, those of two in any order). `LoginQueue` and `PlayerLogin` are
two views of the same sessions: the first has several accounts and knows of a
character only whether it is in the world, the second has one account and leaves
out who must wait.

### ThreadPool

State. `m_status`, `m_workload`, `m_dirty`, `m_active`, `m_index`, `m_errors`,
`busy` and `it` are the fields of the same names; `m_result` is the promise;
`mode` holds the parameters of the constructor and of `start`; `pc` is where a
worker is in `loop_wrapper`/`loop`/`doWork`, `owner` where the owner is. `runs`,
`execs` and `aborted` are history.

Steps. What is done under `m_mutex` is one action (`Publish`, `Destroy`,
`WaitForWork`), because nobody else can look in between and `wait` releases the
mutex atomically. Everything outside the mutex is a step of its own: taking an
index, running a task, an exception, `busy = false`, `--m_active`, `READY`,
`set_value`. A push to `m_errors`, which is not protected, reads and writes in two
steps, so that two of them can lose one. The owner is the one all callers in the
repository are: it waits for the future before it touches the pool again.

`TaskBarrier` has a set of tasks, runs them in any order and resolves when none
is left. `ImplementsBarrier` is the refinement; it is checked by TLC.

### SqlDelay

State. The queues, `m_running`, `m_bAllowAsyncTransactions` (`async`),
`m_TransStorage` (`trans`), `_threadUnsafeWaitingQueries` (`unsafeWaiting`); an
operation is its place in `ops`. `ended`, `arrived`, `called`, `unsafeCalled` are
history; `seen` is what the queries of a login holder found.

Steps. One per call of a client; one per `LockedQueue` operation or database
operation of a delay thread; the loops of `SqlResultQueue::Update` one callback at
a time; `StopServer` one thread at a time (stop all, join all, destroy the
bodies, whose destructors process requests once more, cancel). The clients are
those of the repository: `CommitTransactionDirect` is used for mail without a
serial id, holders exist only after start-up. There is at least one delay thread:
`m_numAsyncWorkers == 0` (`Database.cpp:627`), which sends serial operations to the
shared queue, is left out.

### SqlSession

State. `mMysql` (open; lost: the server ended the session and the client does
not know yet; null), the server's transaction (`inTx`, `pending`), the running
operation (`op`, `pos`, `phase`) and how often each of its statements was made
permanent (`applied`).

Steps. One per command sent to the server. A connection may end between two
commands, before a command was executed or after it was and before the answer.
`HandleMySQLError` reconnects and `Execute` repeats its statement; a prepared
statement is not repeated; the ping (`_Query`) also reconnects a null handle;
`_TransactionCmd` with a null handle ends the process (`CrashOnNull`). The server
is external: autocommit outside a transaction, rollback at the end of a session,
statements may be refused, the transaction may be a deadlock victim.

Abstractions. The errors for which `HandleMySQLError` ends the process by
`ASSERT(false)` (bad field, missing table, parse error, `DatabaseMysql.cpp:186-197`)
are refused statements: the queries are those of the code, so they do not occur with
the right database. A prepared statement on a null handle fails; one that was never
prepared on this connection would reach `mysql_stmt_init` with the null handle
(`Database.cpp:64-77`, `DatabaseMysql.cpp:433`).

### LFTQueue

State. `lft` is the manager: `m_queue`, `m_rolechecks`, `m_offers`,
`m_playerOffers`, and the order of `m_nextQueueOrder` as a sequence. The handlers
call one another, so the operations map one record to another and an action is a
whole handler: `HandleRolecheckResponse` enqueues the party and runs the matcher.
`groups` and `where` are the parties and whether a player is in the world; of class
`Group` there is what the finder asks of it.

Steps. Four messages of players, `Update`, and what happens around the finder
without its knowledge: invitations accepted, members leaving, far teleports, logout
and lost connections. `CompleteOffer` has the partial failure of the code: who was
added before a failure stays in the party.

Abstractions. Levels, team and hardcore mode are the relations
`CanPlayersGroup` (both players in the world) and `SameKind` (one is not); offer
ids are reused, but never the last one; `LFT.BotFill.Enable = 0`; raid groups, the
role shown to the client and the messages are left out.

### LoginQueue

State. The tables have the names of the code; `sess` holds the living
`WorldSession` objects, a session being the slot of its object, so that a deleted
object may come back at the same address. `queue` is `m_priorityQueue`, or with
`PriorityQueue.Enable = 0` `m_QueuedSessions` in its first place. `pops` are the
populations `UpdateSessions` reads at its start, `todo` what its loop over
`m_sessions` has not reached. `skipped` is history.

Steps. One for each part of a tick: the two queues, each session added, each
session updated, the disconnected sessions, each login answer. Between any two of
them network threads close sockets and hand over sessions. `AfterErase` has the
two outcomes of the erase inside the loop over a robin-hood table.

Abstractions. The priority a session starts with (staff, veterans, addresses with
many connections) is any number up to `MaxBase`, and the growth of a waiting one is
cut off there: it is only compared with the first. The time of the grace period is
the step `GraceExpires`. `PlayerLimit < 0` (staff only) is left out. Whether a
character is on a far teleport when its session is replaced, or has left the world
while its session lingers (`away` of `UpdateDisconnected`), is a choice; in
`PlayerLogin` it is state.

### PlayerLogin

State. The sessions of one account and the `Player` objects, which point to each
other; `pending` are the operations queued for a character at its delay thread,
`results` the holders on their way back. The state of a character is a number that
grows with each change; `last` (history) is the last it had in the world and `alone`
(history) says that a login had no other login of the account beside it.

Steps. A tick is `AddSession` ..., one `WorldSession::Update`, `UpdateDisconnected`,
the maps (characters change, are saved by their timer, leave one map and enter
another), the login answers. `StopNow` may come at any point; `Shutdown` is
`KickAll` and one more `UpdateSessions`, and the delay threads empty their queues
afterwards (`HaltDrains` of `SqlDelay`).

Saves that are refused. `SaveToDB` does nothing for a character with
`m_DbSaveDisabled` (`Player.cpp:18556`), which a race change leaves set
(`ChangeRace`); `LogoutPlayer` does not save a character that is on no map after the
transfers it finished or started (`WorldSession.cpp:748-753`): which characters that
happens to is the choice `lost` of `LogoutPlayers`, as it depends on the maps; a race
change that fails half way is undone by `LogoutPlayer(false)` (`ChangeRaceFails`).
`last` is `None` when the state a character was last in is one the code refused to
save; `LeavesSaved`, `LoginFindsLastState` and `ShutdownSaves` speak of the others.
The next login, which loads what is stored, or a change that can be saved, counts again.

Abstractions. `SaveToDB` without `force` is put off while a far teleport is under way
(`Player.cpp:18560`); in the model the timer and `ForcePlayerLogoutDelay` save only
characters that are in the world, and `LogoutPlayer` has finished the transfer.
`BeginTransaction` refuses a second transaction of one thread (`Database.cpp:486-498`),
which does not happen between the saves of the world thread. Left out:
`LogoutPlayer(false)` of the crash recovery of a map (`Map.cpp:3924`) and of
account deletion (`ObjectAccessor.cpp:177`), which mean to lose the state.

## 3. Runs

Bounds are named in the modules (`MaxTasks`, `MaxRounds`, `MaxOps`, `MaxStmts`,
`MaxLosses`, `OfferIds`, `Invites`, `Leavers`, `Travellers`, `Requests`, `MaxBase`,
`Slots`, `MaxChanges`, `MaxLogins`, `MaxPending`, `MaxMixed`).

| run | instance | shows |
|---|---|---|
| `pool` | 2 workers, 3 tasks, 2 workloads; all clear modes, error modes and worker types | `ExactlyOnce`, `QuietWhenResolved`, `OwnerFindsReady`, `NoRerun`; the pool implements `TaskBarrier`; `OwnerReturns`: every workload comes back and the destructor returns |
| `sql_delay` | 2 delay threads; saves of two characters on different threads, logins of one, safe queries, operations without a serial id: 2 of different kinds or 3 alike (`MaxMixed`, `MaxOps`); a budget that may end every pass | `ExecutedOnce`, `HaltDrains`, `LoginSeesSaves`, `SerialOrder`, `CallbackOnce`, `UnsafeInOrder`; `CallbackRuns`, `StopReturns` |
| `sql_cancel` | violation | finding 1 |
| `session_errors` | statements and transactions of 3 statements, 3 losses | `NoOpenTransaction`, `AtomicUntilLoss`, `Recovers` |
| `session_lost` | violation, 1 loss | finding 2 |
| `lft_parties` | 4 players, groups of 3, a party formed and left, one player with two roles, one too far in level from two of the others, so that a seed can be left out of its own offer | `OfferIndex`, `NothingDecidedStays`, `OffersAreSound`, `NoMissedMatch`, `GroupForms` |
| `lft_travel` | 3 players, 2 instances, requests for one and for both; one player teleports and logs out; clocks of two ticks | `LoggedOutIsGone`, `NoMissedMatch` over instances, `DecisionsEnd` |
| `login_queue` | 3 accounts of two regions, 3 sessions alive, a limit of 2 with 1 place for the second region, 2 logins per tick, with and without the priority queue | `OneOwner`, `WaitsOrPassed`, `LoggedIsPopulation`, `PopulationBound`, `GraceIsEarned`, `RoundLetsIn` |
| `login_overrun` | violation, the instance of `login_queue` with the priority queue | finding 5 |
| `login_starved` | violation, 2 accounts | finding 3 |
| `player_login` | 2 characters, 2 sessions alive, 2 logins under way, 1 change (by play or by a race change), saves refused | `PlayerHasItsSession`, `LeavesSaved`, `LoadingIsAnswered`, `LoginFindsLastState` |
| `player_shutdown` | violation, 1 character | finding 4 |

Why the bounds are enough. The safety properties of all models are proved for all
sizes (section 5); the bounds matter for the liveness properties, and to have every
step and every mutant occur. Pool: two workers make every race between a last and
a not-last worker; three tasks are more than, and no multiple of, the workers; the
second workload meets what the first left. SQL: two operations of different kinds, or
three alike, on two threads are one that is executed while another is queued behind
it or is with the other thread; three logins give three unsafe callbacks, of which a
budget can run one, leave one and meet one more; an order of more than two operations
is an order of pairs. Session: three statements have one before, at and after a loss, and
three losses allow a loss, a failed reconnection and a loss again. Finder: groups
of three have one player per role, a party of two and one more, or four single
players with one left over; five players would add damage dealers only. A timeout
of one or two calls of `Update` puts expiry before, between and after the answers.
Login queue: three sessions are two in a full world and one that waits, or one in
the world, one lingering and one new of the same account; two accounts of one
region can overtake each other, the third has the other region; slots are used
again and again, so the histories are as long as they like. Two logins per tick and a limit
of two make a round pass the limit (`login_overrun`); how far rounds can pass it is
`PopulationBound`, which three accounts can break only without the priority queue:
with it the theorem `PopulationIsBounded` is what shows it. Characters: one lingering and one new session, with two answers that
can arrive in either order, for the same or for two characters; one change is
enough to tell a state from an older one.

Fairness. Threads are scheduled by the operating system, so each worker, delay
thread, the world thread's passes and the stopping thread have weak fairness, one
conjunct each; clients need not call and nobody need stop the server. The ping of a
delay thread has strong fairness: the thread comes to it between operations again
and again, which starting an operation disables. In the finder only `Update` is
fair: players need not answer. In `LoginQueue` the world thread is weakly fair and
`AddedAll` strongly: `HandleAuthSession` sleeps 10 ms for each session, so that the
world thread comes to the end of `addSessQueue` again and again. Nothing is assumed
of the database server: `MaxLosses` says that it does not fail for ever.

Deadlock is checked in all passing runs but `pool`, which has TERMINATE, under
which the owner really can be left waiting; for the other error modes `OwnerReturns`
covers it.

## 4. Findings

1. `sql_cancel`: `StopServer` "cancels scheduled queries" (`Database.h:284`);
   unsafe callbacks that a budget or timeout left waiting are neither called nor
   deleted.
2. `session_lost`: the connection is lost before a transaction, and that START
   TRANSACTION fails is ignored (`SqlOperations.cpp:67`). The first statement
   reconnects and is repeated in the new session, outside any transaction, so it is
   permanent at once; a later one is refused, ROLLBACK undoes nothing, and
   `CommitTransaction` is never reached. A part of the transaction stays.
3. `login_starved`: with `PriorityQueue.Enable` at its default nobody but
   `RemoveQueuedSession` lets a waiting session in, and a session that leaves by a
   lost connection with its character in the world goes through
   `SetSessionDisconnected`, which does not call it. If it was the last one, the
   sessions that wait go on waiting in front of an empty world until another session
   comes and goes. The repository speaks of this only indirectly: "accept first in
   queue" where a session leaves (`World.cpp:595`), and a number of logins from the
   queue in every tick (`mangosd.conf.dist.in:152`), which is given as a maximum.
4. `player_shutdown`: "Kick (and save) all players" (`World.cpp:3568`) does
   not reach characters that linger after a lost connection: they were saved when
   the connection was lost and not again, so what happened to them since (up to
   twenty seconds) is not stored.
5. `login_overrun`: `PlayerHardLimit` is the "maximum number of players in the world"
   (`mangosd.conf.dist.in:136`). A round of logins looks for room once
   (`World.cpp:3951`) and then lets `LoginPerTick` in: with one player in, two waiting
   and a limit of two there are three afterwards. `PopulationBound` is what the code
   does keep.

Met on the way and not turned into runs: `m_errors` of the pool is never cleared and
pushed to without a lock, although `taskErrors()` promises the exceptions of the
last workload (`ThreadPool.h:132`; nobody calls it); under TERMINATE, which no pool
of the program uses, the owner waits for ever; when two logins of one account cross
(the first session was lost while loading), the first answer ends the loading of the
second session, with the character and the state it carries, which may be older than
the last save. `LoginFindsLastState` is therefore stated for a login that is alone. A race change
leaves saves disabled on the character (`Player.cpp:23969`), which lingers for twenty
seconds after its socket was closed: whoever takes it over in that time plays on and
nothing is saved. A logout whose transfer no map takes does not save
(`WorldSession.cpp:751`, `Player::HandleReturnOnTeleportFail`). Nothing in the
repository says otherwise of these two, so they are in the model and no run calls them
wrong.

## 5. Proofs

`ThreadPoolProofs`, for any number of workers, tasks and workloads, every clear
mode, error mode and worker type (assumption `PoolAssumption`):

* `TypeCorrect`: `Spec => []TypeOK`;
* `PoolIsQuiet`: `Spec => []QuietWhenResolved`;
* `OwnerIsServed`: `Spec => []OwnerFindsReady`.

Neither of the two safety invariants is inductive: that nobody is inside the
workload when the promise is set depends on what `m_active` counts. The inductive
invariant `ProtocolInv` says that while a workload is processed `m_active` is the
number of workers that are busy or about to decrement it (`Counted`), that only one
worker can be past the decrement to zero, and, for each phase of the owner, what
status, promise and workers it can see (`IdleInv`, `PublishInv`, and so on). The
proof has one lemma per action; the arithmetic of `m_active` rests on the
cardinality theorems of `FiniteSetTheorems`. Under TERMINATE a worker that leaves
stays busy, and so stays counted: `m_active` never reaches zero, which is why the
safety properties hold there too and the owner waits for ever.

`ThreadPoolTaskProofs`, under the same assumption:

* `TasksRunOnce`: `Spec => []ExactlyOnce`;
* `PoolIsABarrier`: `Spec => ImplementsBarrier`, that is, `Spec` implies `TaskBarrier!Spec` under
  the refinement mapping: each step of the pool is `Submit`, `Run`, `Resolve` or
  leaves the barrier unchanged;
* `TasksNeverRerun`: `Spec => []NoRerun`.

The invariant `TaskInv` says of every position of the workload that it was given to
one worker (`Taken`: behind `m_index`, or behind the stride of the worker of its
residue) and then has run or is being run (`TakenInv`, `ExecInv`), or was not, and then
has a busy worker that will come to it (`CoverInv`). When `m_active` reaches zero there
is no busy worker (`ProtocolInv`), so everything was taken and, as nobody runs a
task, has run. `FreshInv` ties the executions over all workloads to those of the
current one; between two workloads either none of the tasks ran or `clearWorkload` is
due.

`SqlDelayProofs`, for any number of threads that hand operations over, of delay
threads, of operations and of queries per holder (assumption `SqlAssumption`):

* `DelayTypes`: `Spec => []TypeOK`;
* `OperationsRunOnce`: `Spec => []ExecutedOnce`; `SerialIdsInOrder`: `Spec => []SerialOrder`;
  `LoginsFindSaves`: `Spec => []LoginSeesSaves`. All three come from `QueueInv`: the shared
  queue, the serial queues, the hands of the threads and the executed operations
  share the operations out without repetition (`SharedInv`, `SerialInv`, `HandInv`,
  `CoverInv`); an operation with a serial id is only ever with the thread of its id,
  whose queue is increasing, so whatever was executed of the id is older than what
  the thread holds, and that is older than what it has queued (`OrderInv`); nothing is
  in a queue before the threads exist (`StartInv`);
* `NothingLeftBehind`: `Spec => []HaltDrains`, from `HaltInv`: which threads have passed
  which of their last looks at the queues, while `HaltDelayThread` stops, joins and
  destroys them;
* `CallbacksRunOnce`: `Spec => []CallbackOnce` and `UnsafeRunInOrder`:
  `Spec => []UnsafeInOrder`, from `CallbackInv`: a callback of an executed operation is in
  `results`, waits as an unsafe one, is in the batch of the pool or was called, in one
  place only (`CallInv`, `TakenInv`); the unsafe ones called, those that wait and those
  still in `results` are, in this order, the unsafe results in the order of their
  arrival (`ResultsInv`).

Every step of `SqlDelay` is first shown to be of one of a few kinds (an operation is
handed over, taken, finished; nothing moves), and each kind to keep each invariant.

`SqlSessionProofs`, for every set of operations of any length (assumption
`SessionAssumption`):

* `SessionTypes`: `Spec => []TypeOK`;
* `NoTransactionLeft`: `Spec => []NoOpenTransaction` for any number of losses, from
  `TxInv`: in which phases and with which handle a transaction can be open;
* `TransactionsAreAtomic`: `Spec => []AtomicUntilLoss`, from `AtomicInv`: in each
  phase, which statements are pending and that none is permanent before `COMMIT`.
  It is inductive for the steps that lose no connection; `session_lost` shows that
  this condition is needed.

`LoginQueueProofs`, for any accounts and sessions, any limits and number of logins per
tick, with and without the priority queue and the grace period (assumption
`LoginAssumption`):

* `LoginTypes`, `SessionsHaveOneOwner`, `WaitingOrPassed`, `LoggedCountsPopulation`,
  `PopulationIsBounded`: `Spec => []` of `TypeOK`, `OneOwner`, `WaitsOrPassed`,
  `LoggedIsPopulation`, `PopulationBound`;
* `GraceMustBeEarned`: `Spec => GraceIsEarned` and `RoundsLetIn`: `Spec => RoundLetsIn`,
  action properties that follow from the same invariant.

None of the properties is inductive alone: whether a deletion keeps the counters
right depends on who may still point to the session, that depends on the queues, and
the bound depends on the counters. The inductive invariant `LoginInv` has them
together: only who passed loads or plays (`PlayInv`), the three tables share the
sessions out (`OwnInv`), the queues hold just those that wait, once and in their
region (`WaitInv`), the counters are the populations (`CountInv`), the bound, and the
populations read at the start of a tick are not above the current ones while they
are used (`TickInv`). These parts take the tables as arguments, because `AddSession` of
an account that has a session makes two changes in one step: the old session departs
(`Departs`), perhaps lets a waiting one in, and the new one joins (`Joins`); the
invariant holds of the tables in between, which are no state of the model. The bound
rests on `ActiveCount`: `GetActiveSessionCount`, which the code computes as a difference,
is the number of accounts that passed.

The proof corrected the model: `PopulationBound` was stated with
`HardLimit + LoginPerTick - 1` for every `LoginPerTick`, which is false when it is 0,
and `Room` did not ask for a `LoginPerTick` above 0. TLC had not met this, as its
instance never has 0.

`PlayerLoginProofs`, for any number of sessions and characters of the account, any
number of logins, changes and queued operations (assumption `PlayerAssumption`):

* `PlayerTypes`: `Spec => []TypeOK`;
* `PlayersAreOwned`: `Spec => []PlayerHasItsSession`, from `IndInv`. The invariant alone
  is not inductive: a session that is deleted or taken into `m_sessions` must be
  known not to be in another table. `Ownership` says so: the sessions of the tables
  are alive, each is in one table once, and none has a character before
  `AddSession_`. One lemma per action that moves a session or a character;
* `WhoLeavesIsSaved`: `Spec => []LeavesSaved`, for every state that was not refused;
* `LoginIsFresh`: `Spec => LoginFindsLastState`. Both come from `DataInv`: a character
  outside the world is stored or queued as it last was (`SavedInv`), no save stands
  behind the query of a login that is alone (`FreshLoads`), and the answer of such a
  login still is the last state when it is taken from the result queue
  (`FreshAnswers`). `Kinds` first shows that every step saves some characters, drops
  an answer, changes a race, loads a character, plays, queues a login or executes an operation; then
  one lemma per kind shows that it keeps `DataInv`;
* `LoadingEnds`: `Spec => []LoadingIsAnswered`, from `LoadInv`: sessions in `addSessQueue` do
  not load, and no step but `HandlePlayerLoginOpcode`, which queues a login, makes one
  begin; a login under way stays so until its answer is taken, and that ends the
  loading of whichever session the account has. That `Logins` counts them needs a finite
  set of characters, which the account has.

`LFTQueueProofs`, for any number of players, instances and offers, any number of
damage slots and any timeouts (assumption `LFTAssumption`; of the offer ids it asks that
there are more than full groups of players, so that a new offer always finds one):

* `IndexIsExact`, `DecidedIsClosed`, `LogoutForgets`: `Spec => []` of `OfferIndex`,
  `NothingDecidedStays`, `LoggedOutIsGone`;
* `SimpleMatchesAreMade`: `Spec => []NoMissedMatch`;
* `SoundMatches`: `Spec => OffersAreSound` and `AcceptedForms`: `Spec => GroupForms`,
  action properties.

The inductive invariant is `LFTInv`. Its part `Good` is about one record of the manager,
as the operations map such records to one another: the types, the order of the queue has
just the players of the queue, every rolecheck and offer lacks an answer, the index is
exact (`Indexed`), the players in offers are as many as the offers times the size of a
group (`Counts`: an id is always left, without which `MakeOffer` would write over an open
offer), and only players that have not logged out are named (`Knows`). Each operation is
shown to map `Good` records to `Good` records.

Enqueueing, the matcher, the expiry and the forming of a group are folds. The installed
provers cannot use an induction rule with an operator as its parameter, so `SeqFolds` has
an induction over the numbers up to n whose parameter is a set (from the least element
of a set of naturals), shows that `FoldLeft` computes a chain of values, one per element,
and that a set which every step keeps holds all of them. For each fold the set is a
first-order one: `Good` records for the queue, selections of whole blocks with no role
above its slots for the matcher (`Selected`, `Closed`), parties that have gained just the
members added so far for `CompleteOffer` (`Joined`, `Party`).

`NoMissedMatch` compares the greedy selection with every other one. From a seed of the
group P, nobody of P is passed over while the one role asked for is open, as a role that
is open at the end was open all the time (`SelectionIs`, `WantedBefore`). So were a role
open at the end, all of P with that role would have been taken, and they are as many as
its slots (`SeedFinds`); a selection without an open role is a full group (`RoomOrFull`).
The fold over the instances withdraws no offer (`Grows`), so what the pass for the
instance finds is still there at its end.

The proof corrected the model: `OffersAreSound` had the seed as a member of the offer,
which is false when players before it in the queue fill the group. TLC had not met this;
its instance now has players among whom it happens.

Only model-checked: the liveness properties (`OwnerReturns`, `CallbackRuns`,
`StopReturns`, `Recovers`, `DecisionsEnd`); fairness and `ENABLED` are out of the prover's
reach.

## 6. What is not modelled

PROJECT.json lists every part with its reason. In short: bot fill and listings of
the dungeon finder, map update, battleground queue, groups and the realm server
are planned; of `World` only sessions, queue, login and shutdown are modelled, the
rest is configuration, loading and timers; sockets, packets and SQL text are input
and output; spells, combat, AI and scripts are content; `dep`, `tools`, `sql` and the
ported modules are third-party code or data. Most of the repository's lines are of
these last kinds.

## 7. Plan

1. Thread pool and its barrier (done); proofs of its safety and of the
   refinement (done).
2. `SqlDelay` and `SqlSession` (done); proofs about both (done).
3. `LFTQueue` (done); proofs about it (done).
4. `LoginQueue` and `PlayerLogin` (done); proofs about both (done).
5. `LFTBotFill`, an extension of `LFTQueue` with `m_fillBots` and forced roles,
   and `LFTListings`. To look at: forced roles of bots whose group has formed
   (`LFTBotFill.cpp:152`), and when waiting bots make way for a player
   (`LFTBotFill.cpp:11`, `mangosd.conf.dist.in:2846`).
6. `MapUpdate`: continents, instances, delayed teleports and the world thread, each
   pool a `TaskBarrier`. Abstract specification: a map is touched by one thread at a
   time.
7. `BattleGroundQueue` with its two kinds of events; `Group` behind the interface
   `LFTQueue` uses; the status automaton of `AuthSocket`.
8. Theorems: all safety and action properties of the models above (done); those of the
   modules of items 5 to 7 as they are written.
