------------------------------- MODULE LoginQueue -------------------------------
(***************************************************************************)
(* Sessions of the world server and its login queue: src/game/World and    *)
(* src/game/WorldSession.  Network threads put authenticated sessions into *)
(* addSessQueue; World::UpdateSessions, once a tick on the world thread,   *)
(* lets waiting sessions in, adds the new ones, updates all of them and    *)
(* takes out those that ended.                                             *)
(*                                                                         *)
(* A session is the slot of its WorldSession object; a deleted one frees   *)
(* the slot.  One tick is a sequence of steps, because sockets close and   *)
(* sessions arrive between them.                                           *)
(*                                                                         *)
(* Not in the model: a negative PlayerLimit (realm open to staff only) and *)
(* m_Ipconnections, which only lowers the priority a session starts with:  *)
(* that priority is any number here.                                       *)
(***************************************************************************)
EXTENDS Naturals, Sequences, FiniteSets

CONSTANTS Accounts, Slots,
          NoSession,      \* the null pointer
          NonRegional,    \* accounts with a zhCN client
          Skips,          \* accounts CanSkipQueue lets in: staff, CanQueueSkip
          HardLimit,      \* PlayerHardLimit
          MaxPop,         \* the share of HardLimit of each region
          LoginPerTick,
          PlayerLimits,   \* the values of PlayerLimit in question
          PriorityModes,  \* and of PriorityQueue.Enable
          GracePeriod,    \* LoginQueue.GracePeriodSecs is not 0
          MaxBase,        \* bound: the highest priority a session starts with
          LogoutTicks     \* ticks a lost character stays in the world

Region == {0, 1}

(* A WorldSession object. *)
Sessions ==
    [acct : Accounts,
     open : BOOLEAN,       \* m_Socket is not closed
     inQueue : BOOLEAN, hadQueue : BOOLEAN, passed : BOOLEAN,
     loading : BOOLEAN,    \* m_playerLoading
     inWorld : BOOLEAN,    \* it has a character in the world
     timer : 0 .. LogoutTicks,
     skipped : BOOLEAN]    \* history: CanSkipQueue let it in

ASSUME LoginAssumption ==
    /\ NoSession \notin Slots \cup Sessions
    /\ NonRegional \subseteq Accounts /\ Skips \subseteq Accounts
    /\ HardLimit \in Nat /\ LoginPerTick \in Nat /\ MaxPop \in [Region -> Nat]
    /\ PlayerLimits \subseteq Nat /\ PriorityModes \subseteq BOOLEAN
    /\ GracePeriod \in BOOLEAN /\ MaxBase \in Nat /\ LogoutTicks \in Nat
    /\ IsFiniteSet(Slots) /\ IsFiniteSet(Accounts)

VARIABLES
    priorityQueue,   \* PriorityQueue.Enable
    addSessQueue,
    m_sessions,      \* account to session
    m_disconnectedSessions,
    sess,            \* the living WorldSession objects
    queue,           \* m_priorityQueue; queue[0] is m_QueuedSessions without it
    logged,          \* loggedRegionSessions, loggedNonRegionSessions
    m_playerLimit,
    graced,          \* accounts m_accountsLastLogout lets in again
    pc,              \* where UpdateSessions is
    pops,            \* currentRegionalPop, currentNonRegionalPop of this tick
    todo             \* accounts the loop over m_sessions has not reached

tables == <<addSessQueue, m_sessions, m_disconnectedSessions, sess>>
counts == <<queue, logged, m_playerLimit, graced>>
tick == <<pc, pops, todo>>
vars == <<priorityQueue, tables, counts, tick>>

Entries == [prio : 0 .. MaxBase, s : Slots]

Lesser(a, b) == IF a < b THEN a ELSE b

-----------------------------------------------------------------------------
(* What the code reads off its tables. *)

GetQueueIndex(acct) == IF acct \in NonRegional THEN 1 ELSE 0
QueueOf(acct) == IF priorityQueue THEN GetQueueIndex(acct) ELSE 0

Alive == {s \in Slots : sess[s] # NoSession}
Listed(m) == {a \in Accounts : m[a] # NoSession}
Queued(q) == Len(q[0]) + Len(q[1])
GetActiveSessionCount(m, q) == Cardinality(Listed(m)) - Queued(q)

\* Mutant: the session is not erased.
WithoutNone(q, s) == q

Waiting(q) == {q[k].s : k \in 1 .. Len(q)}

(* The loop of RemoveQueuedSession: the first entry of the session goes. *)
PlaceOf(q, s) ==
    CHOOSE k \in 1 .. Len(q) : q[k].s = s /\ \A j \in 1 .. k - 1 : q[j].s # s
Without(q, s) ==
    IF s \in Waiting(q)
    THEN SubSeq(q, 1, PlaceOf(q, s) - 1) \o SubSeq(q, PlaceOf(q, s) + 1, Len(q))
    ELSE q

(* CanSkipQueue: staff, paid skip, or logged out less than the grace       *)
(* period ago after having queued.                                         *)
CanSkipQueue(acct, g) == acct \in Skips \/ (GracePeriod /\ acct \in g)

(* WorldSession::OnPassedQueue, with SetInQueue(false) of the callers. *)
OnPassedQueue(ss, group) ==
    [s \in Slots |-> IF s \in group
                     THEN [ss[s] EXCEPT !.inQueue = FALSE, !.passed = TRUE]
                     ELSE ss[s]]
PassedOf(i, ss, group) ==
    Cardinality({s \in group : GetQueueIndex(ss[s].acct) = i})
CountUp(l, ss, group) == [i \in Region |-> l[i] + PassedOf(i, ss, group)]

\* Mutant: the destructor does not count.
CountDownNone(l, ss, group) == l

(* The destructor: a session that passed the queue leaves the count. *)
CountDown(l, ss, group) ==
    [i \in Region |->
        l[i] - PassedOf(i, ss, {s \in group : ss[s].passed})]

(* AddQueuedSession puts a session before the first one with a lower       *)
(* priority, or at the end of m_QueuedSessions.                            *)
Inserted(q, e) ==
    LET n == Cardinality({k \in 1 .. Len(q) :
                            \A j \in 1 .. k : q[j].prio >= e.prio})
    IN  IF priorityQueue
        THEN SubSeq(q, 1, n) \o <<e>> \o SubSeq(q, n + 1, Len(q))
        ELSE Append(q, e)

\* Mutant: RemoveQueuedSession does not tell that the session waited.
NeverFound(s) == FALSE

WasQueued(s) == s \in Waiting(queue[QueueOf(sess[s].acct)])

(* RemoveQueuedSession takes the session out of the queue.  Without the    *)
(* priority queue it then lets the first one in, if the sessions that are  *)
(* not waiting, the leaving one counted, leave room.                       *)
RemoveQueuedSession(s) ==
    LET i == QueueOf(sess[s].acct)
        q == Without(queue[i], s)
        found == WasQueued(s)
        active == GetActiveSessionCount(m_sessions, queue)
        sessions == IF ~found /\ active > 0 THEN active - 1 ELSE active
        loggedIn == Cardinality(Listed(m_sessions)) - Len(q)
        accept == /\ ~priorityQueue
                  /\ loggedIn < HardLimit
                  /\ m_playerLimit = 0 \/ sessions < m_playerLimit
                  /\ q # <<>>
    IN  [found  |-> found,
         queue  |-> [queue EXCEPT ![i] = IF accept THEN Tail(q) ELSE q],
         popped |-> IF accept THEN {Head(q).s} ELSE {}]

-----------------------------------------------------------------------------
(* The network threads. *)

(* WorldSocket::HandleAuthSession makes a session and hands it over. *)
HandleAuthSession(a, s) ==
    /\ sess[s] = NoSession
    /\ sess' = [sess EXCEPT ![s] =
            [acct |-> a, open |-> TRUE, inQueue |-> FALSE, hadQueue |-> FALSE,
             passed |-> FALSE, loading |-> FALSE, inWorld |-> FALSE,
             timer |-> 0, skipped |-> FALSE]]
    /\ addSessQueue' = Append(addSessQueue, s)
    /\ UNCHANGED <<priorityQueue, m_sessions, m_disconnectedSessions, counts, tick>>

(* The client is gone. *)
SocketCloses(s) ==
    /\ sess[s] # NoSession /\ sess[s].open
    /\ sess' = [sess EXCEPT ![s].open = FALSE]
    /\ UNCHANGED <<priorityQueue, addSessQueue, m_sessions,
                   m_disconnectedSessions, counts, tick>>

(* Time: an account's last logout is no longer within the grace period. *)
GraceExpires(a) ==
    /\ a \in graced
    /\ graced' = graced \ {a}
    /\ UNCHANGED <<priorityQueue, tables, queue, logged, m_playerLimit, tick>>

-----------------------------------------------------------------------------
(* World::UpdateSessions. *)

\* Mutant: GetActiveAndQueuedSessionCount in the place of GetActiveSessionCount.
FullWithQueued(limit) ==
    \/ HardLimit # 0 /\ limit > HardLimit
    \/ HardLimit <= Cardinality(Listed(m_sessions))

(* No place for a round of logins that moves m_playerLimit to limit. *)
RoundIsFull(limit) ==
    \/ HardLimit # 0 /\ limit > HardLimit
    \/ HardLimit <= GetActiveSessionCount(m_sessions, queue)

(* Let up to LoginPerTick waiting sessions of a region in; the others gain *)
(* priority.  A priority above MaxBase can be cut off there: it is only    *)
(* compared with the priorities sessions start with.                       *)
AcceptQueued(i) ==
    /\ pc = IF i = 0 THEN "regional" ELSE "nonregional"
    /\ pc' = IF i = 0 THEN "nonregional" ELSE "add"
    /\ IF priorityQueue /\ pops[i] < MaxPop[i] /\ queue[i] # <<>> /\ LoginPerTick # 0
       THEN LET limit == Lesser(m_playerLimit + LoginPerTick,
                                pops[0] + pops[1] + LoginPerTick)
                full == RoundIsFull(limit)
                n == IF full THEN 0 ELSE Lesser(LoginPerTick, Len(queue[i]))
                in == {queue[i][k].s : k \in 1 .. n}
            IN  /\ m_playerLimit' = IF full THEN HardLimit ELSE limit
                /\ queue' = [queue EXCEPT ![i] =
                        [k \in 1 .. Len(queue[i]) - n |->
                            [queue[i][k + n] EXCEPT
                                !.prio = Lesser(@ + 1, MaxBase)]]]
                /\ sess' = OnPassedQueue(sess, in)
                /\ logged' = CountUp(logged, sess, in)
       ELSE UNCHANGED <<m_playerLimit, queue, sess, logged>>
    /\ pops' = IF i = 0 THEN pops ELSE [r \in Region |-> 0]   \* not read again
    /\ UNCHANGED <<priorityQueue, addSessQueue, m_sessions,
                   m_disconnectedSessions, graced, todo>>

\* Mutant: only the share of the region is tested.
ShareIsUsed(i, l, members, q) == l[i] >= MaxPop[i]

(* A session that is already one of members has to wait: the share of its  *)
(* region is used up, or the sessions that do not wait reach the limit.    *)
NoRoom(i, l, members, q) ==
    \/ l[i] >= MaxPop[i]
    \/ GetActiveSessionCount(members, q) >= HardLimit

(* AddSession_ for the next of addSessQueue.  A session of the account     *)
(* that is loading a character stays and the new one is deleted; any other *)
(* is kicked, and kept as a disconnected session if its character is in    *)
(* the world (ForcePlayerLogoutDelay), else deleted.                       *)
AddSession(teleporting, base) ==
    LET s == Head(addSessQueue)
        a == sess[s].acct
        old == m_sessions[a]
        gone == IF old = NoSession
                THEN [queue |-> queue, popped |-> {}] ELSE RemoveQueuedSession(old)
        stays == old # NoSession /\ sess[old].inWorld /\ ~teleporting
        deleted == IF old # NoSession /\ ~stays THEN {old} ELSE {}
        members == [m_sessions EXCEPT ![a] = s]
        ss == OnPassedQueue(sess, gone.popped)
        l == CountDown(CountUp(logged, sess, gone.popped), ss, deleted)
        g == IF stays /\ sess[old].hadQueue THEN graced \cup {a} ELSE graced
        i == GetQueueIndex(a)
        full == NoRoom(i, l, members, gone.queue)
        waits == full /\ ~CanSkipQueue(a, g)
        joined == IF waits
                  THEN [sess[s] EXCEPT !.inQueue = TRUE, !.hadQueue = TRUE]
                  ELSE [sess[s] EXCEPT !.passed = TRUE, !.skipped = full]
    IN
    /\ pc = "add" /\ addSessQueue # <<>>
    /\ addSessQueue' = Tail(addSessQueue)
    /\ IF old # NoSession /\ sess[old].loading
       THEN /\ sess' = [sess EXCEPT ![s] = NoSession]
            /\ UNCHANGED <<m_sessions, m_disconnectedSessions, counts>>
       ELSE /\ m_sessions' = members
            /\ m_disconnectedSessions' = IF stays THEN m_disconnectedSessions \cup {old}
                                         ELSE m_disconnectedSessions
            /\ sess' = [t \in Slots |->
                    CASE t = s -> joined
                      [] t \in deleted -> NoSession
                      [] t = old /\ stays ->
                            [ss[t] EXCEPT !.open = FALSE, !.timer = LogoutTicks]
                      [] OTHER -> ss[t]]
            /\ graced' = g
            /\ queue' = IF waits
                        THEN [gone.queue EXCEPT ![QueueOf(a)] =
                                Inserted(@, [prio |-> base, s |-> s])]
                        ELSE gone.queue
            /\ logged' = IF waits THEN l ELSE [l EXCEPT ![i] = @ + 1]
            /\ UNCHANGED m_playerLimit
    /\ UNCHANGED <<priorityQueue, tick>>

AddedAll ==
    /\ pc = "add" /\ addSessQueue = <<>>
    /\ pc' = "update" /\ todo' = Listed(m_sessions)
    /\ UNCHANGED <<priorityQueue, tables, counts, pops>>

(* The loop over m_sessions: WorldSession::Update of one session.  What    *)
(* the client asks for is done there: to log in a character, to log out.   *)
Stays(a) ==
    LET s == m_sessions[a] IN
    /\ pc = "update" /\ a \in todo
    /\ sess[s].open
    /\ \/ sess' = sess
       \/ /\ ~sess[s].inQueue /\ ~sess[s].inWorld /\ ~sess[s].loading
          /\ sess' = [sess EXCEPT ![s].loading = TRUE]
       \/ /\ sess[s].inWorld
          /\ sess' = [sess EXCEPT ![s].inWorld = FALSE]
    /\ todo' = todo \ {a}
    /\ UNCHANGED <<priorityQueue, addSessQueue, m_sessions,
                   m_disconnectedSessions, counts, pc, pops>>

\* Mutant: the session stays in m_sessions as well.
DisconnectListed(a) ==
    /\ pc = "update" /\ a \in todo
    /\ ~sess[m_sessions[a]].open /\ sess[m_sessions[a]].inWorld
    /\ m_disconnectedSessions' = m_disconnectedSessions \cup {m_sessions[a]}
    /\ todo' = todo \ {a}
    /\ UNCHANGED <<priorityQueue, addSessQueue, m_sessions, sess, counts, pc, pops>>

\* Mutant: the loop visits the erased element again.
ErasedAgain(a) == {todo}

(* SetSessionDisconnected erases from m_sessions inside the loop over it,  *)
(* which moves the next ones of robin_hood's table one down; the loop then *)
(* advances past the place of the erased one, so the session that moved    *)
(* into it may not be updated in this tick.                                *)
AfterErase(a) ==
    {todo \ {a}} \cup {todo \ {a, missed} : missed \in todo}

(* The client is gone and its character is in the world: the character     *)
(* stays there for a while.                                                *)
SetSessionDisconnected(a) ==
    LET s == m_sessions[a] IN
    /\ pc = "update" /\ a \in todo
    /\ ~sess[s].open /\ sess[s].inWorld
    /\ sess' = [sess EXCEPT ![s].timer = LogoutTicks]
    /\ graced' = IF sess[s].hadQueue THEN graced \cup {a} ELSE graced
    /\ m_sessions' = [m_sessions EXCEPT ![a] = NoSession]
    /\ m_disconnectedSessions' = m_disconnectedSessions \cup {s}
    /\ todo' \in AfterErase(a)
    /\ UNCHANGED <<priorityQueue, addSessQueue, queue, logged, m_playerLimit, pc, pops>>

(* Update returned false: the client is gone (and its character, if any,   *)
(* is between two maps), or it sat too long on the character screen.       *)
RemoveSession(a) ==
    LET s == m_sessions[a]
        left == RemoveQueuedSession(s)
        ss == OnPassedQueue(sess, left.popped)
    IN
    /\ pc = "update" /\ a \in todo
    /\ \/ ~sess[s].open
       \/ ~sess[s].inWorld /\ ~sess[s].inQueue /\ ~sess[s].loading
    /\ graced' = IF ~left.found /\ sess[s].hadQueue THEN graced \cup {a} ELSE graced
    /\ queue' = left.queue
    /\ logged' = CountDown(CountUp(logged, sess, left.popped), sess, {s})
    /\ sess' = [ss EXCEPT ![s] = NoSession]
    /\ m_sessions' = [m_sessions EXCEPT ![a] = NoSession]
    /\ todo' = todo \ {a}
    /\ UNCHANGED <<priorityQueue, addSessQueue, m_disconnectedSessions,
                   m_playerLimit, pc, pops>>

(* UpdateDisconnected of every disconnected session: deleted when its time *)
(* is over or its character was taken over by a new session, or is away    *)
(* from the world between two maps.                                        *)
UpdateDisconnected ==
    \E away \in SUBSET m_disconnectedSessions :
    LET over == away \cup {d \in m_disconnectedSessions :
                            ~sess[d].inWorld \/ sess[d].timer = 0}
    IN
    /\ pc = "update" /\ todo = {}
    /\ m_disconnectedSessions' = m_disconnectedSessions \ over
    /\ sess' = [s \in Slots |->
            CASE s \in over -> NoSession
              [] s \in m_disconnectedSessions \ over ->
                    [sess[s] EXCEPT !.timer = @ - 1]
              [] OTHER -> sess[s]]
    /\ logged' = CountDown(logged, sess, over)
    /\ pc' = "results"
    /\ UNCHANGED <<priorityQueue, addSessQueue, m_sessions, queue,
                   m_playerLimit, graced, pops, todo>>

(* HandlePlayerLogin, run from UpdateResultQueue: the character enters the *)
(* world, or is taken over from a disconnected session of the account; or  *)
(* it cannot be loaded, and the client is kicked.                          *)
HandlePlayerLogin(a) ==
    LET s == m_sessions[a] IN
    /\ pc = "results"
    /\ s # NoSession /\ sess[s].loading
    /\ \/ sess' = [sess EXCEPT ![s].loading = FALSE, ![s].inWorld = TRUE]
       \/ \E d \in m_disconnectedSessions :
            /\ sess[d].acct = a /\ sess[d].inWorld
            /\ sess' = [sess EXCEPT ![s].loading = FALSE, ![s].inWorld = TRUE,
                                    ![d].inWorld = FALSE]
       \/ sess' = [sess EXCEPT ![s].loading = FALSE, ![s].open = FALSE]
    /\ UNCHANGED <<priorityQueue, addSessQueue, m_sessions,
                   m_disconnectedSessions, counts, tick>>

(* The next UpdateSessions reads the populations once, for both queues. *)
NextTick ==
    /\ pc = "results"
    /\ pops' = logged
    /\ m_playerLimit' = IF HardLimit # 0 THEN Lesser(HardLimit, m_playerLimit)
                        ELSE m_playerLimit
    /\ pc' = "regional"
    /\ UNCHANGED <<priorityQueue, tables, queue, logged, graced, todo>>

-----------------------------------------------------------------------------
Init ==
    /\ priorityQueue \in PriorityModes
    /\ addSessQueue = <<>>
    /\ m_sessions = [a \in Accounts |-> NoSession]
    /\ m_disconnectedSessions = {}
    /\ sess = [s \in Slots |-> NoSession]
    /\ queue = [i \in Region |-> <<>>]
    /\ logged = [i \in Region |-> 0]
    /\ m_playerLimit \in PlayerLimits
    /\ graced = {}
    /\ pc = "results" /\ pops = [i \in Region |-> 0] /\ todo = {}

WorldThread ==
    \/ \E i \in Region : AcceptQueued(i)
    \/ \E teleporting \in BOOLEAN, base \in 0 .. MaxBase : AddSession(teleporting, base)
    \/ AddedAll
    \/ \E a \in Accounts : Stays(a) \/ SetSessionDisconnected(a) \/ RemoveSession(a)
    \/ UpdateDisconnected
    \/ NextTick

Network ==
    \/ \E a \in Accounts, s \in Slots : HandleAuthSession(a, s)
    \/ \E s \in Slots : SocketCloses(s)
    \/ \E a \in Accounts : GraceExpires(a)

Next == WorldThread \/ Network \/ \E a \in Accounts : HandlePlayerLogin(a)

Spec == Init /\ [][Next]_vars

(* The world thread keeps running, and sessions do not arrive faster than  *)
(* it adds them: HandleAuthSession sleeps 10 ms for each.  Nobody is       *)
(* obliged to connect, to log in or to leave.                              *)
FairSpec == Spec /\ WF_vars(WorldThread) /\ SF_vars(AddedAll)
-----------------------------------------------------------------------------
(* Types of the tables. *)
TypeOK ==
    /\ priorityQueue \in BOOLEAN
    /\ addSessQueue \in Seq(Slots)
    /\ m_sessions \in [Accounts -> Slots \cup {NoSession}]
    /\ m_disconnectedSessions \subseteq Slots
    /\ sess \in [Slots -> Sessions \cup {NoSession}]
    /\ queue \in [Region -> Seq(Entries)]
    /\ logged \in [Region -> Nat] /\ pops \in [Region -> Nat]
    /\ m_playerLimit \in Nat
    /\ graced \subseteq Accounts
    /\ pc \in {"regional", "nonregional", "add", "update", "results"}
    /\ todo \subseteq Listed(m_sessions)

(* Every WorldSession object is owned by exactly one of addSessQueue,      *)
(* m_sessions and m_disconnectedSessions, under its own account: whatever  *)
(* order relogs, kicks, lost sockets and logins come in, none is leaked    *)
(* and none is deleted that a table still points to.                       *)
Owners(s) ==
    Cardinality({k \in 1 .. Len(addSessQueue) : addSessQueue[k] = s})
    + Cardinality({a \in Accounts : m_sessions[a] = s})
    + Cardinality({d \in m_disconnectedSessions : d = s})
OneOwner ==
    /\ \A s \in Slots : Owners(s) = IF sess[s] = NoSession THEN 0 ELSE 1
    /\ \A a \in Listed(m_sessions) : sess[m_sessions[a]].acct = a

(* A session of m_sessions either waits, in the queue of its region and    *)
(* once, or has passed the queue: m_inQueue and m_PassedQueue never        *)
(* disagree with the queue, so nobody plays while waiting and nobody is    *)
(* forgotten outside it.                                                   *)
Places(s) ==
    {p \in Region \X (1 .. Queued(queue)) :
        p[2] <= Len(queue[p[1]]) /\ queue[p[1]][p[2]].s = s}
WaitsOrPassed ==
    \A s \in Slots :
        IF \E a \in Accounts : m_sessions[a] = s
        THEN /\ sess[s].inQueue # sess[s].passed
             /\ sess[s].inQueue => /\ Cardinality(Places(s)) = 1
                                  /\ s \in Waiting(queue[QueueOf(sess[s].acct)])
             /\ sess[s].passed => Places(s) = {}
        ELSE Places(s) = {}

(* loggedRegionSessions and loggedNonRegionSessions, which decide who has  *)
(* to wait, count the living sessions that passed the queue, characters    *)
(* left behind by a lost connection included.                              *)
LoggedIsPopulation ==
    \A i \in Region :
        logged[i] = Cardinality({s \in Alive :
                        sess[s].passed /\ GetQueueIndex(sess[s].acct) = i})

(* "PlayerHardLimit. Maximum number of players in the world": the sessions *)
(* that are in, those let past a full queue and the characters of lost     *)
(* clients not counted.                                                    *)
Admitted ==
    {a \in Listed(m_sessions) : /\ sess[m_sessions[a]].passed
                                /\ ~sess[m_sessions[a]].skipped}
WithinHardLimit == Cardinality(Admitted) <= HardLimit

(* A round of logins looks for room once and then lets LoginPerTick in:    *)
(* the overrun stays below LoginPerTick, and without the priority queue    *)
(* there is none.  Rounds of both regions, left-over limits and the        *)
(* admissions of RemoveQueuedSession do not add up.                        *)
PopulationBound ==
    Cardinality(Admitted) <= IF priorityQueue /\ LoginPerTick # 0
                             THEN HardLimit + (LoginPerTick - 1)
                             ELSE HardLimit

(* The grace period lets in again only an account whose session had passed *)
(* the queue: leaving while waiting and coming back is no way around it.   *)
GraceIsEarned ==
    [][\A a \in graced' \ graced :
            m_sessions[a] # NoSession /\ sess[m_sessions[a]].passed]_vars

(* A round of logins that has room lets somebody in, although it decides   *)
(* with populations read at the start of the tick, the limit the last      *)
(* round left and a count of sessions that excludes lost characters: the   *)
(* three together never turn a whole round away while the counters leave   *)
(* room for it.                                                            *)
Room(i) ==
    /\ LoginPerTick # 0 /\ logged[0] + logged[1] + LoginPerTick <= HardLimit
    /\ logged[i] < MaxPop[i]
RoundLetsIn ==
    [][\A i \in Region :
            /\ priorityQueue /\ queue[i] # <<>> /\ Room(i)
            /\ pc = (IF i = 0 THEN "regional" ELSE "nonregional") /\ pc' # pc
            => Len(queue'[i]) < Len(queue[i])]_vars

(* "LoginPerTick. Maximum number of players allowed to login from the      *)
(* queue during a world update tick": nobody waits for good in front of an *)
(* empty world.                                                            *)
EmptyWorldLetsIn ==
    \A s \in Slots :
        []<>~(/\ sess[s] # NoSession /\ sess[s].inQueue
              /\ logged[0] + logged[1] = 0)
=============================================================================
