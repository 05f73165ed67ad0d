------------------------------ MODULE PlayerLogin ------------------------------
(***************************************************************************)
(* The characters of one account between its sessions, the world and the   *)
(* database: src/game/WorldSession, Handlers/CharacterHandler and the      *)
(* parts of World::UpdateSessions and World::Shutdown that end sessions.   *)
(*                                                                         *)
(* A login reads the character with an asynchronous query holder and puts  *)
(* it into the world when the answer is handled, ticks later; a character  *)
(* whose client is lost stays in the world for a while, where a new        *)
(* session may take it over.                                               *)
(*                                                                         *)
(* The state of a character is a number that grows whenever it changes.    *)
(* Saves and logins of one character are executed in the order in which    *)
(* they were queued (LoginSeesSaves of SqlDelay); those of different       *)
(* characters in any order.  Who has to queue is in LoginQueue.            *)
(*                                                                         *)
(* Some saves are refused: after a race change, and when a logout does not *)
(* bring the character back to a map.                                      *)
(***************************************************************************)
EXTENDS Naturals, Sequences, FiniteSets

CONSTANTS Chars, Slots,
          None,           \* neither a character nor a session
          LogoutTicks,    \* ticks a lost character stays in the world
          MaxChanges,     \* bound: changes of characters
          MaxLogins,      \* bound: logins under way
          MaxPending      \* bound: operations queued for a character when
                          \* it is saved by the timer or logged in

VARIABLES
    sess,            \* the living WorldSession objects
    addSessQueue,
    m_session,       \* the session of the account in m_sessions
    m_disconnectedSessions,
    players,         \* the Player objects
    changes,         \* the last change of any character
    last,            \* history: the last state of a character in the world,
                     \* None if the code refuses to save it
    stored,          \* the characters in the database
    pending,         \* the saves and login holders queued for a character
    results,         \* login holders on their way back
    m_stopEvent,
    last_tick,       \* Shutdown has begun
    pc               \* where the world thread is

tables == <<sess, addSessQueue, m_session, m_disconnectedSessions>>
world == <<players, changes, last>>
database == <<stored, pending, results>>
stop == <<m_stopEvent, last_tick>>
vars == <<tables, world, database, stop, pc>>

Sessions == [open : BOOLEAN, loading : BOOLEAN, player : Chars \cup {None},
             timer : 0 .. LogoutTicks]
Players == [session : Slots, inWorld : BOOLEAN, m_DbSaveDisabled : BOOLEAN,
            state : Nat]
Saves == [op : {"save"}, state : Nat]
Loads == [op : {"load"}, alone : BOOLEAN]   \* alone: history, see Alone
Holders == [char : Chars, state : Nat, alone : BOOLEAN]

ASSUME PlayerAssumption ==
    /\ None \notin Slots /\ None \notin Chars
    /\ None \notin Sessions /\ None \notin Players /\ None \notin Nat
    /\ LogoutTicks \in Nat /\ MaxChanges \in Nat
    /\ MaxLogins \in Nat /\ MaxPending \in Nat
    /\ IsFiniteSet(Slots) /\ IsFiniteSet(Chars)

(* Login holders that are queued or on their way back. *)
QueuedLogins ==
    UNION {{<<c, k>> : k \in {i \in 1 .. Len(pending[c]) : pending[c][i].op = "load"}}
             : c \in Chars}
Logins == Len(results) + Cardinality(QueuedLogins)

(* A login of a character that is not in the world, while no other login   *)
(* of the account is under way.                                            *)
Alone(c) == players[c] = None /\ results = <<>> /\ QueuedLogins = {}

-----------------------------------------------------------------------------
Playing(group) == {sess[s].player : s \in group} \ {None}

(* SaveToDB of the characters of a set, refused after a race change. *)
SaveToDB(group) ==
    pending' = [c \in Chars |->
        IF c \in group /\ ~players[c].m_DbSaveDisabled
        THEN Append(pending[c], [op |-> "save", state |-> players[c].state])
        ELSE pending[c]]

\* Mutant: a character between two maps is not put back and saved.
SavedInWorld(group, lost) == {c \in Playing(group) \ lost : players[c].inWorld}

(* LogoutPlayer finishes the transfers between maps, one under way and     *)
(* those it starts itself.  A character that is then on no map, because    *)
(* none would take it, is not saved.                                       *)
SavedOf(group, lost) == Playing(group) \ lost

(* LogoutPlayer(true) of the sessions of a set. *)
LogoutPlayers(group) ==
    /\ players' = [c \in Chars |-> IF c \in Playing(group) THEN None ELSE players[c]]
    /\ \E lost \in SUBSET Playing(group) :
         /\ SaveToDB(SavedOf(group, lost))
         /\ last' = [c \in Chars |-> IF c \in lost THEN None ELSE last[c]]
    /\ UNCHANGED <<changes, stored, results>>

(* ForcePlayerLogoutDelay: not while the server stops, and only for a      *)
(* character that is in the world.                                         *)
Lingers(s) ==
    /\ ~m_stopEvent
    /\ sess[s].player # None
    /\ players[sess[s].player].inWorld

(* Then the character is saved and the session becomes a disconnected one. *)
ForcePlayerLogoutDelay(s) ==
    /\ m_disconnectedSessions' = m_disconnectedSessions \cup {s}
    /\ SaveToDB({sess[s].player})
    /\ UNCHANGED <<world, stored, results>>

-----------------------------------------------------------------------------
(* The client and the network threads. *)

HandleAuthSession(s) ==
    /\ sess[s] = None
    /\ sess' = [sess EXCEPT ![s] =
            [open |-> TRUE, loading |-> FALSE, player |-> None, timer |-> 0]]
    /\ addSessQueue' = Append(addSessQueue, s)
    /\ UNCHANGED <<m_session, m_disconnectedSessions, world, database, stop, pc>>

SocketCloses(s) ==
    /\ sess[s] # None /\ sess[s].open
    /\ sess' = [sess EXCEPT ![s].open = FALSE]
    /\ UNCHANGED <<addSessQueue, m_session, m_disconnectedSessions, world,
                   database, stop, pc>>

(* A delay thread executes the next operation of a character. *)
DelayThread(c) ==
    /\ pending[c] # <<>>
    /\ pending' = [pending EXCEPT ![c] = Tail(@)]
    /\ LET op == Head(pending[c]) IN
       IF op.op = "save"
       THEN /\ stored' = [stored EXCEPT ![c] = op.state]
            /\ UNCHANGED results
       ELSE /\ results' = Append(results, [char |-> c, state |-> stored[c],
                                          alone |-> op.alone])
            /\ UNCHANGED stored
    /\ UNCHANGED <<tables, world, stop, pc>>

-----------------------------------------------------------------------------
(* World::UpdateSessions. *)

(* AddSession_: a session that is loading stays and the new one goes; any  *)
(* other is replaced.                                                      *)
AddSession ==
    LET s == Head(addSessQueue)
        old == m_session
    IN
    /\ pc = "add" /\ addSessQueue # <<>>
    /\ addSessQueue' = Tail(addSessQueue)
    /\ \/ /\ old # None /\ sess[old].loading
          /\ sess' = [sess EXCEPT ![s] = None]
          /\ UNCHANGED <<m_session, m_disconnectedSessions, world, database>>
       \/ /\ old # None /\ ~sess[old].loading /\ Lingers(old)
          /\ ForcePlayerLogoutDelay(old)
          /\ sess' = [sess EXCEPT ![old].open = FALSE, ![old].timer = LogoutTicks]
          /\ m_session' = s
       \/ /\ old # None /\ ~sess[old].loading /\ ~Lingers(old)
          /\ LogoutPlayers({old})
          /\ sess' = [sess EXCEPT ![old] = None]
          /\ m_session' = s
          /\ UNCHANGED m_disconnectedSessions
       \/ /\ old = None
          /\ m_session' = s
          /\ UNCHANGED <<sess, m_disconnectedSessions, world, database>>
    /\ UNCHANGED <<stop, pc>>

AddedAll ==
    /\ pc = "add" /\ addSessQueue = <<>>
    /\ pc' = IF m_session = None THEN "disconnected" ELSE "update"
    /\ UNCHANGED <<tables, world, database, stop>>

(* WorldSession::Update: the packets of the client first (log a character  *)
(* in, HandlePlayerLoginOpcode; log it out), then a lost client.           *)
UpdateNothing ==
    /\ pc = "update" /\ sess[m_session].open
    /\ pc' = "disconnected"
    /\ UNCHANGED <<tables, world, database, stop>>

\* Mutant: the login is not queued behind the saves of the character.
QueueFirst(c) == <<[op |-> "load", alone |-> Alone(c)]>> \o pending[c]

QueueLogin(c) == Append(pending[c], [op |-> "load", alone |-> Alone(c)])

HandlePlayerLoginOpcode(c) ==
    LET s == m_session IN
    /\ pc = "update" /\ sess[s].open
    /\ ~sess[s].loading /\ sess[s].player = None
    /\ Logins < MaxLogins /\ Len(pending[c]) <= MaxPending
    /\ sess' = [sess EXCEPT ![s].loading = TRUE]
    /\ pending' = [pending EXCEPT ![c] = QueueLogin(c)]
    /\ pc' = "disconnected"
    /\ UNCHANGED <<addSessQueue, m_session, m_disconnectedSessions, world,
                   stored, results, stop>>

LogoutRequest ==
    /\ pc = "update" /\ sess[m_session].open
    /\ sess[m_session].player # None /\ ~sess[m_session].loading
    /\ LogoutPlayers({m_session})
    /\ sess' = [sess EXCEPT ![m_session].player = None]
    /\ pc' = "disconnected"
    /\ UNCHANGED <<addSessQueue, m_session, m_disconnectedSessions, stop>>

SetSessionDisconnected ==
    LET s == m_session IN
    /\ pc = "update" /\ ~sess[s].open /\ Lingers(s)
    /\ ForcePlayerLogoutDelay(s)
    /\ sess' = [sess EXCEPT ![s].timer = LogoutTicks]
    /\ m_session' = None
    /\ pc' = "disconnected"
    /\ UNCHANGED <<addSessQueue, stop>>

(* Update returned false: a lost client without a character in the world,  *)
(* one that still loads one included, or an idle one.                      *)
DeleteSession ==
    LET s == m_session IN
    /\ pc = "update"
    /\ \/ ~sess[s].open /\ ~Lingers(s)
       \/ sess[s].player = None /\ ~sess[s].loading
    /\ LogoutPlayers({s})
    /\ sess' = [sess EXCEPT ![s] = None]
    /\ m_session' = None
    /\ pc' = "disconnected"
    /\ UNCHANGED <<addSessQueue, m_disconnectedSessions, stop>>

(* UpdateDisconnected of every disconnected session; deleting one logs its *)
(* character out.  In its last tick of one millisecond, a session with     *)
(* time left for less than a tick may stay.                                *)
Ended ==
    LET empty == {d \in m_disconnectedSessions :
                    \/ sess[d].player = None
                    \/ ~players[sess[d].player].inWorld}
        due == {d \in m_disconnectedSessions : sess[d].timer = 0}
    IN  {empty \cup e : e \in IF last_tick THEN SUBSET due ELSE {due}}

\* Mutant: the timer is not compared with the tick.
RunsDown(t) == t - 1

Remaining(t) == IF t = 0 THEN 0 ELSE t - 1

UpdateDisconnected ==
    \E over \in Ended :
    /\ pc = "disconnected"
    /\ LogoutPlayers(over)
    /\ sess' = [s \in Slots |->
            CASE s \in over -> None
              [] s \in m_disconnectedSessions \ over ->
                    [sess[s] EXCEPT !.timer = Remaining(@)]
              [] OTHER -> sess[s]]
    /\ m_disconnectedSessions' = m_disconnectedSessions \ over
    /\ pc' = IF last_tick THEN "halted" ELSE "maps"
    /\ UNCHANGED <<addSessQueue, m_session, stop>>

-----------------------------------------------------------------------------
(* The maps: characters change, are saved now and then, and are out of the *)
(* world while they travel between two maps.  What a character does once   *)
(* its saves are disabled is lost, so the number of that state is used     *)
(* again.                                                                  *)
Play(c) ==
    /\ pc = "maps"
    /\ players[c] # None /\ players[c].inWorld
    /\ players' = [players EXCEPT ![c].state = changes + 1]
    /\ \/ /\ ~players[c].m_DbSaveDisabled /\ changes < MaxChanges
          /\ changes' = changes + 1
          /\ last' = [last EXCEPT ![c] = changes + 1]
       \/ /\ players[c].m_DbSaveDisabled
          /\ last' = [last EXCEPT ![c] = None]
          /\ UNCHANGED changes
    /\ UNCHANGED <<tables, database, stop, pc>>

SaveTimer(c) ==
    /\ pc = "maps"
    /\ players[c] # None /\ players[c].inWorld /\ Len(pending[c]) < MaxPending
    /\ SaveToDB({c})
    /\ UNCHANGED <<tables, world, stored, results, stop, pc>>

(* ChangeRace, from an item the client uses: the changed character is      *)
(* saved, then no more, and its client is closed.                          *)
ChangeRace(c) ==
    /\ pc = "maps"
    /\ players[c] # None /\ players[c].inWorld /\ sess[players[c].session].open
    /\ changes < MaxChanges /\ Len(pending[c]) < MaxPending
    /\ changes' = changes + 1
    /\ players' = [players EXCEPT ![c].state = changes + 1,
                                  ![c].m_DbSaveDisabled = TRUE]
    /\ last' = [last EXCEPT ![c] = changes + 1]
    /\ pending' = [pending EXCEPT ![c] =
            Append(@, [op |-> "save", state |-> changes + 1])]
    /\ sess' = [sess EXCEPT ![players[c].session].open = FALSE]
    /\ UNCHANGED <<addSessQueue, m_session, m_disconnectedSessions, stored,
                   results, stop, pc>>

(* One that fails half way is undone by LogoutPlayer(false). *)
ChangeRaceFails(c) ==
    /\ pc = "maps"
    /\ players[c] # None /\ players[c].inWorld /\ sess[players[c].session].open
    /\ sess' = [sess EXCEPT ![players[c].session].player = None]
    /\ players' = [players EXCEPT ![c] = None]
    /\ last' = [last EXCEPT ![c] = None]
    /\ UNCHANGED <<addSessQueue, m_session, m_disconnectedSessions, changes,
                   database, stop, pc>>

(* A far teleport takes the character off its map; it is put on the other  *)
(* one when the client has loaded that, so not without a client.           *)
TeleportFar(c) ==
    /\ pc = "maps" /\ players[c] # None
    /\ players[c].inWorld \/ sess[players[c].session].open
    /\ players' = [players EXCEPT ![c].inWorld = ~@]
    /\ UNCHANGED <<tables, changes, last, database, stop, pc>>

MapsDone ==
    /\ pc = "maps"
    /\ pc' = "results"
    /\ UNCHANGED <<tables, world, database, stop>>

-----------------------------------------------------------------------------
(* HandlePlayerLoginCallback, from UpdateResultQueue: the answer goes to   *)
(* the session the account has now.                                        *)
Answer == Head(results)

(* No session, or one that is not waiting for it. *)
DropAnswer ==
    /\ pc = "results" /\ results # <<>>
    /\ results' = Tail(results)
    /\ IF m_session = None THEN UNCHANGED sess
       ELSE /\ sess[m_session].player # None \/ ~sess[m_session].loading
            /\ sess' = [sess EXCEPT ![m_session].loading = FALSE]
    /\ UNCHANGED <<addSessQueue, m_session, m_disconnectedSessions, world,
                   stored, pending, stop, pc>>

Expects ==
    /\ pc = "results" /\ results # <<>> /\ m_session # None
    /\ sess[m_session].player = None /\ sess[m_session].loading

\* Mutant: the old session keeps its pointer to the character.
KeptBy(c) == sess

Released(c) == [sess EXCEPT ![players[c].session].player = None]

(* The character is in the world: take it over from the session it has. *)
TakeOver ==
    LET c == Answer.char IN
    /\ Expects
    /\ players[c] # None /\ players[c].inWorld
    /\ sess' = [Released(c) EXCEPT ![m_session].player = c,
                                   ![m_session].loading = FALSE]
    /\ players' = [players EXCEPT ![c].session = m_session]
    /\ results' = Tail(results)
    /\ UNCHANGED <<addSessQueue, m_session, m_disconnectedSessions, changes,
                   last, stored, pending, stop, pc>>

(* LoadFromDB, from what the holder found. *)
LoadFromDB ==
    LET c == Answer.char IN
    /\ Expects
    /\ players[c] = None
    /\ sess' = [sess EXCEPT ![m_session].player = c, ![m_session].loading = FALSE]
    /\ players' = [players EXCEPT ![c] =
            [session |-> m_session, inWorld |-> TRUE, m_DbSaveDisabled |-> FALSE,
             state |-> Answer.state]]
    /\ last' = [last EXCEPT ![c] = Answer.state]
    /\ results' = Tail(results)
    /\ UNCHANGED <<addSessQueue, m_session, m_disconnectedSessions, changes,
                   stored, pending, stop, pc>>

\* Mutant: the session stays in loading.
FailsLoading ==
    /\ Expects
    /\ players[Answer.char] # None => ~players[Answer.char].inWorld
    /\ sess' = [sess EXCEPT ![m_session].open = FALSE]
    /\ results' = Tail(results)
    /\ UNCHANGED <<addSessQueue, m_session, m_disconnectedSessions, world,
                   stored, pending, stop, pc>>

(* The character travels between maps, or it cannot be loaded. *)
LoginFails ==
    /\ Expects
    /\ players[Answer.char] # None => ~players[Answer.char].inWorld
    /\ sess' = [sess EXCEPT ![m_session].open = FALSE, ![m_session].loading = FALSE]
    /\ results' = Tail(results)
    /\ UNCHANGED <<addSessQueue, m_session, m_disconnectedSessions, world,
                   stored, pending, stop, pc>>

EndTick ==
    /\ pc = "results" /\ ~m_stopEvent
    /\ pc' = "add"
    /\ UNCHANGED <<tables, world, database, stop>>

(* World::StopNow: a signal, the console or the shutdown timer. *)
StopNow ==
    /\ ~m_stopEvent
    /\ m_stopEvent' = TRUE
    /\ UNCHANGED <<tables, world, database, last_tick, pc>>

(* World::Shutdown when the loop has ended: KickAll, and UpdateSessions    *)
(* once more.                                                              *)
Shutdown ==
    /\ pc = "results" /\ m_stopEvent
    /\ last_tick' = TRUE
    /\ sess' = IF m_session = None THEN sess
               ELSE [sess EXCEPT ![m_session].open = FALSE]
    /\ pc' = "add"
    /\ UNCHANGED <<addSessQueue, m_session, m_disconnectedSessions, world,
                   database, m_stopEvent>>

-----------------------------------------------------------------------------
Init ==
    /\ sess = [s \in Slots |-> None]
    /\ addSessQueue = <<>> /\ m_session = None /\ m_disconnectedSessions = {}
    /\ players = [c \in Chars |-> None]
    /\ changes = 0 /\ last = [c \in Chars |-> 0]
    /\ stored = [c \in Chars |-> 0]
    /\ pending = [c \in Chars |-> <<>>] /\ results = <<>>
    /\ m_stopEvent = FALSE /\ last_tick = FALSE /\ pc = "add"

UpdateSession ==
    \/ UpdateNothing \/ LogoutRequest \/ SetSessionDisconnected \/ DeleteSession
    \/ \E c \in Chars : HandlePlayerLoginOpcode(c)

HandlePlayerLogin == DropAnswer \/ TakeOver \/ LoadFromDB \/ LoginFails

Maps ==
    \E c \in Chars :
        Play(c) \/ SaveTimer(c) \/ ChangeRace(c) \/ ChangeRaceFails(c) \/ TeleportFar(c)

Network ==
    /\ pc # "halted"
    /\ \E s \in Slots : HandleAuthSession(s) \/ SocketCloses(s)

(* The process ends; the delay threads still execute what is queued. *)
Halted ==
    /\ pc = "halted" /\ \A c \in Chars : pending[c] = <<>>
    /\ UNCHANGED vars

Next ==
    \/ AddSession \/ AddedAll \/ UpdateSession \/ UpdateDisconnected
    \/ Maps \/ MapsDone \/ HandlePlayerLogin \/ EndTick \/ StopNow \/ Shutdown
    \/ Network \/ Halted
    \/ \E c \in Chars : DelayThread(c)

Spec == Init /\ [][Next]_vars

-----------------------------------------------------------------------------
(* Types of the tables. *)
TypeOK ==
    /\ sess \in [Slots -> Sessions \cup {None}]
    /\ addSessQueue \in Seq(Slots)
    /\ m_session \in Slots \cup {None} /\ m_disconnectedSessions \subseteq Slots
    /\ players \in [Chars -> Players \cup {None}]
    /\ changes \in 0 .. MaxChanges /\ last \in [Chars -> Nat \cup {None}]
    /\ stored \in [Chars -> Nat]
    /\ pending \in [Chars -> Seq(Saves \cup Loads)] /\ results \in Seq(Holders)
    /\ m_stopEvent \in BOOLEAN /\ last_tick \in BOOLEAN
    /\ pc \in {"add", "update", "disconnected", "maps", "results", "halted"}

(* A character in the world has exactly one session, which is alive and    *)
(* has it, whatever relogs, takeovers and timeouts came before: no Player  *)
(* object keeps a pointer to a deleted session and no session one to a     *)
(* character that another session owns or that was deleted.                *)
PlayerHasItsSession ==
    /\ \A c \in Chars : players[c] # None =>
            /\ sess[players[c].session] # None
            /\ sess[players[c].session].player = c
    /\ \A s \in Slots : sess[s] # None /\ sess[s].player # None =>
            /\ players[sess[s].player] # None
            /\ players[sess[s].player].session = s
            /\ s = m_session \/ s \in m_disconnectedSessions

(* What a character last was is on its way to the database once it has     *)
(* left the world: by logout, kick, lost client, relog, or the end of the  *)
(* time after a lost client, between two maps and after a race change too. *)
(* Only those are excepted whom SaveToDB or LogoutPlayer refused: a        *)
(* character that played on after its race change, one that a logout       *)
(* leaves on no map, and one whose failed race change is undone.           *)
LatestSaved(c, state) ==
    LET After(k) == {pending[c][j].op : j \in k + 1 .. Len(pending[c])}
    IN  \/ stored[c] = state /\ "save" \notin After(0)
        \/ \E k \in 1 .. Len(pending[c]) :
             /\ pending[c][k] = [op |-> "save", state |-> state]
             /\ "save" \notin After(k)
LeavesSaved ==
    \A c \in Chars : players[c] = None /\ last[c] # None => LatestSaved(c, last[c])

(* A login that is alone brings the character back as it last was, unless  *)
(* that state was refused.                                                 *)
LoginFindsLastState ==
    [][\A c \in Chars :
            players[c] = None /\ players'[c] # None /\ Answer.alone /\ last[c] # None
                => players'[c].state = last[c]]_vars

(* A session that is loading, which turns away every further session of    *)
(* the account, has an answer on its way that will end that, although an   *)
(* answer goes to whichever session the account has when it arrives, and   *)
(* those of lost sessions still arrive.                                    *)
LoadingIsAnswered ==
    m_session # None /\ sess[m_session].loading => Logins > 0

(* KickAll: "Kick (and save) all players"; Shutdown: "save and kick all    *)
(* players".  When the server has stopped, every character is stored as it *)
(* last was in the world (or was refused by a save before).                *)
ShutdownSaves ==
    pc = "halted" => \A c \in Chars : last[c] # None => LatestSaved(c, last[c])

=============================================================================
