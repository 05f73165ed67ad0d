--------------------------- MODULE PlayerLoginProofs ---------------------------
(***************************************************************************)
(* What holds of characters and sessions for any number of sessions and of *)
(* characters of an account: they point to each other, whoever leaves the  *)
(* world is saved, a login that is alone brings a character back as it     *)
(* last was, and a session that loads is answered.                         *)
(***************************************************************************)
EXTENDS PlayerLogin, SequenceTheorems, FiniteSetTheorems, TLAPS

(* Whose sessions are where: those of the tables are alive, in one table   *)
(* only, and without a character before AddSession_.                       *)
Ownership ==
    /\ m_session # None => sess[m_session] # None
    /\ pc = "update" => m_session # None
    /\ \A d \in m_disconnectedSessions : sess[d] # None /\ d # m_session
    /\ \A k \in 1 .. Len(addSessQueue) :
         /\ sess[addSessQueue[k]] # None /\ sess[addSessQueue[k]].player = None
         /\ addSessQueue[k] # m_session /\ addSessQueue[k] \notin m_disconnectedSessions
    /\ \A j, k \in 1 .. Len(addSessQueue) :
         addSessQueue[j] = addSessQueue[k] => j = k

IndInv == TypeOK /\ Ownership /\ PlayerHasItsSession

SessType == sess \in [Slots -> Sessions \cup {None}]
PlayersType == players \in [Chars -> Players \cup {None}]
PendingType == pending \in [Chars -> Seq(Saves \cup Loads)]

(* A step that moves no character and no session. *)
SameOwners ==
    /\ \A t \in Slots : /\ sess'[t] = None <=> sess[t] = None
                        /\ sess[t] # None => sess'[t].player = sess[t].player
    /\ \A c \in Chars : /\ players'[c] = None <=> players[c] = None
                        /\ players[c] # None => players'[c].session = players[c].session
    /\ UNCHANGED <<addSessQueue, m_session, m_disconnectedSessions>>

(* Such a step keeps the ownership of sessions and characters.             *)
LEMMA Frame ==
    IndInv /\ SameOwners /\ (pc' = "update" => m_session # None)
        => Ownership' /\ PlayerHasItsSession'
<1> SUFFICES ASSUME IndInv, SameOwners, pc' = "update" => m_session # None
             PROVE  Ownership' /\ PlayerHasItsSession'
    OBVIOUS
<1> USE PlayerAssumption DEF IndInv, TypeOK
<1>1. Ownership'
  <2>1. \A k \in 1 .. Len(addSessQueue) : addSessQueue[k] \in Slots
    OBVIOUS
  <2> QED
    BY <2>1 DEF Ownership, SameOwners
<1>2. ASSUME NEW c \in Chars, players'[c] # None
      PROVE  /\ sess'[players'[c].session] # None
             /\ sess'[players'[c].session].player = c
  <2>1. players[c] # None /\ players'[c].session = players[c].session
    BY <1>2 DEF SameOwners
  <2>2. players[c].session \in Slots
    BY <2>1 DEF Players
  <2>3. sess[players[c].session] # None /\ sess[players[c].session].player = c
    BY <2>1 DEF PlayerHasItsSession
  <2> HIDE DEF IndInv, TypeOK
  <2> QED
    BY <2>1, <2>2, <2>3 DEF SameOwners
<1>3. ASSUME NEW s \in Slots, sess'[s] # None, sess'[s].player # None
      PROVE  /\ players'[sess'[s].player] # None
             /\ players'[sess'[s].player].session = s
             /\ s = m_session' \/ s \in m_disconnectedSessions'
  <2>1. sess[s] # None /\ sess'[s].player = sess[s].player
    BY <1>3 DEF SameOwners
  <2>2. sess[s].player \in Chars
    BY <1>3, <2>1 DEF Sessions
  <2>3. /\ players[sess[s].player] # None /\ players[sess[s].player].session = s
        /\ s = m_session \/ s \in m_disconnectedSessions
    BY <1>3, <2>1 DEF PlayerHasItsSession
  <2> HIDE DEF IndInv, TypeOK
  <2> QED
    BY <2>1, <2>2, <2>3 DEF SameOwners
<1> QED
    BY <1>1, <1>2, <1>3 DEF PlayerHasItsSession

(* One session changes and keeps its character. *)
LEMMA KeepsPlayer ==
    ASSUME TypeOK, NEW s \in Slots, sess[s] # None, NEW r \in Sessions,
           r.player = sess[s].player, sess' = [sess EXCEPT ![s] = r]
    PROVE  /\ SessType'
           /\ \A t \in Slots : /\ sess'[t] = None <=> sess[t] = None
                               /\ sess[t] # None => sess'[t].player = sess[t].player
  BY PlayerAssumption DEF TypeOK, SessType

(* The sessions the tables and the characters name exist, and are typed.   *)
LEMMA Living ==
    ASSUME IndInv
    PROVE  /\ m_session # None => m_session \in Slots /\ sess[m_session] \in Sessions
           /\ \A d \in m_disconnectedSessions : d \in Slots /\ sess[d] \in Sessions
           /\ \A k \in 1 .. Len(addSessQueue) :
                addSessQueue[k] \in Slots /\ sess[addSessQueue[k]] \in Sessions
           /\ \A c \in Chars : players[c] # None =>
                /\ players[c] \in Players /\ players[c].session \in Slots
                /\ sess[players[c].session] \in Sessions
           /\ \A s \in Slots : sess[s] # None =>
                sess[s] \in Sessions /\ sess[s].player \in Chars \cup {None}
<1> USE PlayerAssumption DEF IndInv, TypeOK
<1>1. \A k \in 1 .. Len(addSessQueue) : addSessQueue[k] \in Slots
  OBVIOUS
<1>2. \A c \in Chars : players[c] # None => players[c] \in Players /\ players[c].session \in Slots
  BY DEF Players
<1>3. \A s \in Slots : sess[s] # None =>
                sess[s] \in Sessions /\ sess[s].player \in Chars \cup {None}
  BY DEF Sessions
<1> QED
  BY <1>1, <1>2, <1>3 DEF Ownership, PlayerHasItsSession

(* The updates of a session's record. *)
LEMMA Records ==
    ASSUME NEW r \in Sessions
    PROVE  /\ \A v \in BOOLEAN :
                /\ [r EXCEPT !.open = v] \in Sessions
                /\ [r EXCEPT !.open = v].player = r.player
                /\ [r EXCEPT !.loading = v] \in Sessions
                /\ [r EXCEPT !.loading = v].player = r.player
                /\ [r EXCEPT !.open = FALSE, !.loading = v] \in Sessions
                /\ [r EXCEPT !.open = FALSE, !.loading = v].player = r.player
           /\ \A n \in 0 .. LogoutTicks :
                /\ [r EXCEPT !.timer = n] \in Sessions
                /\ [r EXCEPT !.timer = n].player = r.player
                /\ [r EXCEPT !.open = FALSE, !.timer = n] \in Sessions
                /\ [r EXCEPT !.open = FALSE, !.timer = n].player = r.player
           /\ \A c \in Chars \cup {None} :
                /\ [r EXCEPT !.player = c] \in Sessions
                /\ [r EXCEPT !.player = c].player = c
                /\ [r EXCEPT !.player = c, !.loading = FALSE] \in Sessions
                /\ [r EXCEPT !.player = c, !.loading = FALSE].player = c
  BY DEF Sessions

(* Operations are queued in the right form. *)
LEMMA QueueTypes ==
    ASSUME TypeOK, NEW c \in Chars
    PROVE  /\ players[c] # None =>
                Append(pending[c], [op |-> "save", state |-> players[c].state])
                    \in Seq(Saves \cup Loads)
           /\ QueueLogin(c) \in Seq(Saves \cup Loads)
<1>1. players[c] # None => [op |-> "save", state |-> players[c].state] \in Saves
  BY DEF TypeOK, Players, Saves
<1>2. [op |-> "load", alone |-> Alone(c)] \in Loads
  BY DEF Loads, Alone
<1>3. pending[c] \in Seq(Saves \cup Loads)
  BY DEF TypeOK
<1> QED
  BY <1>1, <1>2, <1>3 DEF QueueLogin

(* So are the saves of SaveToDB. *)
LEMMA SaveTypes ==
    ASSUME TypeOK, NEW G, \A c \in Chars : c \in G => players[c] # None, SaveToDB(G)
    PROVE  PendingType'
<1>1. ASSUME NEW c \in Chars PROVE pending'[c] \in Seq(Saves \cup Loads)
  BY QueueTypes DEF SaveToDB, TypeOK
<1> QED
  BY <1>1 DEF SaveToDB, PendingType

(* LogoutPlayer takes the characters of the sessions out of the world; it  *)
(* saves them but for the lost ones.                                       *)
LEMMA Logout ==
    ASSUME IndInv, NEW group \in SUBSET Slots, \A s \in group : sess[s] # None,
           LogoutPlayers(group)
    PROVE  /\ PlayersType' /\ PendingType' /\ last' \in [Chars -> Nat \cup {None}]
           /\ Playing(group) \subseteq Chars
           /\ \A c \in Chars :
                /\ c \in Playing(group) <=>
                        players[c] # None /\ players[c].session \in group
                /\ players'[c] = IF c \in Playing(group) THEN None ELSE players[c]
<1> USE PlayerAssumption
<1>1. Playing(group) \subseteq Chars
  BY Living DEF Playing
<1>2. \A c \in Chars : c \in Playing(group) <=>
                        players[c] # None /\ players[c].session \in group
  BY <1>1, Living DEF Playing, IndInv, PlayerHasItsSession
<1>3. PlayersType'
  BY <1>1 DEF LogoutPlayers, PlayersType, IndInv, TypeOK
<1>4. PICK lost \in SUBSET Playing(group) :
        /\ SaveToDB(SavedOf(group, lost))
        /\ last' = [c \in Chars |-> IF c \in lost THEN None ELSE last[c]]
  BY DEF LogoutPlayers
<1>5. PendingType'
  <2>1. \A c \in Chars : c \in SavedOf(group, lost) => players[c] # None
    BY <1>2 DEF SavedOf
  <2> QED
    BY <1>4, <2>1, SaveTypes DEF IndInv
<1>6. last' \in [Chars -> Nat \cup {None}]
  BY <1>4 DEF IndInv, TypeOK
<1> QED
  BY <1>1, <1>2, <1>3, <1>5, <1>6 DEF LogoutPlayers

-----------------------------------------------------------------------------
(* Steps that move no character and no session. *)

USE PlayerAssumption

(* Steps of the world thread and the delay threads that move neither       *)
(* sessions nor characters.                                                *)
LEMMA QuietSteps ==
    ASSUME IndInv,
           \/ AddedAll \/ UpdateNothing \/ MapsDone \/ EndTick \/ StopNow
           \/ Halted \/ UNCHANGED vars \/ \E c \in Chars : SaveTimer(c) \/ DelayThread(c)
    PROVE  IndInv'
<1>1. UNCHANGED <<sess, addSessQueue, m_session, m_disconnectedSessions, players>>
  BY DEF AddedAll, UpdateNothing, MapsDone, EndTick, StopNow, Halted, SaveTimer,
         DelayThread, vars, tables, world, database, stop
<1>2. pc' = "update" => m_session # None
  BY DEF AddedAll, UpdateNothing, MapsDone, EndTick, StopNow, Halted, SaveTimer,
         DelayThread, vars, IndInv, Ownership
<1>3. SameOwners
  BY <1>1 DEF SameOwners
<1>4. TypeOK'
  <2>1. CASE \E c \in Chars : SaveTimer(c)
    <3>1. PICK c \in Chars : SaveTimer(c)
      BY <2>1
    <3>2. PendingType'
      BY <3>1, SaveTypes DEF SaveTimer, IndInv
    <3> QED
      BY <3>1, <3>2 DEF SaveTimer, PendingType, IndInv, TypeOK, tables, world, stop
  <2>2. CASE \E c \in Chars : DelayThread(c)
    <3>1. PICK c \in Chars : DelayThread(c)
      BY <2>2
    <3>2. /\ pending[c] \in Seq(Saves \cup Loads) /\ pending[c] # <<>>
          /\ Head(pending[c]) \in Saves \cup Loads
          /\ Tail(pending[c]) \in Seq(Saves \cup Loads)
      <4>1. pending[c] \in Seq(Saves \cup Loads) /\ pending[c] # <<>>
        BY <3>1 DEF DelayThread, IndInv, TypeOK
      <4> QED
        BY <4>1, HeadTailProperties
    <3>3. PendingType'
      BY <3>1, <3>2 DEF DelayThread, PendingType, IndInv, TypeOK
    <3>4. CASE Head(pending[c]).op = "save"
      <4>1. Head(pending[c]) \in Saves
        BY <3>2, <3>4 DEF Loads
      <4>2. stored' \in [Chars -> Nat] /\ results' = results
        BY <3>1, <3>4, <4>1 DEF DelayThread, Saves, IndInv, TypeOK
      <4> QED
        BY <3>1, <3>3, <4>2 DEF DelayThread, PendingType, IndInv, TypeOK, tables, world, stop
    <3>5. CASE Head(pending[c]).op # "save"
      <4>1. Head(pending[c]) \in Loads
        BY <3>2, <3>5 DEF Saves
      <4> DEFINE h == [char |-> c, state |-> stored[c], alone |-> Head(pending[c]).alone]
      <4>2. h \in Holders
        BY <4>1 DEF Loads, Holders, IndInv, TypeOK
      <4>3. stored' = stored /\ results' \in Seq(Holders)
        <5>1. stored' = stored /\ results' = Append(results, h)
          BY <3>1, <3>5, Zenon DEF DelayThread
        <5>2. results \in Seq(Holders)
          BY DEF IndInv, TypeOK
        <5> QED
          BY <4>2, <5>1, <5>2, AppendProperties
      <4> QED
        BY <3>1, <3>3, <4>3 DEF DelayThread, PendingType, IndInv, TypeOK, tables, world, stop
    <3> QED
      BY <3>4, <3>5
  <2>3. CASE \/ AddedAll \/ UpdateNothing \/ MapsDone \/ EndTick \/ StopNow
             \/ Halted \/ UNCHANGED vars
    BY <2>3 DEF AddedAll, UpdateNothing, MapsDone, EndTick, StopNow, Halted,
                IndInv, TypeOK, vars, tables, world, database, stop
  <2> QED
    BY <2>1, <2>2, <2>3
<1> QED
  BY <1>2, <1>3, <1>4, Frame DEF IndInv

(* A character changes or travels. *)
LEMMA MapSteps ==
    ASSUME IndInv, NEW c \in Chars, Play(c) \/ TeleportFar(c)
    PROVE  IndInv'
<1>1. players[c] # None /\ players[c] \in Players
  BY DEF Play, TeleportFar, IndInv, TypeOK
<1>2. PICK p \in Players : p.session = players[c].session /\ players' = [players EXCEPT ![c] = p]
  <2>1. CASE Play(c)
    <3>1. changes + 1 \in Nat
      BY DEF IndInv, TypeOK
    <3>2. [players[c] EXCEPT !.state = changes + 1] \in Players
      BY <1>1, <3>1 DEF Players
    <3>3. [players[c] EXCEPT !.state = changes + 1].session = players[c].session
      BY <1>1 DEF Players
    <3> QED
      BY <2>1, <3>2, <3>3 DEF Play, IndInv, TypeOK
  <2>2. CASE TeleportFar(c)
    <3>1. [players[c] EXCEPT !.inWorld = ~@] \in Players
      BY <1>1 DEF Players
    <3>2. [players[c] EXCEPT !.inWorld = ~@].session = players[c].session
      BY <1>1 DEF Players
    <3> QED
      BY <2>2, <3>1, <3>2 DEF TeleportFar, IndInv, TypeOK
  <2> QED
    BY <2>1, <2>2
<1>3. PlayersType'
  BY <1>2 DEF PlayersType, IndInv, TypeOK
<1>4. \A d \in Chars : /\ players'[d] = None <=> players[d] = None
                       /\ players[d] # None => players'[d].session = players[d].session
  BY <1>1, <1>2 DEF IndInv, TypeOK
<1>5. UNCHANGED <<sess, addSessQueue, m_session, m_disconnectedSessions>> /\ pc' = "maps"
  BY DEF Play, TeleportFar, tables
<1>6. SameOwners
  BY <1>4, <1>5 DEF SameOwners
<1>7. TypeOK'
  <2>1. CASE Play(c)
    <3>1. changes' \in 0 .. MaxChanges /\ last' \in [Chars -> Nat \cup {None}]
      <4>1. /\ changes \in 0 .. MaxChanges /\ changes + 1 \in Nat
            /\ last \in [Chars -> Nat \cup {None}]
        BY DEF IndInv, TypeOK
      <4>2. \A x \in Nat \cup {None} : [last EXCEPT ![c] = x] \in [Chars -> Nat \cup {None}]
        BY <4>1
      <4>3. \/ /\ changes < MaxChanges /\ changes' = changes + 1
               /\ last' = [last EXCEPT ![c] = changes + 1]
            \/ changes' = changes /\ last' = [last EXCEPT ![c] = None]
        BY <2>1, Zenon DEF Play
      <4> QED
        BY <4>1, <4>2, <4>3
    <3> QED
      BY <2>1, <3>1, <1>3, <1>5 DEF Play, PlayersType, IndInv, TypeOK, database, stop
  <2>2. CASE TeleportFar(c)
    BY <2>2, <1>3, <1>5 DEF TeleportFar, PlayersType, IndInv, TypeOK, database, stop
  <2> QED
    BY <2>1, <2>2
<1> QED
  BY <1>5, <1>6, <1>7, Frame DEF IndInv

(* A session opens, closes, or begins or ends to load.                     *)
LEMMA SessionSteps ==
    ASSUME IndInv,
           \/ DropAnswer \/ LoginFails \/ Shutdown
           \/ \E c \in Chars : HandlePlayerLoginOpcode(c)
           \/ \E s \in Slots : SocketCloses(s)
    PROVE  IndInv'
<1>1. \/ sess' = sess
      \/ \E s \in Slots, r \in Sessions :
            /\ sess[s] # None /\ r.player = sess[s].player
            /\ sess' = [sess EXCEPT ![s] = r]
  <2>1. CASE DropAnswer \/ LoginFails \/ Shutdown
    <3>1. CASE sess' = sess
      BY <3>1
    <3>2. CASE sess' # sess
      <4>1. m_session # None
        BY <2>1, <3>2 DEF DropAnswer, LoginFails, Expects, Shutdown
      <4>2. m_session \in Slots /\ sess[m_session] \in Sessions
        BY <4>1, Living
      <4>3. \/ sess' = [sess EXCEPT ![m_session] = [sess[m_session] EXCEPT !.loading = FALSE]]
            \/ sess' = [sess EXCEPT ![m_session] =
                            [sess[m_session] EXCEPT !.open = FALSE, !.loading = FALSE]]
            \/ sess' = [sess EXCEPT ![m_session] = [sess[m_session] EXCEPT !.open = FALSE]]
        <5>1. CASE DropAnswer
          BY <5>1, <3>2, <4>1 DEF DropAnswer
        <5>2. CASE LoginFails
          BY <5>2, <4>2 DEF LoginFails, IndInv, TypeOK
        <5>3. CASE Shutdown
          BY <5>3, <4>1 DEF Shutdown
        <5> QED
          BY <2>1, <5>1, <5>2, <5>3
      <4> QED
        BY <4>2, <4>3, Records
    <3> QED
      BY <3>1, <3>2
  <2>2. ASSUME NEW c \in Chars, HandlePlayerLoginOpcode(c) PROVE <1>1!2
    <3>1. m_session \in Slots /\ sess[m_session] \in Sessions
      BY <2>2, Living DEF HandlePlayerLoginOpcode, IndInv, Ownership
    <3>2. sess' = [sess EXCEPT ![m_session] = [sess[m_session] EXCEPT !.loading = TRUE]]
      BY <2>2 DEF HandlePlayerLoginOpcode
    <3> QED
      BY <3>1, <3>2, Records
  <2>3. ASSUME NEW s \in Slots, SocketCloses(s) PROVE <1>1!2
    <3>1. sess[s] \in Sessions
      BY <2>3, Living DEF SocketCloses
    <3>2. sess' = [sess EXCEPT ![s] = [sess[s] EXCEPT !.open = FALSE]]
      BY <2>3 DEF SocketCloses
    <3> QED
      BY <3>1, <3>2, Records
  <2> QED
    BY <2>1, <2>2, <2>3
<1>2. /\ SessType'
      /\ \A t \in Slots : /\ sess'[t] = None <=> sess[t] = None
                          /\ sess[t] # None => sess'[t].player = sess[t].player
  <2>1. CASE sess' = sess
    BY <2>1 DEF SessType, IndInv, TypeOK
  <2>2. CASE <1>1!2
    BY <2>2, KeepsPlayer DEF IndInv
  <2> QED
    BY <1>1, <2>1, <2>2
<1>3. /\ UNCHANGED <<addSessQueue, m_session, m_disconnectedSessions, players>>
      /\ pc' = "update" => pc = "update"
  BY DEF DropAnswer, LoginFails, Shutdown, HandlePlayerLoginOpcode, SocketCloses, world
<1>4. SameOwners
  BY <1>2, <1>3 DEF SameOwners
<1>5. TypeOK'
  <2>1. PendingType' /\ results' \in Seq(Holders) /\ stored' = stored
    <3>1. CASE DropAnswer \/ LoginFails
      <4>1. results # <<>> /\ results' = Tail(results) /\ UNCHANGED <<pending, stored>>
        BY <3>1 DEF DropAnswer, LoginFails, Expects
      <4>2. Tail(results) \in Seq(Holders)
        BY <4>1, HeadTailProperties DEF IndInv, TypeOK
      <4> QED
        BY <4>1, <4>2 DEF PendingType, IndInv, TypeOK
    <3>2. ASSUME NEW c \in Chars, HandlePlayerLoginOpcode(c) PROVE <2>1
      BY <3>2, QueueTypes DEF HandlePlayerLoginOpcode, PendingType, IndInv, TypeOK
    <3>3. CASE Shutdown \/ \E s \in Slots : SocketCloses(s)
      BY <3>3 DEF Shutdown, SocketCloses, database, PendingType, IndInv, TypeOK
    <3> QED
      BY <3>1, <3>2, <3>3
  <2>2. /\ UNCHANGED <<changes, last>> /\ m_stopEvent' = m_stopEvent
        /\ last_tick' \in BOOLEAN
        /\ pc' \in {"add", "update", "disconnected", "maps", "results", "halted"}
    BY DEF DropAnswer, LoginFails, Expects, Shutdown, HandlePlayerLoginOpcode, SocketCloses,
           world, stop, IndInv, TypeOK
  <2> QED
    BY <1>2, <1>3, <2>1, <2>2 DEF SessType, PendingType, IndInv, TypeOK
<1> QED
  BY <1>3, <1>4, <1>5, Frame DEF IndInv, Ownership

-----------------------------------------------------------------------------
(* Steps that move sessions or characters. *)

(* A network thread hands a new session over, without a character.         *)
LEMMA NewSession ==
    ASSUME IndInv, NEW s \in Slots, HandleAuthSession(s)
    PROVE  IndInv'
<1> DEFINE r == [open |-> TRUE, loading |-> FALSE, player |-> None, timer |-> 0]
<1>1. r \in Sessions /\ r.player = None
  BY DEF Sessions
<1>2. /\ sess[s] = None /\ sess' = [sess EXCEPT ![s] = r]
      /\ addSessQueue' = Append(addSessQueue, s)
      /\ UNCHANGED <<m_session, m_disconnectedSessions, players, pc>>
  BY DEF HandleAuthSession, world
<1> HIDE DEF r
<1>3. /\ sess' \in [Slots -> Sessions \cup {None}]
      /\ sess'[s] = r /\ \A t \in Slots : t # s => sess'[t] = sess[t]
  BY <1>1, <1>2 DEF IndInv, TypeOK
<1>4. TypeOK'
  BY <1>2, <1>3 DEF HandleAuthSession, IndInv, TypeOK, world, database, stop
<1>5. addSessQueue \in Seq(Slots)
  BY DEF IndInv, TypeOK
<1>6. /\ Len(addSessQueue') = Len(addSessQueue) + 1 /\ Len(addSessQueue) \in Nat
      /\ \A k \in 1 .. Len(addSessQueue) : addSessQueue'[k] = addSessQueue[k]
      /\ addSessQueue'[Len(addSessQueue) + 1] = s
  BY <1>2, <1>5
<1>7. /\ s # m_session /\ s \notin m_disconnectedSessions
      /\ \A k \in 1 .. Len(addSessQueue) : addSessQueue[k] # s
  BY <1>2, Living DEF IndInv, Ownership
<1>8. Ownership'
  <2>1. /\ m_session' # None => sess'[m_session'] # None
        /\ pc' = "update" => m_session' # None
        /\ \A d \in m_disconnectedSessions' : sess'[d] # None /\ d # m_session'
    BY <1>2, <1>3, <1>7, Living DEF IndInv, Ownership
  <2>2. ASSUME NEW k \in 1 .. Len(addSessQueue')
        PROVE  /\ sess'[addSessQueue'[k]] # None /\ sess'[addSessQueue'[k]].player = None
               /\ addSessQueue'[k] # m_session'
               /\ addSessQueue'[k] \notin m_disconnectedSessions'
    <3>1. CASE k = Len(addSessQueue) + 1
      BY <3>1, <1>1, <1>2, <1>3, <1>6, <1>7
    <3>2. CASE k # Len(addSessQueue) + 1
      <4>1. k \in 1 .. Len(addSessQueue)
        BY <3>2, <1>6
      <4> QED
        BY <4>1, <1>2, <1>3, <1>6, <1>7, Living DEF IndInv, Ownership
    <3> QED
      BY <3>1, <3>2
  <2>3. ASSUME NEW j \in 1 .. Len(addSessQueue'), NEW k \in 1 .. Len(addSessQueue'),
               addSessQueue'[j] = addSessQueue'[k]
        PROVE  j = k
    <3>1. \A i \in 1 .. Len(addSessQueue') :
            i \in 1 .. Len(addSessQueue) \/ i = Len(addSessQueue) + 1
      BY <1>6
    <3> QED
      BY <2>3, <3>1, <1>6, <1>7 DEF IndInv, Ownership
  <2> QED
    BY <2>1, <2>2, <2>3 DEF Ownership
<1>9. PlayerHasItsSession'
  <2>1. \A c \in Chars : players[c] # None => players[c].session # s
    BY <1>2 DEF IndInv, PlayerHasItsSession
  <2>2. \A t \in Slots : sess'[t] # None /\ sess'[t].player # None =>
            t # s /\ sess[t] # None /\ sess[t].player # None
    BY <1>1, <1>3
  <2> QED
    BY <2>1, <2>2, <1>2, <1>3, Living DEF IndInv, PlayerHasItsSession
<1> QED
  BY <1>4, <1>8, <1>9 DEF IndInv

(* Sessions other than these keep their place when these give up their     *)
(* characters.                                                             *)
LEMMA Left ==
    ASSUME IndInv, NEW group \in SUBSET Slots, \A s \in group : sess[s] # None,
           LogoutPlayers(group), SessType',
           \A s \in group : sess'[s] = None \/ sess'[s].player = None,
           \A s \in Slots \ group : /\ sess'[s] = None <=> sess[s] = None
                                    /\ sess[s] # None => sess'[s].player = sess[s].player,
           \A s \in Slots \ group : s = m_session => s = m_session' \/ s \in m_disconnectedSessions',
           \A s \in m_disconnectedSessions \ group : s \in m_disconnectedSessions'
    PROVE  PlayerHasItsSession'
<1>1. ASSUME NEW c \in Chars, players'[c] # None
      PROVE  /\ sess'[players'[c].session] # None
             /\ sess'[players'[c].session].player = c
  <2>1. players'[c] = players[c] /\ players[c] # None /\ players[c].session \notin group
    BY <1>1, Logout
  <2>2. /\ players[c].session \in Slots
        /\ sess[players[c].session] # None /\ sess[players[c].session].player = c
    BY <2>1, Living DEF IndInv, PlayerHasItsSession
  <2> QED
    BY <2>1, <2>2
<1>2. ASSUME NEW s \in Slots, sess'[s] # None, sess'[s].player # None
      PROVE  /\ players'[sess'[s].player] # None
             /\ players'[sess'[s].player].session = s
             /\ s = m_session' \/ s \in m_disconnectedSessions'
  <2>1. s \notin group /\ sess[s] # None /\ sess'[s].player = sess[s].player
    BY <1>2
  <2>2. /\ sess[s].player \in Chars /\ players[sess[s].player] # None
        /\ players[sess[s].player].session = s
        /\ s = m_session \/ s \in m_disconnectedSessions
    BY <1>2, <2>1, Living DEF IndInv, PlayerHasItsSession
  <2>3. players'[sess[s].player] = players[sess[s].player]
    BY <2>1, <2>2, Logout
  <2> QED
    BY <2>1, <2>2, <2>3
<1> QED
  BY <1>1, <1>2 DEF PlayerHasItsSession

(* The client logs its character out and keeps its session.                *)
LEMMA LogoutRequestStep ==
    ASSUME IndInv, LogoutRequest
    PROVE  IndInv'
<1>1. m_session \in Slots /\ sess[m_session] \in Sessions /\ sess[m_session] # None
  BY Living DEF LogoutRequest, IndInv, Ownership
<1> DEFINE r == [sess[m_session] EXCEPT !.player = None]
<1>2. r \in Sessions /\ r.player = None
  BY <1>1, Records
<1>3. sess' = [sess EXCEPT ![m_session] = r]
  BY DEF LogoutRequest
<1> HIDE DEF r
<1>4. /\ SessType' /\ sess'[m_session] = r
      /\ \A t \in Slots : t # m_session => sess'[t] = sess[t]
  BY <1>1, <1>2, <1>3 DEF SessType, IndInv, TypeOK
<1>5. /\ LogoutPlayers({m_session}) /\ pc' = "disconnected"
      /\ UNCHANGED <<addSessQueue, m_session, m_disconnectedSessions, stop>>
  BY DEF LogoutRequest
<1>6. PlayersType' /\ PendingType' /\ last' \in [Chars -> Nat \cup {None}]
  BY <1>1, <1>5, Logout
<1>7. TypeOK'
  BY <1>4, <1>5, <1>6 DEF SessType, PlayersType, PendingType, LogoutPlayers, IndInv, TypeOK, stop
<1>8. Ownership'
  BY <1>1, <1>2, <1>4, <1>5, Living DEF IndInv, Ownership
<1>9. PlayerHasItsSession'
  BY <1>1, <1>2, <1>4, <1>5, Left
<1> QED
  BY <1>7, <1>8, <1>9 DEF IndInv

(* The session of the account is deleted after LogoutPlayer.               *)
LEMMA DeleteSessionStep ==
    ASSUME IndInv, DeleteSession
    PROVE  IndInv'
<1>1. m_session \in Slots /\ sess[m_session] # None
  BY Living DEF DeleteSession, IndInv, Ownership
<1>2. /\ LogoutPlayers({m_session}) /\ pc' = "disconnected"
      /\ sess' = [sess EXCEPT ![m_session] = None] /\ m_session' = None
      /\ UNCHANGED <<addSessQueue, m_disconnectedSessions, stop>>
  BY DEF DeleteSession
<1>3. /\ SessType' /\ sess'[m_session] = None
      /\ \A t \in Slots : t # m_session => sess'[t] = sess[t]
  BY <1>1, <1>2 DEF SessType, IndInv, TypeOK
<1>4. PlayersType' /\ PendingType' /\ last' \in [Chars -> Nat \cup {None}]
  BY <1>1, <1>2, Logout
<1>5. TypeOK'
  BY <1>2, <1>3, <1>4 DEF SessType, PlayersType, PendingType, LogoutPlayers, IndInv, TypeOK, stop
<1>6. Ownership'
  BY <1>1, <1>2, <1>3, Living DEF IndInv, Ownership
<1>7. PlayerHasItsSession'
  BY <1>1, <1>2, <1>3, Left
<1> QED
  BY <1>5, <1>6, <1>7 DEF IndInv

(* Disconnected sessions whose time is over are deleted with their         *)
(* characters.                                                             *)
LEMMA UpdateDisconnectedStep ==
    ASSUME IndInv, UpdateDisconnected
    PROVE  IndInv'
<1>1. PICK over \in SUBSET m_disconnectedSessions :
        /\ LogoutPlayers(over)
        /\ sess' = [s \in Slots |->
                CASE s \in over -> None
                  [] s \in m_disconnectedSessions \ over ->
                        [sess[s] EXCEPT !.timer = Remaining(@)]
                  [] OTHER -> sess[s]]
        /\ m_disconnectedSessions' = m_disconnectedSessions \ over
        /\ pc' \in {"halted", "maps"}
        /\ UNCHANGED <<addSessQueue, m_session, stop>>
  BY DEF UpdateDisconnected, Ended
<1>2. /\ over \in SUBSET Slots /\ \A s \in over : sess[s] # None
      /\ m_disconnectedSessions \subseteq Slots
  BY Living DEF IndInv, Ownership, TypeOK
<1>3. ASSUME NEW s \in Slots
      PROVE  /\ sess'[s] \in Sessions \cup {None}
             /\ s \in over => sess'[s] = None
             /\ s \notin over => /\ sess'[s] = None <=> sess[s] = None
                                 /\ sess[s] # None => sess'[s].player = sess[s].player
  <2>1. CASE s \in over
    BY <2>1, <1>1
  <2>2. CASE s \in m_disconnectedSessions \ over
    <3>1. sess'[s] = [sess[s] EXCEPT !.timer = Remaining(@)]
      BY <2>2, <1>1
    <3>2. sess[s] \in Sessions /\ sess[s] # None
      BY <2>2, Living DEF IndInv, Ownership
    <3>3. Remaining(sess[s].timer) \in 0 .. LogoutTicks
      BY <3>2 DEF Sessions, Remaining
    <3> DEFINE r == [sess[s] EXCEPT !.timer = Remaining(sess[s].timer)]
    <3>4. r \in Sessions /\ r.player = sess[s].player
      BY <3>2, <3>3, Records
    <3>5. sess'[s] = r
      BY <3>1
    <3> HIDE DEF r
    <3> QED
      BY <2>2, <3>2, <3>4, <3>5
  <2>3. CASE s \notin m_disconnectedSessions
    <3>1. sess'[s] = sess[s]
      BY <2>3, <1>1
    <3> QED
      BY <2>3, <3>1, <1>1 DEF IndInv, TypeOK
  <2> QED
    BY <2>1, <2>2, <2>3
<1>4. SessType'
  BY <1>1, <1>3 DEF SessType
<1>5. PlayersType' /\ PendingType' /\ last' \in [Chars -> Nat \cup {None}]
  BY <1>1, <1>2, Logout
<1>6. TypeOK'
  BY <1>1, <1>4, <1>5 DEF SessType, PlayersType, PendingType, LogoutPlayers, IndInv, TypeOK, stop
<1>7. Ownership'
  <2>1. m_session # None => m_session \notin over /\ m_session \in Slots
    BY Living DEF IndInv, Ownership
  <2>2. \A k \in 1 .. Len(addSessQueue) : addSessQueue[k] \notin over /\ addSessQueue[k] \in Slots
    BY Living DEF IndInv, Ownership
  <2>3. \A d \in m_disconnectedSessions \ over : sess'[d] # None /\ d # m_session
    BY <1>2, <1>3 DEF IndInv, Ownership
  <2>4. \A k \in 1 .. Len(addSessQueue) :
            sess'[addSessQueue[k]] # None /\ sess'[addSessQueue[k]].player = None
    BY <1>3, <2>2 DEF IndInv, Ownership
  <2>5. m_session # None => sess'[m_session] # None
    BY <1>3, <2>1 DEF IndInv, Ownership
  <2> QED
    BY <1>1, <2>3, <2>4, <2>5 DEF IndInv, Ownership
<1>8. PlayerHasItsSession'
  BY <1>1, <1>2, <1>3, <1>4, Left
<1> QED
  BY <1>6, <1>7, <1>8 DEF IndInv

(* The session of a lost client moves to m_disconnectedSessions with its   *)
(* character.                                                              *)
LEMMA SetSessionDisconnectedStep ==
    ASSUME IndInv, SetSessionDisconnected
    PROVE  IndInv'
<1>1. m_session \in Slots /\ sess[m_session] \in Sessions /\ sess[m_session] # None
  BY Living DEF SetSessionDisconnected, IndInv, Ownership
<1> DEFINE r == [sess[m_session] EXCEPT !.timer = LogoutTicks]
<1>2. r \in Sessions /\ r.player = sess[m_session].player
  <2>1. LogoutTicks \in 0 .. LogoutTicks
    OBVIOUS
  <2> QED
    BY <1>1, <2>1, Records
<1>3. sess' = [sess EXCEPT ![m_session] = r]
  BY DEF SetSessionDisconnected
<1> HIDE DEF r
<1>4. /\ SessType' /\ sess'[m_session] = r
      /\ \A t \in Slots : t # m_session => sess'[t] = sess[t]
  BY <1>1, <1>2, <1>3 DEF SessType, IndInv, TypeOK
<1>5. /\ m_disconnectedSessions' = m_disconnectedSessions \cup {m_session}
      /\ m_session' = None /\ pc' = "disconnected"
      /\ UNCHANGED <<addSessQueue, stop, world, stored, results>>
  BY DEF SetSessionDisconnected, ForcePlayerLogoutDelay
<1>6. PendingType'
  <2>1. players[sess[m_session].player] # None
    BY <1>1, Living DEF SetSessionDisconnected, Lingers, IndInv, PlayerHasItsSession
  <2> QED
    BY <2>1, SaveTypes DEF SetSessionDisconnected, ForcePlayerLogoutDelay, IndInv
<1>7. TypeOK'
  BY <1>1, <1>4, <1>5, <1>6 DEF SessType, PendingType, IndInv, TypeOK, stop, world
<1>8. Ownership'
  BY <1>1, <1>2, <1>4, <1>5, Living DEF IndInv, Ownership
<1>9. PlayerHasItsSession'
  <2>1. \A t \in Slots : /\ sess'[t] = None <=> sess[t] = None
                         /\ sess[t] # None => sess'[t].player = sess[t].player
    BY <1>1, <1>2, <1>4
  <2>2. players' = players
    BY <1>5 DEF world
  <2> QED
    BY <1>5, <2>1, <2>2, Living DEF IndInv, PlayerHasItsSession
<1> QED
  BY <1>7, <1>8, <1>9 DEF IndInv

(* An answer the session of the account waits for.                         *)
LEMMA AnswerIsTyped ==
    ASSUME IndInv, Expects
    PROVE  /\ Answer \in Holders /\ Answer.char \in Chars /\ Answer.state \in Nat
           /\ Tail(results) \in Seq(Holders)
           /\ m_session \in Slots /\ sess[m_session] \in Sessions /\ sess[m_session] # None
           /\ sess[m_session].player = None
<1>1. results \in Seq(Holders) /\ results # <<>> /\ m_session # None
  BY DEF Expects, IndInv, TypeOK
<1>2. Head(results) \in Holders /\ Tail(results) \in Seq(Holders)
  BY <1>1, HeadTailProperties
<1>3. /\ m_session \in Slots /\ sess[m_session] \in Sessions /\ sess[m_session] # None
      /\ sess[m_session].player = None
  BY <1>1, Living DEF Expects, IndInv, Ownership
<1>4. Head(results).char \in Chars /\ Head(results).state \in Nat
  BY <1>2 DEF Holders
<1> QED
  BY <1>2, <1>3, <1>4 DEF Answer

(* The character changes its session: the old one loses it, the new one    *)
(* has it.                                                                 *)
LEMMA TakeOverStep ==
    ASSUME IndInv, TakeOver
    PROVE  IndInv'
<1> DEFINE c == Answer.char
           old == players[c].session
           r1 == [sess[old] EXCEPT !.player = None]
           r2 == [sess[m_session] EXCEPT !.player = c, !.loading = FALSE]
           p == [players[c] EXCEPT !.session = m_session]
<1>1. /\ c \in Chars /\ Tail(results) \in Seq(Holders)
      /\ m_session \in Slots /\ sess[m_session] \in Sessions /\ sess[m_session] # None
      /\ sess[m_session].player = None
  BY AnswerIsTyped DEF TakeOver
<1>2. /\ players[c] # None /\ players[c] \in Players /\ old \in Slots
      /\ sess[old] \in Sessions /\ sess[old] # None /\ sess[old].player = c
  BY <1>1, Living DEF TakeOver, IndInv, PlayerHasItsSession
<1>3. old # m_session
  BY <1>1, <1>2
<1>4. /\ r1 \in Sessions /\ r1.player = None
      /\ r2 \in Sessions /\ r2.player = c
  <2> HIDE DEF c, old
  <2>1. r1 \in Sessions /\ r1.player = None
    BY <1>2, Records
  <2>2. r2 \in Sessions /\ r2.player = c
    BY <1>1, Records
  <2> QED
    BY <2>1, <2>2
<1>5. p \in Players /\ p.session = m_session
  BY <1>1, <1>2 DEF Players
<1>6. /\ sess' = [sess EXCEPT ![old] = r1, ![m_session] = r2]
      /\ players' = [players EXCEPT ![c] = p]
      /\ results' = Tail(results) /\ pc' = "results"
      /\ UNCHANGED <<addSessQueue, m_session, m_disconnectedSessions, changes,
                     last, stored, pending, stop>>
  <2>1. sess' = [[sess EXCEPT ![old].player = None]
                    EXCEPT ![m_session].player = c, ![m_session].loading = FALSE]
    BY DEF TakeOver, Released
  <2>2. sess \in [Slots -> Sessions \cup {None}]
    BY DEF IndInv, TypeOK
  <2> HIDE DEF c, old
  <2>3. [sess EXCEPT ![old].player = None][m_session] = sess[m_session]
    BY <1>1, <1>2, <1>3, <2>2
  <2>4. sess' = [sess EXCEPT ![old] = r1, ![m_session] = r2]
    BY <1>1, <1>2, <1>3, <2>1, <2>2, <2>3
  <2> QED
    BY <2>4 DEF TakeOver, Expects, c
<1> HIDE DEF r1, r2, p, c, old
<1>7. /\ SessType' /\ sess'[old] = r1 /\ sess'[m_session] = r2
      /\ \A t \in Slots \ {old, m_session} : sess'[t] = sess[t]
  BY <1>1, <1>2, <1>3, <1>4, <1>6 DEF SessType, IndInv, TypeOK
<1>8. /\ PlayersType' /\ players'[c] = p
      /\ \A d \in Chars \ {c} : players'[d] = players[d]
  BY <1>1, <1>2, <1>5, <1>6 DEF PlayersType, IndInv, TypeOK
<1>9. TypeOK'
  BY <1>1, <1>6, <1>7, <1>8 DEF SessType, PlayersType, IndInv, TypeOK, stop
<1>10. \A k \in 1 .. Len(addSessQueue) :
            addSessQueue[k] # old /\ addSessQueue[k] # m_session /\ addSessQueue[k] \in Slots
  BY <1>1, <1>2, Living DEF IndInv, Ownership
<1>11. Ownership'
  <2>1. \A t \in Slots : sess'[t] = None <=> sess[t] = None
    BY <1>1, <1>2, <1>3, <1>4, <1>7
  <2>2. \A k \in 1 .. Len(addSessQueue) : sess'[addSessQueue[k]] = sess[addSessQueue[k]]
    BY <1>7, <1>10
  <2>3. \A d \in m_disconnectedSessions : sess'[d] # None
    BY <2>1, Living DEF IndInv, Ownership
  <2>4. UNCHANGED <<addSessQueue, m_session, m_disconnectedSessions>> /\ pc' # "update"
    BY <1>6
  <2>5. m_session # None => sess'[m_session] # None
    BY <1>1, <2>1
  <2> QED
    BY <2>2, <2>3, <2>4, <2>5 DEF IndInv, Ownership
<1>12. PlayerHasItsSession'
  <2>1. ASSUME NEW d \in Chars, players'[d] # None
        PROVE  /\ sess'[players'[d].session] # None
               /\ sess'[players'[d].session].player = d
    <3>1. CASE d = c
      BY <3>1, <1>1, <1>4, <1>5, <1>7, <1>8
    <3>2. CASE d # c
      <4>1. /\ players'[d] = players[d] /\ players[d].session \in Slots
            /\ sess[players[d].session] # None /\ sess[players[d].session].player = d
        BY <2>1, <3>2, <1>8, Living DEF IndInv, PlayerHasItsSession
      <4> QED
        BY <4>1, <3>2, <1>1, <1>2, <1>7
    <3> QED
      BY <3>1, <3>2
  <2>2. ASSUME NEW s \in Slots, sess'[s] # None, sess'[s].player # None
        PROVE  /\ players'[sess'[s].player] # None
               /\ players'[sess'[s].player].session = s
               /\ s = m_session' \/ s \in m_disconnectedSessions'
    <3>1. CASE s = m_session
      BY <3>1, <1>4, <1>5, <1>6, <1>7, <1>8
    <3>2. CASE s # m_session
      <4>1. s # old /\ sess'[s] = sess[s]
        BY <2>2, <3>2, <1>4, <1>7
      <4>2. /\ sess[s].player \in Chars /\ players[sess[s].player] # None
            /\ players[sess[s].player].session = s
            /\ s = m_session \/ s \in m_disconnectedSessions
        BY <2>2, <4>1, Living DEF IndInv, PlayerHasItsSession
      <4>3. sess[s].player # c
        BY <4>1, <4>2 DEF old
      <4> QED
        BY <4>1, <4>2, <4>3, <1>6, <1>8
    <3> QED
      BY <3>1, <3>2
  <2> QED
    BY <2>1, <2>2 DEF PlayerHasItsSession
<1> QED
  BY <1>9, <1>11, <1>12 DEF IndInv

(* A character enters the world for the session of the account.            *)
LEMMA LoadStep ==
    ASSUME IndInv, LoadFromDB
    PROVE  IndInv'
<1> DEFINE c == Answer.char
           r == [sess[m_session] EXCEPT !.player = c, !.loading = FALSE]
           p == [session |-> m_session, inWorld |-> TRUE,
                 m_DbSaveDisabled |-> FALSE, state |-> Answer.state]
<1>1. /\ c \in Chars /\ Answer.state \in Nat /\ Tail(results) \in Seq(Holders)
      /\ m_session \in Slots /\ sess[m_session] \in Sessions /\ sess[m_session] # None
      /\ sess[m_session].player = None
  BY AnswerIsTyped DEF LoadFromDB
<1>2. players[c] = None
  BY DEF LoadFromDB
<1>3. r \in Sessions /\ r.player = c
  BY <1>1, Records
<1>4. p \in Players /\ p.session = m_session
  BY <1>1 DEF Players
<1>5. /\ sess' = [sess EXCEPT ![m_session] = r]
      /\ players' = [players EXCEPT ![c] = p]
      /\ last' = [last EXCEPT ![c] = Answer.state]
      /\ results' = Tail(results) /\ pc' = "results"
      /\ UNCHANGED <<addSessQueue, m_session, m_disconnectedSessions, changes,
                     stored, pending, stop>>
  BY <1>1 DEF LoadFromDB, Expects, IndInv, TypeOK
<1> HIDE DEF r, p, c
<1>6. /\ SessType' /\ sess'[m_session] = r
      /\ \A t \in Slots : t # m_session => sess'[t] = sess[t]
  BY <1>1, <1>3, <1>5 DEF SessType, IndInv, TypeOK
<1>7. /\ PlayersType' /\ players'[c] = p
      /\ \A d \in Chars \ {c} : players'[d] = players[d]
  BY <1>1, <1>4, <1>5 DEF PlayersType, IndInv, TypeOK
<1>8. TypeOK'
  BY <1>1, <1>5, <1>6, <1>7 DEF SessType, PlayersType, IndInv, TypeOK, stop
<1>9. Ownership'
  BY <1>1, <1>3, <1>5, <1>6, Living DEF IndInv, Ownership
<1>10. PlayerHasItsSession'
  <2>1. ASSUME NEW d \in Chars, players'[d] # None
        PROVE  /\ sess'[players'[d].session] # None
               /\ sess'[players'[d].session].player = d
    <3>1. CASE d = c
      BY <3>1, <1>1, <1>3, <1>4, <1>6, <1>7
    <3>2. CASE d # c
      <4>1. /\ players'[d] = players[d] /\ players[d].session \in Slots
            /\ sess[players[d].session] # None /\ sess[players[d].session].player = d
        BY <2>1, <3>2, <1>7, Living DEF IndInv, PlayerHasItsSession
      <4> QED
        BY <4>1, <1>1, <1>6
    <3> QED
      BY <3>1, <3>2
  <2>2. ASSUME NEW s \in Slots, sess'[s] # None, sess'[s].player # None
        PROVE  /\ players'[sess'[s].player] # None
               /\ players'[sess'[s].player].session = s
               /\ s = m_session' \/ s \in m_disconnectedSessions'
    <3>1. CASE s = m_session
      BY <3>1, <1>3, <1>4, <1>5, <1>6, <1>7
    <3>2. CASE s # m_session
      <4>1. sess'[s] = sess[s]
        BY <3>2, <1>6
      <4>2. /\ sess[s].player \in Chars /\ players[sess[s].player] # None
            /\ players[sess[s].player].session = s
            /\ s = m_session \/ s \in m_disconnectedSessions
        BY <2>2, <4>1, Living DEF IndInv, PlayerHasItsSession
      <4> QED
        BY <4>1, <4>2, <1>2, <1>5, <1>7
    <3> QED
      BY <3>1, <3>2
  <2> QED
    BY <2>1, <2>2 DEF PlayerHasItsSession
<1> QED
  BY <1>8, <1>9, <1>10 DEF IndInv

(* A character changes its race and its client is closed.                  *)
LEMMA ChangeRaceStep ==
    ASSUME IndInv, NEW c \in Chars, ChangeRace(c)
    PROVE  IndInv'
<1> DEFINE t == players[c].session
           r == [sess[t] EXCEPT !.open = FALSE]
           p == [players[c] EXCEPT !.state = changes + 1, !.m_DbSaveDisabled = TRUE]
           o == [op |-> "save", state |-> changes + 1]
<1>1. /\ players[c] # None /\ players[c] \in Players /\ t \in Slots
      /\ sess[t] \in Sessions /\ sess[t] # None
  BY Living DEF ChangeRace, IndInv, PlayerHasItsSession
<1>2. /\ changes + 1 \in 0 .. MaxChanges /\ changes + 1 \in Nat /\ changes' = changes + 1
      /\ last' \in [Chars -> Nat \cup {None}]
  BY DEF ChangeRace, IndInv, TypeOK
<1>3. p \in Players /\ p.session = t
  BY <1>1, <1>2 DEF Players
<1>4. /\ sess' = [sess EXCEPT ![t] = r]
      /\ players' = [players EXCEPT ![c] = p]
      /\ pending' = [pending EXCEPT ![c] = Append(pending[c], o)]
      /\ UNCHANGED <<addSessQueue, m_session, m_disconnectedSessions, stored, results, stop>>
      /\ pc' = "maps" /\ pc = "maps"
  BY <1>1 DEF ChangeRace, IndInv, TypeOK
<1>5. r \in Sessions /\ r.player = sess[t].player
  BY <1>1, Records
<1>6. PendingType'
  <2>1. o \in Saves \cup Loads
    BY <1>2 DEF Saves
  <2> HIDE DEF o
  <2>2. Append(pending[c], o) \in Seq(Saves \cup Loads)
    BY <2>1 DEF IndInv, TypeOK
  <2> QED
    BY <1>4, <2>2 DEF PendingType, IndInv, TypeOK
<1> HIDE DEF r, p, o, t
<1>7. /\ SessType'
      /\ \A u \in Slots : /\ sess'[u] = None <=> sess[u] = None
                          /\ sess[u] # None => sess'[u].player = sess[u].player
  BY <1>1, <1>4, <1>5, KeepsPlayer DEF IndInv
<1>8. PlayersType'
  BY <1>3, <1>4 DEF PlayersType, IndInv, TypeOK
<1>9. \A d \in Chars : /\ players'[d] = None <=> players[d] = None
                       /\ players[d] # None => players'[d].session = players[d].session
  BY <1>1, <1>3, <1>4 DEF IndInv, TypeOK, t
<1>10. SameOwners
  BY <1>4, <1>7, <1>9 DEF SameOwners
<1>11. TypeOK'
  BY <1>2, <1>4, <1>6, <1>7, <1>8
     DEF SessType, PlayersType, PendingType, IndInv, TypeOK, stop
<1> QED
  BY <1>4, <1>10, <1>11, Frame DEF IndInv

(* A failed race change takes the character out of the world and from its  *)
(* session.                                                                *)
LEMMA ChangeRaceFailsStep ==
    ASSUME IndInv, NEW c \in Chars, ChangeRaceFails(c)
    PROVE  IndInv'
<1> DEFINE t == players[c].session
           r == [sess[t] EXCEPT !.player = None]
<1>1. /\ players[c] # None /\ players[c] \in Players /\ t \in Slots
      /\ sess[t] \in Sessions /\ sess[t] # None /\ sess[t].player = c
  BY Living DEF ChangeRaceFails, IndInv, PlayerHasItsSession
<1>2. r \in Sessions /\ r.player = None
  BY <1>1, Records
<1>3. /\ sess' = [sess EXCEPT ![t] = r]
      /\ players' = [players EXCEPT ![c] = None]
      /\ last' = [last EXCEPT ![c] = None]
      /\ UNCHANGED <<addSessQueue, m_session, m_disconnectedSessions, changes,
                     database, stop, pc>>
      /\ pc = "maps"
  BY DEF ChangeRaceFails
<1> HIDE DEF r, t
<1>4. /\ SessType' /\ sess'[t] = r
      /\ \A u \in Slots : u # t => sess'[u] = sess[u]
  BY <1>1, <1>2, <1>3 DEF SessType, IndInv, TypeOK
<1>5. /\ PlayersType' /\ players'[c] = None
      /\ \A d \in Chars : d # c => players'[d] = players[d]
  BY <1>3 DEF PlayersType, IndInv, TypeOK
<1>6. last' \in [Chars -> Nat \cup {None}]
  BY <1>3 DEF IndInv, TypeOK
<1>7. TypeOK'
  BY <1>3, <1>4, <1>5, <1>6 DEF SessType, PlayersType, IndInv, TypeOK, database, stop
<1>8. Ownership'
  <2>1. \A u \in Slots : sess'[u] = None <=> sess[u] = None
    BY <1>1, <1>2, <1>4
  <2>2. \A k \in 1 .. Len(addSessQueue) :
            /\ addSessQueue[k] \in Slots
            /\ sess'[addSessQueue[k]] # None /\ sess'[addSessQueue[k]].player = None
    BY <1>2, <1>4, Living DEF IndInv, Ownership
  <2>3. \A d \in m_disconnectedSessions : sess'[d] # None /\ d # m_session
    BY <2>1, Living DEF IndInv, Ownership
  <2>4. m_session # None => sess'[m_session] # None
    BY <2>1, Living DEF IndInv, Ownership
  <2> QED
    BY <1>3, <2>2, <2>3, <2>4 DEF IndInv, Ownership
<1>9. PlayerHasItsSession'
  <2>1. ASSUME NEW d \in Chars, players'[d] # None
        PROVE  /\ sess'[players'[d].session] # None
               /\ sess'[players'[d].session].player = d
    <3>1. /\ d # c /\ players'[d] = players[d] /\ players[d].session \in Slots
          /\ sess[players[d].session] # None /\ sess[players[d].session].player = d
      BY <2>1, <1>5, Living DEF IndInv, PlayerHasItsSession
    <3> QED
      BY <3>1, <1>1, <1>4
  <2>2. ASSUME NEW u \in Slots, sess'[u] # None, sess'[u].player # None
        PROVE  /\ players'[sess'[u].player] # None
               /\ players'[sess'[u].player].session = u
               /\ u = m_session' \/ u \in m_disconnectedSessions'
    <3>1. u # t /\ sess'[u] = sess[u]
      BY <2>2, <1>2, <1>4
    <3>2. /\ sess[u].player \in Chars /\ players[sess[u].player] # None
          /\ players[sess[u].player].session = u
          /\ u = m_session \/ u \in m_disconnectedSessions
      BY <2>2, <3>1, Living DEF IndInv, PlayerHasItsSession
    <3>3. sess[u].player # c
      BY <3>1, <3>2 DEF t
    <3> QED
      BY <3>1, <3>2, <3>3, <1>3, <1>5
  <2> QED
    BY <2>1, <2>2 DEF PlayerHasItsSession
<1> QED
  BY <1>7, <1>8, <1>9 DEF IndInv

(* AddSession_ in its four cases.                                          *)
LEMMA AddSessionStep ==
    ASSUME IndInv, AddSession
    PROVE  IndInv'
<1> DEFINE s == Head(addSessQueue)
           old == m_session
<1>1. /\ addSessQueue \in Seq(Slots) /\ addSessQueue # <<>>
      /\ addSessQueue' = Tail(addSessQueue)
      /\ UNCHANGED <<pc, stop>> /\ pc = "add"
  BY DEF AddSession, IndInv, TypeOK
<1>2. /\ addSessQueue' \in Seq(Slots) /\ s = addSessQueue[1] /\ 1 \in 1 .. Len(addSessQueue)
      /\ Len(addSessQueue') = Len(addSessQueue) - 1
      /\ \A k \in 1 .. Len(addSessQueue') : /\ k + 1 \in 1 .. Len(addSessQueue)
                                            /\ addSessQueue'[k] = addSessQueue[k + 1]
  BY <1>1
<1>3. /\ s \in Slots /\ sess[s] \in Sessions /\ sess[s] # None /\ sess[s].player = None
      /\ s # m_session /\ s \notin m_disconnectedSessions
      /\ \A k \in 1 .. Len(addSessQueue') :
            /\ addSessQueue'[k] # s /\ addSessQueue'[k] \in Slots
            /\ sess[addSessQueue'[k]] # None /\ sess[addSessQueue'[k]].player = None
            /\ addSessQueue'[k] # m_session /\ addSessQueue'[k] \notin m_disconnectedSessions
      /\ \A j, k \in 1 .. Len(addSessQueue') :
            addSessQueue'[j] = addSessQueue'[k] => j = k
  <2>1. /\ s \in Slots /\ sess[s] \in Sessions /\ sess[s] # None /\ sess[s].player = None
        /\ s # m_session /\ s \notin m_disconnectedSessions
    BY <1>2, Living DEF IndInv, Ownership
  <2>2. ASSUME NEW k \in 1 .. Len(addSessQueue')
        PROVE  /\ addSessQueue'[k] # s /\ addSessQueue'[k] \in Slots
               /\ sess[addSessQueue'[k]] # None /\ sess[addSessQueue'[k]].player = None
               /\ addSessQueue'[k] # m_session
               /\ addSessQueue'[k] \notin m_disconnectedSessions
    <3>1. k + 1 \in 1 .. Len(addSessQueue) /\ k + 1 # 1
      BY <1>2
    <3> QED
      BY <1>2, <3>1, Living DEF IndInv, Ownership
  <2>3. ASSUME NEW j \in 1 .. Len(addSessQueue'), NEW k \in 1 .. Len(addSessQueue'),
               addSessQueue'[j] = addSessQueue'[k]
        PROVE  j = k
    <3>1. /\ j + 1 \in 1 .. Len(addSessQueue) /\ k + 1 \in 1 .. Len(addSessQueue)
          /\ addSessQueue[j + 1] = addSessQueue[k + 1]
      BY <2>3, <1>2
    <3>2. j + 1 = k + 1
      BY <3>1 DEF IndInv, Ownership
    <3> QED
      BY <3>2
  <2> QED
    BY <2>1, <2>2, <2>3
<1>4. m_session # None => old \in Slots /\ sess[old] \in Sessions /\ sess[old] # None
  BY Living DEF IndInv, Ownership
<1> HIDE DEF s
<1>5. CASE /\ old # None /\ sess[old].loading
           /\ sess' = [sess EXCEPT ![s] = None]
           /\ UNCHANGED <<m_session, m_disconnectedSessions, world, database>>
  <2>1. /\ SessType' /\ sess'[s] = None /\ \A t \in Slots : t # s => sess'[t] = sess[t]
    BY <1>3, <1>5 DEF SessType, IndInv, TypeOK
  <2>2. TypeOK'
    BY <1>1, <1>2, <1>5, <2>1 DEF SessType, IndInv, TypeOK, world, database, stop
  <2>3. Ownership'
    BY <1>1, <1>3, <1>4, <1>5, <2>1, Living DEF IndInv, Ownership
  <2>4. PlayerHasItsSession'
    <3>1. /\ players' = players /\ \A c \in Chars : players[c] # None => players[c].session # s
          /\ UNCHANGED <<m_session, m_disconnectedSessions>>
      BY <1>3, <1>5 DEF IndInv, PlayerHasItsSession, world
    <3> QED
      BY <2>1, <3>1, Living DEF IndInv, PlayerHasItsSession
  <2> QED
    BY <2>2, <2>3, <2>4 DEF IndInv
<1>6. CASE /\ old # None /\ Lingers(old)
           /\ ForcePlayerLogoutDelay(old)
           /\ sess' = [sess EXCEPT ![old].open = FALSE, ![old].timer = LogoutTicks]
           /\ m_session' = s
  <2> DEFINE r == [sess[old] EXCEPT !.open = FALSE, !.timer = LogoutTicks]
             c == sess[old].player
  <2>1. r \in Sessions /\ r.player = sess[old].player
    <3>1. LogoutTicks \in 0 .. LogoutTicks
      OBVIOUS
    <3> QED
      BY <1>4, <1>6, <3>1, Records
  <2>2. sess' = [sess EXCEPT ![old] = r]
    BY <1>4, <1>6 DEF IndInv, TypeOK
  <2>3. c \in Chars /\ players[c] # None
    BY <1>4, <1>6, Living DEF Lingers, IndInv, PlayerHasItsSession
  <2>4. SaveToDB({c})
    BY <1>6 DEF ForcePlayerLogoutDelay
  <2>6. /\ m_disconnectedSessions' = m_disconnectedSessions \cup {old} /\ m_session' = s
        /\ UNCHANGED <<world, stored, results>>
    BY <1>6 DEF ForcePlayerLogoutDelay
  <2> HIDE DEF r, c
  <2>7. PendingType'
    BY <2>3, <2>4, SaveTypes DEF IndInv
  <2>8. /\ SessType' /\ sess'[old] = r /\ \A t \in Slots : t # old => sess'[t] = sess[t]
    BY <1>4, <1>6, <2>1, <2>2, ZenonT(40) DEF SessType, IndInv, TypeOK
  <2>9. TypeOK'
    <3>1. m_session' \in Slots /\ m_disconnectedSessions' \subseteq Slots
      BY <1>3, <1>4, <1>6, <2>6 DEF IndInv, TypeOK
    <3> QED
      BY <1>1, <1>2, <2>6, <2>7, <2>8, <3>1
         DEF SessType, PendingType, IndInv, TypeOK, world, stop
  <2>10. Ownership'
    <3>1. \A k \in 1 .. Len(addSessQueue') : sess'[addSessQueue'[k]] = sess[addSessQueue'[k]]
      BY <1>3, <2>8
    <3>2. sess'[s] # None /\ pc' # "update"
      BY <1>1, <1>3, <2>8
    <3>3. \A d \in m_disconnectedSessions' : sess'[d] # None /\ d # s
      BY <1>3, <1>4, <1>6, <2>1, <2>6, <2>8, Living, ZenonT(40) DEF IndInv, Ownership
    <3>4. \A k \in 1 .. Len(addSessQueue') : addSessQueue'[k] \notin m_disconnectedSessions'
      BY <1>3, <2>6
    <3> QED
      BY <1>3, <2>6, <3>1, <3>2, <3>3, <3>4 DEF Ownership
  <2>11. PlayerHasItsSession'
    <3>1. \A t \in Slots : /\ sess'[t] = None <=> sess[t] = None
                           /\ sess[t] # None => sess'[t].player = sess[t].player
      BY <1>4, <1>6, <2>1, <2>8
    <3>2. players' = players
      BY <2>6 DEF world
    <3> QED
      BY <2>6, <3>1, <3>2, Living DEF IndInv, PlayerHasItsSession
  <2> QED
    BY <2>9, <2>10, <2>11 DEF IndInv
<1>7. CASE /\ old # None
           /\ LogoutPlayers({old})
           /\ sess' = [sess EXCEPT ![old] = None]
           /\ m_session' = s
           /\ UNCHANGED m_disconnectedSessions
  <2>1. /\ SessType' /\ sess'[old] = None /\ \A t \in Slots : t # old => sess'[t] = sess[t]
    BY <1>4, <1>7 DEF SessType, IndInv, TypeOK
  <2>2. PlayersType' /\ PendingType' /\ last' \in [Chars -> Nat \cup {None}]
    BY <1>4, <1>7, Logout
  <2>3. TypeOK'
    BY <1>1, <1>2, <1>3, <1>7, <2>1, <2>2
       DEF SessType, PlayersType, PendingType, LogoutPlayers, IndInv, TypeOK, stop
  <2>4. Ownership'
    BY <1>1, <1>3, <1>4, <1>7, <2>1, Living DEF IndInv, Ownership
  <2>5. PlayerHasItsSession'
    BY <1>4, <1>7, <2>1, Left
  <2> QED
    BY <2>3, <2>4, <2>5 DEF IndInv
<1>8. CASE /\ old = None
           /\ m_session' = s
           /\ UNCHANGED <<sess, m_disconnectedSessions, world, database>>
  <2>1. TypeOK'
    BY <1>1, <1>2, <1>3, <1>8 DEF IndInv, TypeOK, world, database, stop
  <2>2. Ownership'
    BY <1>1, <1>3, <1>8 DEF IndInv, Ownership
  <2>3. PlayerHasItsSession'
    <3>1. players' = players /\ sess' = sess /\ m_disconnectedSessions' = m_disconnectedSessions
      BY <1>8 DEF world
    <3> QED
      BY <1>8, <3>1 DEF IndInv, PlayerHasItsSession
  <2> QED
    BY <2>1, <2>2, <2>3 DEF IndInv
<1> QED
  BY <1>5, <1>6, <1>7, <1>8 DEF AddSession, s

-----------------------------------------------------------------------------
(* Every step keeps IndInv.                                                *)
LEMMA Inductive == IndInv /\ [Next]_vars => IndInv'
<1> SUFFICES ASSUME IndInv, [Next]_vars PROVE IndInv'
  OBVIOUS
<1>1. CASE \/ AddedAll \/ UpdateNothing \/ MapsDone \/ EndTick \/ StopNow
           \/ Halted \/ UNCHANGED vars \/ \E c \in Chars : SaveTimer(c) \/ DelayThread(c)
  BY <1>1, QuietSteps
<1>2. CASE \E c \in Chars : Play(c) \/ TeleportFar(c)
  BY <1>2, MapSteps
<1>3. CASE \/ DropAnswer \/ LoginFails \/ Shutdown
           \/ \E c \in Chars : HandlePlayerLoginOpcode(c)
           \/ \E s \in Slots : SocketCloses(s)
  BY <1>3, SessionSteps
<1>4. CASE \E s \in Slots : HandleAuthSession(s)
  BY <1>4, NewSession
<1>5. CASE AddSession
  BY <1>5, AddSessionStep
<1>6. CASE LogoutRequest
  BY <1>6, LogoutRequestStep
<1>7. CASE DeleteSession
  BY <1>7, DeleteSessionStep
<1>8. CASE SetSessionDisconnected
  BY <1>8, SetSessionDisconnectedStep
<1>9. CASE UpdateDisconnected
  BY <1>9, UpdateDisconnectedStep
<1>10. CASE TakeOver
  BY <1>10, TakeOverStep
<1>11. CASE LoadFromDB
  BY <1>11, LoadStep
<1>12. CASE \E c \in Chars : ChangeRace(c)
  BY <1>12, ChangeRaceStep
<1>13. CASE \E c \in Chars : ChangeRaceFails(c)
  BY <1>13, ChangeRaceFailsStep
<1> QED
  BY <1>1, <1>2, <1>3, <1>4, <1>5, <1>6, <1>7, <1>8, <1>9, <1>10, <1>11, <1>12, <1>13
     DEF Next, UpdateSession, HandlePlayerLogin, Maps, Network

(* There are no sessions and no characters at the start.                   *)
LEMMA Initially == Init => IndInv
<1> SUFFICES ASSUME Init PROVE IndInv
  OBVIOUS
<1>1. TypeOK
  <2>1. 0 \in 0 .. MaxChanges
    OBVIOUS
  <2>2. addSessQueue \in Seq(Slots) /\ results \in Seq(Holders)
    BY DEF Init
  <2>3. pending \in [Chars -> Seq(Saves \cup Loads)]
    BY DEF Init
  <2>4. /\ sess \in [Slots -> Sessions \cup {None}] /\ players \in [Chars -> Players \cup {None}]
        /\ last \in [Chars -> Nat \cup {None}] /\ stored \in [Chars -> Nat]
    BY DEF Init
  <2>5. m_stopEvent \in BOOLEAN /\ last_tick \in BOOLEAN
    BY DEF Init
  <2> QED
    BY <2>1, <2>2, <2>3, <2>4, <2>5 DEF Init, TypeOK
<1>2. Ownership
  BY DEF Init, Ownership
<1>3. PlayerHasItsSession
  BY DEF Init, PlayerHasItsSession
<1> QED
  BY <1>1, <1>2, <1>3 DEF IndInv

(* IndInv holds in every state of every behaviour.                         *)
LEMMA Always == Spec => []IndInv
  BY Initially, Inductive, PTL DEF Spec

(* The type invariant, for any number of sessions and characters.          *)
THEOREM PlayerTypes == Spec => []TypeOK
<1>1. IndInv => TypeOK
  BY DEF IndInv
<1> QED
  BY <1>1, Always, PTL

(* Character and session point to each other, and the session is one that  *)
(* World::UpdateSessions still updates: LogoutPlayer, the takeover in      *)
(* HandlePlayerLogin and the deletions of World never leave a pointer to   *)
(* what is gone.                                                           *)
THEOREM PlayersAreOwned == Spec => []PlayerHasItsSession
<1>1. IndInv => PlayerHasItsSession
  BY DEF IndInv
<1> QED
  BY <1>1, Always, PTL

-----------------------------------------------------------------------------
(* What is saved and what a login finds. *)

Ops == Saves \cup Loads

(* The state x is what the database holds once the operations q are        *)
(* executed on a stored state v.                                           *)
LatestIn(v, q, x) ==
    \/ v = x /\ \A j \in 1 .. Len(q) : q[j].op # "save"
    \/ \E k \in 1 .. Len(q) :
         /\ q[k] = [op |-> "save", state |-> x]
         /\ \A j \in 1 .. Len(q) : k < j => q[j].op # "save"

(* LatestIn is LatestSaved with the database and the queue as arguments.   *)
LEMMA LatestIsSaved ==
    ASSUME TypeOK, NEW c \in Chars, NEW x
    PROVE  LatestSaved(c, x) <=> LatestIn(stored[c], pending[c], x)
<1>1. Len(pending[c]) \in Nat
  BY DEF TypeOK
<1>2. (0 + 1) .. Len(pending[c]) = 1 .. Len(pending[c])
  OBVIOUS
<1>3. \A k \in 1 .. Len(pending[c]) :
        "save" \notin {pending[c][j].op : j \in k + 1 .. Len(pending[c])}
        <=> \A j \in 1 .. Len(pending[c]) : k < j => pending[c][j].op # "save"
  BY <1>1
<1>4. "save" \notin {pending[c][j].op : j \in 0 + 1 .. Len(pending[c])}
      <=> \A j \in 1 .. Len(pending[c]) : pending[c][j].op # "save"
  BY <1>1, <1>2
<1> QED
  BY <1>3, <1>4 DEF LatestSaved, LatestIn

(* A save at the end of the queue is the latest.                           *)
LEMMA SaveIsLatest ==
    ASSUME NEW q \in Seq(Ops), NEW v, NEW x \in Nat
    PROVE  LatestIn(v, Append(q, [op |-> "save", state |-> x]), x)
<1> DEFINE o == [op |-> "save", state |-> x]
<1>1. o \in Ops
  BY DEF Ops, Saves
<1> HIDE DEF o
<1>2. Len(Append(q, o)) = Len(q) + 1 /\ Append(q, o)[Len(q) + 1] = o /\ Len(q) \in Nat
  BY <1>1
<1> QED
  BY <1>2 DEF LatestIn, o

(* A login behind it does not change what is saved last.                   *)
LEMMA LoadKeepsLatest ==
    ASSUME NEW q \in Seq(Ops), NEW v, NEW x, NEW o \in Loads, LatestIn(v, q, x)
    PROVE  LatestIn(v, Append(q, o), x)
<1>1. o \in Ops /\ o.op = "load"
  BY DEF Ops, Loads
<1>2. /\ Len(Append(q, o)) = Len(q) + 1 /\ Append(q, o)[Len(q) + 1] = o /\ Len(q) \in Nat
      /\ \A j \in 1 .. Len(q) : Append(q, o)[j] = q[j]
  BY <1>1
<1>3. \A j \in 1 .. Len(Append(q, o)) : j \in 1 .. Len(q) \/ Append(q, o)[j].op = "load"
  BY <1>1, <1>2
<1>4. \A j \in 1 .. Len(q) : j \in 1 .. Len(Append(q, o))
  BY <1>2
<1> QED
  BY <1>2, <1>3, <1>4 DEF LatestIn

(* Neither does the execution of the first operation.                      *)
LEMMA ExecutionKeepsLatest ==
    ASSUME NEW q \in Seq(Ops), q # <<>>, NEW v, NEW w, NEW x, LatestIn(v, q, x),
           w = IF Head(q).op = "save" THEN Head(q).state ELSE v
    PROVE  LatestIn(w, Tail(q), x)
<1>1. /\ Len(q) \in Nat \ {0} /\ Len(Tail(q)) = Len(q) - 1 /\ Head(q) = q[1]
      /\ \A j \in 1 .. Len(Tail(q)) : j + 1 \in 1 .. Len(q) /\ Tail(q)[j] = q[j + 1]
      /\ \A j \in 1 .. Len(q) : j # 1 => j - 1 \in 1 .. Len(Tail(q)) /\ Tail(q)[j - 1] = q[j]
      /\ 1 \in 1 .. Len(q)
  OBVIOUS
<1>2. CASE v = x /\ \A j \in 1 .. Len(q) : q[j].op # "save"
  BY <1>1, <1>2 DEF LatestIn
<1>3. ASSUME NEW k \in 1 .. Len(q), q[k] = [op |-> "save", state |-> x],
             \A j \in 1 .. Len(q) : k < j => q[j].op # "save"
      PROVE  LatestIn(w, Tail(q), x)
  <2>1. CASE k = 1
    <3>1. w = x
      BY <1>1, <1>3, <2>1
    <3>2. \A j \in 1 .. Len(Tail(q)) : Tail(q)[j].op # "save"
      BY <1>1, <1>3, <2>1
    <3> QED
      BY <3>1, <3>2 DEF LatestIn
  <2>2. CASE k # 1
    <3>1. k - 1 \in 1 .. Len(Tail(q)) /\ Tail(q)[k - 1] = [op |-> "save", state |-> x]
      BY <1>1, <1>3, <2>2
    <3>2. \A j \in 1 .. Len(Tail(q)) : k - 1 < j => Tail(q)[j].op # "save"
      BY <1>1, <1>3, <2>2
    <3> QED
      BY <3>1, <3>2 DEF LatestIn
  <2> QED
    BY <2>1, <2>2
<1> QED
  BY <1>2, <1>3 DEF LatestIn

(* Characters in the world are as their history says; those that are not,  *)
(* or are saved no more, are saved so, but for those whose last state was  *)
(* refused.                                                                *)
SavedInv ==
    \A c \in Chars :
        /\ players[c] # None /\ ~players[c].m_DbSaveDisabled => players[c].state = last[c]
        /\ (players[c] = None \/ players[c].m_DbSaveDisabled) /\ last[c] # None =>
                LatestIn(stored[c], pending[c], last[c])

(* A login that is alone, while it is queued: the character is still away, *)
(* only saves are before it and none behind it, and no other answer for    *)
(* the character is on its way.                                            *)
FreshLoads ==
    \A c \in Chars : \A k \in 1 .. Len(pending[c]) :
        pending[c][k].op = "load" /\ pending[c][k].alone =>
            /\ players[c] = None
            /\ \A j \in 1 .. Len(pending[c]) : /\ j < k => pending[c][j].op = "save"
                                               /\ k < j => pending[c][j].op # "save"
            /\ \A i \in 1 .. Len(results) : results[i].char # c

(* And when its answer is on the way: it is the first one for the          *)
(* character, and has found its last state.                                *)
FreshAnswers ==
    \A i \in 1 .. Len(results) : results[i].alone =>
        /\ players[results[i].char] = None
        /\ last[results[i].char] # None => results[i].state = last[results[i].char]
        /\ \A j \in 1 .. Len(results) : j < i => results[j].char # results[i].char

DataInv == SavedInv /\ FreshLoads /\ FreshAnswers

(* A character leaves the world. *)
Leaves(c) == players[c] # None /\ players'[c] = None

(* A character stays in the world or stays away, as it was. *)
Stays(c) ==
    /\ players'[c] = None <=> players[c] = None
    /\ players'[c] # None =>
         /\ players'[c].state = players[c].state
         /\ players'[c].m_DbSaveDisabled <=> players[c].m_DbSaveDisabled

(* The kinds of steps there are.  Saves are queued for the characters of   *)
(* G.  Those who leave the world are saved, are saved no more, or have     *)
(* their last state refused.                                               *)
SaveStep(G) ==
    /\ \A c \in Chars :
        /\ pending'[c] = IF c \in G
                         THEN Append(pending[c], [op |-> "save", state |-> players[c].state])
                         ELSE pending[c]
        /\ c \in G => players[c] # None /\ ~players[c].m_DbSaveDisabled
        /\ Leaves(c) \/ Stays(c)
        /\ \/ /\ last'[c] = last[c]
              /\ Leaves(c) => c \in G \/ players[c].m_DbSaveDisabled
           \/ last'[c] = None /\ Leaves(c)
    /\ UNCHANGED <<stored, results>>

(* An answer is taken and no character enters the world. *)
AnswerStep ==
    /\ results # <<>> /\ results' = Tail(results)
    /\ \A c \in Chars : Stays(c)
    /\ UNCHANGED <<last, stored, pending>>

(* Queueing saves keeps DataInv: the latest save is the last state.        *)
LEMMA SaveStepKeeps ==
    ASSUME IndInv, DataInv, NEW G, SaveStep(G)
    PROVE  DataInv'
<1>1. \A c \in Chars : pending[c] \in Seq(Ops) /\ Len(pending[c]) \in Nat
  BY DEF IndInv, TypeOK, Ops
<1>2. ASSUME NEW c \in Chars, c \in G
      PROVE  /\ players[c].state \in Nat /\ [op |-> "save", state |-> players[c].state] \in Ops
             /\ players[c].state = last[c]
  BY <1>2 DEF SaveStep, IndInv, TypeOK, Players, Ops, Saves, DataInv, SavedInv
<1>3. SavedInv'
  <2>1. ASSUME NEW c \in Chars, players'[c] # None, ~players'[c].m_DbSaveDisabled
        PROVE  players'[c].state = last'[c]
    <3>1. Stays(c) /\ ~Leaves(c) /\ last'[c] = last[c]
      BY <2>1 DEF SaveStep, Leaves
    <3> QED
      BY <2>1, <3>1 DEF Stays, DataInv, SavedInv
  <2>2. ASSUME NEW c \in Chars, players'[c] = None \/ players'[c].m_DbSaveDisabled,
               last'[c] # None
        PROVE  LatestIn(stored'[c], pending'[c], last'[c])
    <3> last'[c] = last[c]
      BY <2>2 DEF SaveStep
    <3>1. CASE c \in G
      <4>1. LatestIn(stored[c], Append(pending[c], [op |-> "save", state |-> players[c].state]),
                     players[c].state)
        BY <1>1, <1>2, <3>1, SaveIsLatest
      <4> QED
        BY <4>1, <1>2, <3>1 DEF SaveStep
    <3>2. CASE c \notin G
      <4>1. pending'[c] = pending[c] /\ stored' = stored
        BY <3>2 DEF SaveStep
      <4>2. players[c] = None \/ players[c].m_DbSaveDisabled
        BY <2>2, <3>2 DEF SaveStep, Leaves, Stays
      <4> QED
        BY <2>2, <4>1, <4>2 DEF DataInv, SavedInv
    <3> QED
      BY <3>1, <3>2
  <2> QED
    BY <2>1, <2>2 DEF SavedInv
<1>4. FreshLoads'
  <2> SUFFICES ASSUME NEW c \in Chars, NEW k \in 1 .. Len(pending'[c]),
                      pending'[c][k].op = "load", pending'[c][k].alone
               PROVE  /\ players'[c] = None
                      /\ \A j \in 1 .. Len(pending'[c]) :
                            /\ j < k => pending'[c][j].op = "save"
                            /\ k < j => pending'[c][j].op # "save"
                      /\ \A i \in 1 .. Len(results') : results'[i].char # c
    BY DEF FreshLoads
  <2>1. c \notin G
    <3> SUFFICES ASSUME c \in G PROVE FALSE
      OBVIOUS
    <3> DEFINE o == [op |-> "save", state |-> players[c].state]
    <3>1. pending'[c] = Append(pending[c], o) /\ o \in Ops /\ o.op = "save"
      BY <1>2 DEF SaveStep
    <3> HIDE DEF o
    <3>2. k \in 1 .. Len(pending[c]) /\ pending'[c][k] = pending[c][k]
      BY <1>1, <3>1
    <3>3. pending[c][k].op = "load" /\ pending[c][k].alone
      BY <3>2
    <3>4. players[c] = None
      BY <3>2, <3>3 DEF DataInv, FreshLoads
    <3> QED
      BY <3>4 DEF SaveStep
  <2>2. /\ pending'[c] = pending[c] /\ results' = results
        /\ players[c] = None => players'[c] = None
    BY <2>1 DEF SaveStep, Leaves, Stays
  <2>3. /\ players[c] = None
        /\ \A j \in 1 .. Len(pending[c]) : /\ j < k => pending[c][j].op = "save"
                                           /\ k < j => pending[c][j].op # "save"
        /\ \A i \in 1 .. Len(results) : results[i].char # c
    BY <2>2 DEF DataInv, FreshLoads
  <2> QED
    BY <2>2, <2>3
<1>5. FreshAnswers'
  <2>1. \A i \in 1 .. Len(results) : results[i].char \in Chars
    <3>1. \A i \in 1 .. Len(results) : results[i] \in Holders
      BY DEF IndInv, TypeOK
    <3> QED
      BY <3>1 DEF Holders
  <2>2. \A c \in Chars : players[c] = None => players'[c] = None /\ last'[c] = last[c]
    BY DEF SaveStep, Leaves, Stays
  <2>3. results' = results
    BY DEF SaveStep
  <2> QED
    BY <2>1, <2>2, <2>3 DEF DataInv, FreshAnswers
<1> QED
  BY <1>3, <1>4, <1>5 DEF DataInv

(* Shortening results keeps what is said of the answers. *)
LEMMA Answered ==
    ASSUME IndInv, results # <<>>, results' = Tail(results)
    PROVE  /\ Len(results) \in Nat /\ 1 \in 1 .. Len(results) /\ Head(results) = results[1]
           /\ \A i \in 1 .. Len(results') : /\ i + 1 \in 1 .. Len(results)
                                            /\ results'[i] = results[i + 1]
                                            /\ results[i + 1].char \in Chars
           /\ \A i \in 1 .. Len(results) : results[i] \in Holders
<1>1. results \in Seq(Holders)
  BY DEF IndInv, TypeOK
<1>2. \A i \in 1 .. Len(results) : results[i] \in Holders
  BY <1>1
<1>3. /\ Len(results) \in Nat /\ 1 \in 1 .. Len(results) /\ Head(results) = results[1]
      /\ \A i \in 1 .. Len(results') : /\ i + 1 \in 1 .. Len(results)
                                       /\ results'[i] = results[i + 1]
  BY <1>1
<1> QED
  BY <1>2, <1>3 DEF Holders

(* Taking an answer without loading a character keeps DataInv.             *)
LEMMA AnswerStepKeeps ==
    ASSUME IndInv, DataInv, AnswerStep
    PROVE  DataInv'
<1>1. /\ \A i \in 1 .. Len(results') : /\ i + 1 \in 1 .. Len(results)
                                       /\ results'[i] = results[i + 1]
                                       /\ results[i + 1].char \in Chars
      /\ Len(results) \in Nat
  BY Answered DEF AnswerStep
<1>2. SavedInv'
  BY DEF AnswerStep, Stays, DataInv, SavedInv
<1>3. FreshLoads'
  BY <1>1 DEF AnswerStep, Stays, DataInv, FreshLoads
<1>4. FreshAnswers'
  <2> SUFFICES ASSUME NEW i \in 1 .. Len(results'), results'[i].alone
               PROVE  /\ players'[results'[i].char] = None
                      /\ last'[results'[i].char] # None =>
                            results'[i].state = last'[results'[i].char]
                      /\ \A j \in 1 .. Len(results') : j < i => results'[j].char # results'[i].char
    BY DEF FreshAnswers
  <2>1. /\ players[results[i + 1].char] = None
        /\ last[results[i + 1].char] # None =>
                results[i + 1].state = last[results[i + 1].char]
        /\ \A j \in 1 .. Len(results) : j < i + 1 => results[j].char # results[i + 1].char
    BY <1>1 DEF DataInv, FreshAnswers
  <2>2. \A j \in 1 .. Len(results') : j < i => j + 1 < i + 1
    OBVIOUS
  <2> QED
    BY <1>1, <2>1, <2>2 DEF AnswerStep, Stays
<1> QED
  BY <1>2, <1>3, <1>4 DEF DataInv

(* Loading a character from its answer keeps DataInv.                      *)
LEMMA LoadKeeps ==
    ASSUME IndInv, DataInv, LoadFromDB
    PROVE  DataInv'
<1> DEFINE c == Answer.char
<1>1. /\ results # <<>> /\ results' = Tail(results) /\ players[c] = None
      /\ UNCHANGED <<stored, pending>>
  BY DEF LoadFromDB, Expects
<1>2. /\ \A i \in 1 .. Len(results') : /\ i + 1 \in 1 .. Len(results)
                                       /\ results'[i] = results[i + 1]
                                       /\ results[i + 1].char \in Chars
      /\ Len(results) \in Nat /\ 1 \in 1 .. Len(results) /\ Answer = results[1]
  BY <1>1, Answered DEF Answer
<1>3. /\ c \in Chars /\ Answer.state \in Nat /\ m_session \in Slots
  BY AnswerIsTyped DEF LoadFromDB
<1>4. /\ players'[c] # None /\ players'[c].state = Answer.state /\ last'[c] = Answer.state
      /\ ~players'[c].m_DbSaveDisabled
      /\ \A d \in Chars \ {c} : players'[d] = players[d] /\ last'[d] = last[d]
  <2> DEFINE p == [session |-> m_session, inWorld |-> TRUE,
                   m_DbSaveDisabled |-> FALSE, state |-> Answer.state]
  <2>1. p \in Players /\ p.state = Answer.state /\ ~p.m_DbSaveDisabled
    BY <1>3 DEF Players
  <2>2. players' = [players EXCEPT ![c] = p] /\ last' = [last EXCEPT ![c] = Answer.state]
    BY DEF LoadFromDB
  <2> HIDE DEF p, c
  <2> QED
    BY <1>3, <2>1, <2>2 DEF IndInv, TypeOK
<1>5. c = results[1].char
  BY <1>2
<1> HIDE DEF c
<1>6. SavedInv'
  BY <1>1, <1>4 DEF DataInv, SavedInv
<1>7. FreshLoads'
  <2> SUFFICES ASSUME NEW d \in Chars, NEW k \in 1 .. Len(pending'[d]),
                      pending'[d][k].op = "load", pending'[d][k].alone
               PROVE  /\ players'[d] = None
                      /\ \A j \in 1 .. Len(pending'[d]) :
                            /\ j < k => pending'[d][j].op = "save"
                            /\ k < j => pending'[d][j].op # "save"
                      /\ \A i \in 1 .. Len(results') : results'[i].char # d
    BY DEF FreshLoads
  <2>1. /\ players[d] = None
        /\ \A j \in 1 .. Len(pending[d]) :
                            /\ j < k => pending[d][j].op = "save"
                            /\ k < j => pending[d][j].op # "save"
        /\ \A i \in 1 .. Len(results) : results[i].char # d
    BY <1>1 DEF DataInv, FreshLoads
  <2>2. d # c
    BY <1>2, <1>5, <2>1
  <2> QED
    BY <1>1, <1>2, <1>4, <2>1, <2>2
<1>8. FreshAnswers'
  <2> SUFFICES ASSUME NEW i \in 1 .. Len(results'), results'[i].alone
               PROVE  /\ players'[results'[i].char] = None
                      /\ last'[results'[i].char] # None =>
                            results'[i].state = last'[results'[i].char]
                      /\ \A j \in 1 .. Len(results') : j < i => results'[j].char # results'[i].char
    BY DEF FreshAnswers
  <2>1. /\ players[results[i + 1].char] = None
        /\ last[results[i + 1].char] # None =>
                results[i + 1].state = last[results[i + 1].char]
        /\ \A j \in 1 .. Len(results) : j < i + 1 => results[j].char # results[i + 1].char
    BY <1>2 DEF DataInv, FreshAnswers
  <2>2. \A j \in 1 .. Len(results') : j < i => j + 1 < i + 1
    OBVIOUS
  <2>3. results[i + 1].char # c
    <3>1. 1 < i + 1
      BY <1>2
    <3> QED
      BY <1>2, <1>5, <2>1, <3>1
  <2>4. /\ players'[results[i + 1].char] = players[results[i + 1].char]
        /\ last'[results[i + 1].char] = last[results[i + 1].char]
    BY <1>2, <1>4, <2>3
  <2> QED
    BY <1>2, <2>1, <2>2, <2>4
<1> QED
  BY <1>6, <1>7, <1>8 DEF DataInv

(* A change of a character in the world keeps DataInv.                     *)
LEMMA PlayKeeps ==
    ASSUME IndInv, DataInv, NEW c \in Chars, Play(c)
    PROVE  DataInv'
<1>1. players[c] # None /\ players[c] \in Players /\ changes + 1 \in Nat
  BY DEF Play, IndInv, TypeOK
<1>2. /\ players'[c] # None /\ players'[c].state = changes + 1
      /\ players'[c].m_DbSaveDisabled <=> players[c].m_DbSaveDisabled
      /\ last'[c] = IF players[c].m_DbSaveDisabled THEN None ELSE changes + 1
      /\ \A d \in Chars \ {c} : players'[d] = players[d] /\ last'[d] = last[d]
      /\ UNCHANGED <<stored, pending, results>>
  <2> DEFINE p == [players[c] EXCEPT !.state = changes + 1]
             x == IF players[c].m_DbSaveDisabled THEN None ELSE changes + 1
  <2>1. /\ p \in Players /\ p.state = changes + 1
        /\ p.m_DbSaveDisabled <=> players[c].m_DbSaveDisabled
    BY <1>1 DEF Players
  <2>2. players' = [players EXCEPT ![c] = p] /\ last' = [last EXCEPT ![c] = x]
    BY DEF Play
  <2> HIDE DEF p, x
  <2>3. UNCHANGED <<stored, pending, results>>
    BY DEF Play, database
  <2>4. /\ players'[c] = p /\ last'[c] = x
        /\ \A d \in Chars \ {c} : players'[d] = players[d] /\ last'[d] = last[d]
    BY <2>2 DEF IndInv, TypeOK
  <2> QED
    BY <2>1, <2>3, <2>4 DEF x
<1>3. SavedInv'
  <2>1. CASE players[c].m_DbSaveDisabled
    BY <1>2, <2>1 DEF DataInv, SavedInv
  <2>2. CASE ~players[c].m_DbSaveDisabled
    BY <1>2, <2>2 DEF DataInv, SavedInv
  <2> QED
    BY <2>1, <2>2
<1>4. FreshLoads'
  BY <1>1, <1>2 DEF DataInv, FreshLoads
<1>5. FreshAnswers'
  <2>1. \A i \in 1 .. Len(results) : results[i].char \in Chars
    <3>1. \A i \in 1 .. Len(results) : results[i] \in Holders
      BY DEF IndInv, TypeOK
    <3> QED
      BY <3>1 DEF Holders
  <2>2. \A d \in Chars : players[d] = None => players'[d] = None /\ last'[d] = last[d]
    BY <1>1, <1>2
  <2> QED
    BY <1>2, <2>1, <2>2 DEF DataInv, FreshAnswers
<1> QED
  BY <1>3, <1>4, <1>5 DEF DataInv

(* A race change keeps DataInv: the character is saved as it is then.      *)
LEMMA ChangeRaceKeeps ==
    ASSUME IndInv, DataInv, NEW c \in Chars, ChangeRace(c)
    PROVE  DataInv'
<1> DEFINE o == [op |-> "save", state |-> changes + 1]
<1>1. /\ players[c] # None /\ players[c] \in Players /\ changes + 1 \in Nat
      /\ \A d \in Chars : pending[d] \in Seq(Ops) /\ Len(pending[d]) \in Nat
  BY DEF ChangeRace, IndInv, TypeOK, Ops
<1>2. o \in Ops /\ o.op = "save"
  BY <1>1 DEF Ops, Saves
<1>3. /\ players'[c] # None /\ players'[c].m_DbSaveDisabled /\ last'[c] = changes + 1
      /\ \A d \in Chars \ {c} : players'[d] = players[d] /\ last'[d] = last[d]
  <2> DEFINE p == [players[c] EXCEPT !.state = changes + 1, !.m_DbSaveDisabled = TRUE]
  <2>1. p \in Players /\ p.m_DbSaveDisabled
    BY <1>1 DEF Players
  <2>2. players' = [players EXCEPT ![c] = p] /\ last' = [last EXCEPT ![c] = changes + 1]
    BY DEF ChangeRace, IndInv, TypeOK
  <2> HIDE DEF p
  <2> QED
    BY <2>1, <2>2 DEF IndInv, TypeOK
<1>4. /\ pending'[c] = Append(pending[c], o)
      /\ \A d \in Chars \ {c} : pending'[d] = pending[d]
      /\ UNCHANGED <<stored, results>>
  <2>1. pending' = [pending EXCEPT ![c] = Append(pending[c], o)] /\ UNCHANGED <<stored, results>>
    BY DEF ChangeRace
  <2> HIDE DEF o
  <2> QED
    BY <2>1 DEF IndInv, TypeOK
<1>5. SavedInv'
  <2>1. LatestIn(stored[c], Append(pending[c], o), changes + 1)
    BY <1>1, SaveIsLatest
  <2> HIDE DEF o
  <2> QED
    BY <1>3, <1>4, <2>1 DEF DataInv, SavedInv
<1> HIDE DEF o
<1>6. FreshLoads'
  <2> SUFFICES ASSUME NEW d \in Chars, NEW k \in 1 .. Len(pending'[d]),
                      pending'[d][k].op = "load", pending'[d][k].alone
               PROVE  /\ players'[d] = None
                      /\ \A j \in 1 .. Len(pending'[d]) :
                            /\ j < k => pending'[d][j].op = "save"
                            /\ k < j => pending'[d][j].op # "save"
                      /\ \A i \in 1 .. Len(results') : results'[i].char # d
    BY DEF FreshLoads
  <2>1. d # c
    <3> SUFFICES ASSUME d = c PROVE FALSE
      OBVIOUS
    <3>1. k \in 1 .. Len(pending[c]) /\ pending'[c][k] = pending[c][k]
      BY <1>1, <1>2, <1>4
    <3>2. players[c] = None
      BY <3>1 DEF DataInv, FreshLoads
    <3> QED
      BY <1>1, <3>2
  <2>2. pending'[d] = pending[d] /\ players'[d] = players[d] /\ results' = results
    BY <1>3, <1>4, <2>1
  <2>3. /\ players[d] = None
        /\ \A j \in 1 .. Len(pending[d]) : /\ j < k => pending[d][j].op = "save"
                                           /\ k < j => pending[d][j].op # "save"
        /\ \A i \in 1 .. Len(results) : results[i].char # d
    BY <2>2 DEF DataInv, FreshLoads
  <2> QED
    BY <2>2, <2>3
<1>7. FreshAnswers'
  <2>1. \A i \in 1 .. Len(results) : results[i].char \in Chars
    <3>1. \A i \in 1 .. Len(results) : results[i] \in Holders
      BY DEF IndInv, TypeOK
    <3> QED
      BY <3>1 DEF Holders
  <2>2. \A d \in Chars : players[d] = None => players'[d] = None /\ last'[d] = last[d]
    BY <1>1, <1>3
  <2> QED
    BY <1>4, <2>1, <2>2 DEF DataInv, FreshAnswers
<1> QED
  BY <1>5, <1>6, <1>7 DEF DataInv

(* Queueing a login keeps DataInv: if it is alone it stands behind all     *)
(* saves.                                                                  *)
LEMMA LoginKeeps ==
    ASSUME IndInv, DataInv, NEW c \in Chars, HandlePlayerLoginOpcode(c)
    PROVE  DataInv'
<1> DEFINE o == [op |-> "load", alone |-> Alone(c)]
<1>1. o \in Loads /\ o.op = "load" /\ (o.alone <=> Alone(c))
  BY DEF Loads, Alone
<1>2. /\ pending' = [pending EXCEPT ![c] = Append(pending[c], o)]
      /\ UNCHANGED <<players, last, stored, results>>
  BY DEF HandlePlayerLoginOpcode, QueueLogin, world
<1>3. \A d \in Chars : pending[d] \in Seq(Ops) /\ Len(pending[d]) \in Nat
  BY DEF IndInv, TypeOK, Ops
<1> HIDE DEF o
<1>4. o \in Ops
  BY <1>1 DEF Ops
<1>5. /\ pending'[c] = Append(pending[c], o)
      /\ \A d \in Chars \ {c} : pending'[d] = pending[d]
  BY <1>2 DEF IndInv, TypeOK
<1>6. /\ Len(pending'[c]) = Len(pending[c]) + 1 /\ pending'[c][Len(pending[c]) + 1] = o
      /\ \A j \in 1 .. Len(pending[c]) : pending'[c][j] = pending[c][j]
  BY <1>3, <1>4, <1>5
<1>7. SavedInv'
  <2>1. ASSUME NEW d \in Chars, players'[d] = None \/ players'[d].m_DbSaveDisabled,
               last'[d] # None
        PROVE  LatestIn(stored'[d], pending'[d], last'[d])
    <3>1. LatestIn(stored[d], pending[d], last[d])
      BY <1>2, <2>1 DEF DataInv, SavedInv
    <3>2. CASE d = c
      BY <1>1, <1>2, <1>3, <1>5, <3>1, <3>2, LoadKeepsLatest
    <3>3. CASE d # c
      BY <1>2, <1>5, <3>1, <3>3
    <3> QED
      BY <3>2, <3>3
  <2> QED
    BY <1>2, <2>1 DEF DataInv, SavedInv
<1>8. FreshLoads'
  <2> SUFFICES ASSUME NEW d \in Chars, NEW k \in 1 .. Len(pending'[d]),
                      pending'[d][k].op = "load", pending'[d][k].alone
               PROVE  /\ players'[d] = None
                      /\ \A j \in 1 .. Len(pending'[d]) :
                            /\ j < k => pending'[d][j].op = "save"
                            /\ k < j => pending'[d][j].op # "save"
                      /\ \A i \in 1 .. Len(results') : results'[i].char # d
    BY DEF FreshLoads
  <2>1. CASE d # c
    <3>1. pending'[d] = pending[d]
      BY <1>5, <2>1
    <3>2. /\ players[d] = None
          /\ \A j \in 1 .. Len(pending[d]) : /\ j < k => pending[d][j].op = "save"
                                             /\ k < j => pending[d][j].op # "save"
          /\ \A i \in 1 .. Len(results) : results[i].char # d
      BY <3>1 DEF DataInv, FreshLoads
    <3> QED
      BY <1>2, <3>1, <3>2
  <2>2. CASE d = c /\ k = Len(pending[c]) + 1
    <3>1. Alone(c)
      BY <1>1, <1>6, <2>2
    <3>2. players[c] = None /\ results = <<>> /\ QueuedLogins = {}
      BY <3>1 DEF Alone
    <3>3. ASSUME NEW j \in 1 .. Len(pending[c]) PROVE pending[c][j].op = "save"
      <4>1. pending[c][j].op # "load"
        <5> SUFFICES ASSUME pending[c][j].op = "load" PROVE FALSE
          OBVIOUS
        <5> DEFINE L(d1) == {<<d1, i>> : i \in {i1 \in 1 .. Len(pending[d1]) :
                                                  pending[d1][i1].op = "load"}}
        <5>1. <<c, j>> \in L(c)
          OBVIOUS
        <5>2. QueuedLogins = UNION {L(d1) : d1 \in Chars}
          BY DEF QueuedLogins
        <5> HIDE DEF L
        <5>3. <<c, j>> \in QueuedLogins
          BY <5>1, <5>2
        <5> QED
          BY <3>2, <5>3
      <4>2. pending[c][j] \in Saves \cup Loads
        BY <1>3 DEF Ops
      <4> QED
        BY <4>1, <4>2 DEF Saves, Loads
    <3>4. \A j \in 1 .. Len(pending'[c]) : /\ j < k => j \in 1 .. Len(pending[c])
                                           /\ ~(k < j)
      BY <1>3, <1>6, <2>2
    <3>5. \A i \in 1 .. Len(results) : FALSE
      BY <3>2
    <3> QED
      BY <1>2, <1>6, <2>2, <3>2, <3>3, <3>4, <3>5
  <2>3. CASE d = c /\ k # Len(pending[c]) + 1
    <3>1. k \in 1 .. Len(pending[c]) /\ pending'[c][k] = pending[c][k]
      BY <1>3, <1>6, <2>3
    <3>2. /\ players[c] = None
          /\ \A j \in 1 .. Len(pending[c]) : /\ j < k => pending[c][j].op = "save"
                                             /\ k < j => pending[c][j].op # "save"
          /\ \A i \in 1 .. Len(results) : results[i].char # c
      BY <2>3, <3>1 DEF DataInv, FreshLoads
    <3>3. \A j \in 1 .. Len(pending'[c]) :
            \/ j \in 1 .. Len(pending[c])
            \/ ~(j < k) /\ pending'[c][j].op = "load"
      BY <1>1, <1>3, <1>6, <3>1
    <3> QED
      BY <1>2, <1>6, <2>3, <3>2, <3>3
  <2> QED
    BY <2>1, <2>2, <2>3
<1>9. FreshAnswers'
  BY <1>2 DEF DataInv, FreshAnswers
<1> QED
  BY <1>7, <1>8, <1>9 DEF DataInv

(* Executing an operation keeps DataInv: a login that is alone finds the   *)
(* last state.                                                             *)
LEMMA DelayKeeps ==
    ASSUME IndInv, DataInv, NEW c \in Chars, DelayThread(c)
    PROVE  DataInv'
<1>1. /\ pending[c] # <<>> /\ pending' = [pending EXCEPT ![c] = Tail(pending[c])]
      /\ UNCHANGED <<players, last>>
  BY DEF DelayThread, world
<1>2. \A d \in Chars : pending[d] \in Seq(Ops)
  BY DEF IndInv, TypeOK, Ops
<1>3. /\ pending'[c] = Tail(pending[c])
      /\ \A d \in Chars \ {c} : pending'[d] = pending[d]
  BY <1>1 DEF IndInv, TypeOK
<1>4. /\ Len(pending[c]) \in Nat /\ 1 \in 1 .. Len(pending[c])
      /\ Head(pending[c]) = pending[c][1] /\ Head(pending[c]) \in Ops
      /\ \A k \in 1 .. Len(pending'[c]) : /\ k + 1 \in 1 .. Len(pending[c])
                                          /\ pending'[c][k] = pending[c][k + 1]
  <2> DEFINE q == pending[c]
  <2>1. q \in Seq(Ops) /\ q # <<>> /\ pending'[c] = Tail(q)
    BY <1>1, <1>2, <1>3
  <2> HIDE DEF q
  <2>2. /\ Len(q) \in Nat /\ 1 \in 1 .. Len(q) /\ Head(q) = q[1] /\ q[1] \in Ops
        /\ \A k \in 1 .. Len(Tail(q)) : k + 1 \in 1 .. Len(q) /\ Tail(q)[k] = q[k + 1]
    BY <2>1
  <2> QED
    BY <2>1, <2>2 DEF q
<1> DEFINE w == IF Head(pending[c]).op = "save" THEN Head(pending[c]).state ELSE stored[c]
<1>5. stored' = [stored EXCEPT ![c] = w]
  BY DEF DelayThread, IndInv, TypeOK
<1>6. stored'[c] = w /\ \A d \in Chars \ {c} : stored'[d] = stored[d]
  BY <1>5 DEF IndInv, TypeOK
<1>7. SavedInv'
  <2>1. ASSUME NEW d \in Chars, players'[d] = None \/ players'[d].m_DbSaveDisabled,
               last'[d] # None
        PROVE  LatestIn(stored'[d], pending'[d], last'[d])
    <3>1. LatestIn(stored[d], pending[d], last[d])
      BY <1>1, <2>1 DEF DataInv, SavedInv
    <3>2. CASE d = c
      <4>1. LatestIn(w, Tail(pending[c]), last[c])
        BY <1>1, <1>2, <3>1, <3>2, ExecutionKeepsLatest
      <4> HIDE DEF w
      <4> QED
        BY <1>1, <1>3, <1>6, <3>2, <4>1
    <3>3. CASE d # c
      BY <1>1, <1>3, <1>6, <3>1, <3>3
    <3> QED
      BY <3>2, <3>3
  <2> QED
    BY <1>1, <2>1 DEF DataInv, SavedInv
<1>8. CASE Head(pending[c]).op = "save"
  <2>1. results' = results
    BY <1>8 DEF DelayThread
  <2>2. FreshLoads'
    <3> SUFFICES ASSUME NEW d \in Chars, NEW k \in 1 .. Len(pending'[d]),
                        pending'[d][k].op = "load", pending'[d][k].alone
                 PROVE  /\ players'[d] = None
                        /\ \A j \in 1 .. Len(pending'[d]) :
                              /\ j < k => pending'[d][j].op = "save"
                              /\ k < j => pending'[d][j].op # "save"
                        /\ \A i \in 1 .. Len(results') : results'[i].char # d
      BY DEF FreshLoads
    <3>1. CASE d # c
      <4>1. pending'[d] = pending[d]
        BY <1>3, <3>1
      <4> QED
        BY <1>1, <2>1, <4>1 DEF DataInv, FreshLoads
    <3>2. CASE d = c
      <4>1. /\ players[c] = None
            /\ \A j \in 1 .. Len(pending[c]) : /\ j < k + 1 => pending[c][j].op = "save"
                                               /\ k + 1 < j => pending[c][j].op # "save"
            /\ \A i \in 1 .. Len(results) : results[i].char # c
        BY <1>4, <3>2 DEF DataInv, FreshLoads
      <4>2. \A j \in 1 .. Len(pending'[c]) : /\ j < k => j + 1 < k + 1
                                             /\ k < j => k + 1 < j + 1
        BY <3>2
      <4>3. ASSUME NEW j \in 1 .. Len(pending'[c])
            PROVE  /\ j < k => pending'[c][j].op = "save"
                   /\ k < j => pending'[c][j].op # "save"
        <5>1. j + 1 \in 1 .. Len(pending[c]) /\ pending'[c][j] = pending[c][j + 1]
          BY <1>4
        <5>2. /\ j + 1 < k + 1 => pending[c][j + 1].op = "save"
              /\ k + 1 < j + 1 => pending[c][j + 1].op # "save"
          BY <4>1, <5>1
        <5> QED
          BY <4>2, <5>1, <5>2
      <4> QED
        BY <1>1, <2>1, <3>2, <4>1, <4>3
    <3> QED
      BY <3>1, <3>2
  <2>3. FreshAnswers'
    BY <1>1, <2>1 DEF DataInv, FreshAnswers
  <2> QED
    BY <1>7, <2>2, <2>3 DEF DataInv
<1>9. CASE Head(pending[c]).op # "save"
  <2> DEFINE h == [char |-> c, state |-> stored[c], alone |-> Head(pending[c]).alone]
  <2>1. Head(pending[c]) \in Loads /\ Head(pending[c]).op = "load"
    BY <1>4, <1>9 DEF Ops, Saves, Loads
  <2>2. /\ h \in Holders /\ h.char = c /\ h.state = stored[c]
        /\ h.alone <=> Head(pending[c]).alone
    BY <2>1 DEF Loads, Holders, IndInv, TypeOK
  <2>3. results' = Append(results, h)
    BY <1>9, Zenon DEF DelayThread
  <2> HIDE DEF h
  <2>4. results \in Seq(Holders) /\ \A i \in 1 .. Len(results) : results[i] \in Holders
    BY DEF IndInv, TypeOK
  <2>5. /\ Len(results) \in Nat /\ Len(results') = Len(results) + 1
        /\ results'[Len(results) + 1] = h
        /\ \A i \in 1 .. Len(results) : results'[i] = results[i] /\ i # Len(results) + 1
        /\ \A i \in 1 .. Len(results') : i \in 1 .. Len(results) \/ i = Len(results) + 1
    BY <2>2, <2>3, <2>4
  <2>6. FreshLoads'
    <3> SUFFICES ASSUME NEW d \in Chars, NEW k \in 1 .. Len(pending'[d]),
                        pending'[d][k].op = "load", pending'[d][k].alone
                 PROVE  /\ players'[d] = None
                        /\ \A j \in 1 .. Len(pending'[d]) :
                              /\ j < k => pending'[d][j].op = "save"
                              /\ k < j => pending'[d][j].op # "save"
                        /\ \A i \in 1 .. Len(results') : results'[i].char # d
      BY DEF FreshLoads
    <3>1. d # c
      <4> SUFFICES ASSUME d = c PROVE FALSE
        OBVIOUS
      <4>1. \A j \in 1 .. Len(pending[c]) : j < k + 1 => pending[c][j].op = "save"
        BY <1>4, SMTT(30) DEF DataInv, FreshLoads
      <4>2. 1 < k + 1
        OBVIOUS
      <4> QED
        BY <1>4, <1>9, <4>1, <4>2
    <3>2. pending'[d] = pending[d]
      BY <1>3, <3>1
    <3>3. /\ players[d] = None
          /\ \A j \in 1 .. Len(pending[d]) : /\ j < k => pending[d][j].op = "save"
                                             /\ k < j => pending[d][j].op # "save"
          /\ \A i \in 1 .. Len(results) : results[i].char # d
      BY <3>2 DEF DataInv, FreshLoads
    <3> QED
      BY <1>1, <2>2, <2>5, <3>1, <3>2, <3>3
  <2>7. FreshAnswers'
    <3> SUFFICES ASSUME NEW i \in 1 .. Len(results'), results'[i].alone
                 PROVE  /\ players'[results'[i].char] = None
                        /\ last'[results'[i].char] # None =>
                              results'[i].state = last'[results'[i].char]
                        /\ \A j \in 1 .. Len(results') : j < i => results'[j].char # results'[i].char
      BY DEF FreshAnswers
    <3>1. CASE i \in 1 .. Len(results)
      <4>1. /\ players[results[i].char] = None
            /\ last[results[i].char] # None => results[i].state = last[results[i].char]
            /\ \A j \in 1 .. Len(results) : j < i => results[j].char # results[i].char
        BY <2>5, <3>1 DEF DataInv, FreshAnswers
      <4>2. \A j \in 1 .. Len(results') : j < i => j \in 1 .. Len(results)
        BY <2>5, <3>1
      <4> QED
        BY <1>1, <2>5, <3>1, <4>1, <4>2
    <3>2. CASE i = Len(results) + 1
      <4>1. Head(pending[c]).alone
        BY <2>2, <2>5, <3>2
      <4>2. /\ players[c] = None
            /\ \A j \in 1 .. Len(pending[c]) : 1 < j => pending[c][j].op # "save"
            /\ \A j \in 1 .. Len(results) : results[j].char # c
        BY <1>4, <2>1, <4>1 DEF DataInv, FreshLoads
      <4>3. \A j \in 1 .. Len(pending[c]) : pending[c][j].op # "save"
        BY <1>4, <1>9, <4>2
      <4>4. last[c] # None => stored[c] = last[c]
        <5> SUFFICES ASSUME last[c] # None PROVE stored[c] = last[c]
          OBVIOUS
        <5>1. LatestIn(stored[c], pending[c], last[c])
          BY <4>2 DEF DataInv, SavedInv
        <5>2. \A x : [op |-> "save", state |-> x].op = "save"
          OBVIOUS
        <5> QED
          BY <4>3, <5>1, <5>2 DEF LatestIn
      <4>5. \A j \in 1 .. Len(results') : j < i => j \in 1 .. Len(results)
        BY <2>5, <3>2
      <4> QED
        BY <1>1, <2>2, <2>5, <3>2, <4>2, <4>4, <4>5
    <3> QED
      BY <2>5, <3>1, <3>2
  <2> QED
    BY <1>7, <2>6, <2>7 DEF DataInv
<1> QED
  BY <1>8, <1>9

-----------------------------------------------------------------------------
(* Every step is of one of these kinds. *)
StepKinds ==
    \/ \E G \in SUBSET Chars : SaveStep(G)
    \/ AnswerStep \/ LoadFromDB
    \/ \E c \in Chars :
         Play(c) \/ ChangeRace(c) \/ HandlePlayerLoginOpcode(c) \/ DelayThread(c)

(* A step that changes no data saves nobody.                               *)
LEMMA QuietIsSave ==
    ASSUME UNCHANGED <<players, last, stored, results, pending>>
    PROVE  SaveStep({})
  BY DEF SaveStep, Leaves, Stays

(* SaveToDB of characters in the world saves those it does not refuse.     *)
LEMMA SaveToDBSaves ==
    ASSUME NEW G, SaveToDB(G), NEW c \in Chars
    PROVE  pending'[c] = IF c \in {d \in G \cap Chars : ~players[d].m_DbSaveDisabled}
                         THEN Append(pending[c], [op |-> "save", state |-> players[c].state])
                         ELSE pending[c]
  BY DEF SaveToDB

(* LogoutPlayer saves the characters of the sessions but for the lost ones *)
(* and those SaveToDB refuses.                                             *)
LEMMA LogoutIsSave ==
    ASSUME IndInv, NEW group \in SUBSET Slots, \A s \in group : sess[s] # None,
           LogoutPlayers(group)
    PROVE  \E G \in SUBSET Chars : SaveStep(G)
<1>1. /\ Playing(group) \in SUBSET Chars
      /\ \A c \in Chars :
            /\ c \in Playing(group) <=> players[c] # None /\ players[c].session \in group
            /\ players'[c] = IF c \in Playing(group) THEN None ELSE players[c]
  BY Logout
<1>2. PICK lost \in SUBSET Playing(group) :
        /\ SaveToDB(SavedOf(group, lost))
        /\ last' = [c \in Chars |-> IF c \in lost THEN None ELSE last[c]]
  BY DEF LogoutPlayers
<1> DEFINE G == {d \in SavedOf(group, lost) \cap Chars : ~players[d].m_DbSaveDisabled}
<1>3. SaveStep(G)
  <2>1. ASSUME NEW c \in Chars
        PROVE  pending'[c] = IF c \in G
                             THEN Append(pending[c], [op |-> "save", state |-> players[c].state])
                             ELSE pending[c]
    BY <1>2, SaveToDBSaves
  <2>2. ASSUME NEW c \in Chars
        PROVE  c \in G <=> /\ c \in Playing(group) /\ c \notin lost
                           /\ ~players[c].m_DbSaveDisabled
    BY DEF SavedOf
  <2> HIDE DEF G
  <2>3. \A c \in Chars : /\ Leaves(c) <=> c \in Playing(group)
                         /\ Leaves(c) \/ Stays(c)
    BY <1>1 DEF Leaves, Stays
  <2>4. \A c \in Chars : c \in G => players[c] # None /\ ~players[c].m_DbSaveDisabled
    BY <1>1, <2>2
  <2>5. \A c \in Chars : \/ /\ last'[c] = last[c]
                            /\ Leaves(c) => c \in G \/ players[c].m_DbSaveDisabled
                         \/ last'[c] = None /\ Leaves(c)
    BY <1>2, <2>2, <2>3
  <2>6. UNCHANGED <<stored, results>>
    BY DEF LogoutPlayers
  <2> QED
    BY <2>1, <2>3, <2>4, <2>5, <2>6 DEF SaveStep
<1>4. G \in SUBSET Chars
  OBVIOUS
<1> QED
  BY <1>3, <1>4

(* One character is saved, if SaveToDB does, and stays in the world.       *)
LEMMA OneSave ==
    ASSUME NEW c \in Chars, players[c] # None, SaveToDB({c}),
           UNCHANGED <<players, last, stored, results>>
    PROVE  \E G \in SUBSET Chars : SaveStep(G)
<1> DEFINE G == {d \in {c} \cap Chars : ~players[d].m_DbSaveDisabled}
<1>1. SaveStep(G)
  <2>1. ASSUME NEW d \in Chars
        PROVE  pending'[d] = IF d \in G
                             THEN Append(pending[d], [op |-> "save", state |-> players[d].state])
                             ELSE pending[d]
    BY SaveToDBSaves
  <2>2. \A d \in Chars : d \in G => players[d] # None /\ ~players[d].m_DbSaveDisabled
    OBVIOUS
  <2>3. \A d \in Chars : ~Leaves(d) /\ Stays(d)
    BY DEF Leaves, Stays
  <2> HIDE DEF G
  <2> QED
    BY <2>1, <2>2, <2>3 DEF SaveStep
<1>2. G \in SUBSET Chars
  OBVIOUS
<1> QED
  BY <1>1, <1>2

(* ForcePlayerLogoutDelay saves the character.                             *)
LEMMA DelayIsSave ==
    ASSUME IndInv, NEW s \in Slots, sess[s] # None, Lingers(s), ForcePlayerLogoutDelay(s)
    PROVE  \E G \in SUBSET Chars : SaveStep(G)
<1>1. sess[s].player \in Chars /\ players[sess[s].player] # None
  BY Living DEF Lingers, IndInv, PlayerHasItsSession
<1>2. SaveToDB({sess[s].player}) /\ UNCHANGED <<players, last, stored, results>>
  BY DEF ForcePlayerLogoutDelay, world
<1> QED
  BY <1>1, <1>2, OneSave

(* So every step is of one of the kinds.                                   *)
LEMMA Kinds == IndInv /\ [Next]_vars => StepKinds
<1> SUFFICES ASSUME IndInv, [Next]_vars PROVE StepKinds
  OBVIOUS
<1>1. CASE \/ AddedAll \/ UpdateNothing \/ MapsDone \/ EndTick \/ StopNow \/ Shutdown
           \/ Halted \/ UNCHANGED vars
           \/ \E s \in Slots : SocketCloses(s) \/ HandleAuthSession(s)
  <2>1. UNCHANGED <<players, last, stored, results, pending>>
    BY <1>1 DEF AddedAll, UpdateNothing, MapsDone, EndTick, StopNow, Shutdown, Halted,
                SocketCloses, HandleAuthSession, vars, world, database
  <2> QED
    BY <2>1, QuietIsSave DEF StepKinds
<1>2. ASSUME NEW c \in Chars, SaveTimer(c) PROVE StepKinds
  <2>1. /\ players[c] # None /\ SaveToDB({c})
        /\ UNCHANGED <<players, last, stored, results>>
    BY <1>2 DEF SaveTimer, world
  <2> QED
    BY <2>1, OneSave DEF StepKinds
<1>3. ASSUME NEW c \in Chars, TeleportFar(c) PROVE StepKinds
  <2>1. players[c] \in Players
    BY <1>3 DEF TeleportFar, IndInv, TypeOK
  <2> DEFINE p == [players[c] EXCEPT !.inWorld = ~@]
  <2>2. /\ p \in Players /\ p.state = players[c].state
        /\ p.m_DbSaveDisabled <=> players[c].m_DbSaveDisabled
    BY <2>1 DEF Players
  <2>3. /\ players' = [players EXCEPT ![c] = p] /\ players[c] # None
        /\ UNCHANGED <<last, stored, results, pending>>
    BY <1>3 DEF TeleportFar, database
  <2> HIDE DEF p
  <2>4. \A d \in Chars : Stays(d)
    BY <2>2, <2>3 DEF Stays, IndInv, TypeOK
  <2>5. SaveStep({})
    BY <2>3, <2>4 DEF SaveStep, Leaves, Stays
  <2> QED
    BY <2>5 DEF StepKinds
<1>4. CASE AddSession
  <2>1. m_session # None => m_session \in Slots /\ sess[m_session] # None
    BY Living DEF IndInv, Ownership
  <2>2. CASE UNCHANGED <<world, database>>
    <3>1. UNCHANGED <<players, last, stored, results, pending>>
      BY <2>2 DEF world, database
    <3> QED
      BY <3>1, QuietIsSave DEF StepKinds
  <2>3. CASE m_session # None /\ Lingers(m_session) /\ ForcePlayerLogoutDelay(m_session)
    BY <2>1, <2>3, DelayIsSave DEF StepKinds
  <2>4. CASE m_session # None /\ LogoutPlayers({m_session})
    BY <2>1, <2>4, LogoutIsSave DEF StepKinds
  <2> QED
    BY <1>4, <2>2, <2>3, <2>4 DEF AddSession
<1>5. CASE LogoutRequest \/ DeleteSession
  <2>1. m_session \in Slots /\ sess[m_session] # None /\ LogoutPlayers({m_session})
    BY <1>5, Living DEF LogoutRequest, DeleteSession, IndInv, Ownership
  <2> QED
    BY <2>1, LogoutIsSave DEF StepKinds
<1>6. CASE SetSessionDisconnected
  <2>1. /\ m_session \in Slots /\ sess[m_session] # None
        /\ Lingers(m_session) /\ ForcePlayerLogoutDelay(m_session)
    BY <1>6, Living DEF SetSessionDisconnected, IndInv, Ownership
  <2> QED
    BY <2>1, DelayIsSave DEF StepKinds
<1>7. CASE UpdateDisconnected
  <2>1. PICK over \in SUBSET m_disconnectedSessions : LogoutPlayers(over)
    BY <1>7 DEF UpdateDisconnected, Ended
  <2>2. over \in SUBSET Slots /\ \A s \in over : sess[s] # None
    BY Living DEF IndInv, Ownership
  <2> QED
    BY <2>1, <2>2, LogoutIsSave DEF StepKinds
<1>8. CASE DropAnswer \/ LoginFails
  <2>1. /\ results # <<>> /\ results' = Tail(results)
        /\ UNCHANGED <<players, last, stored, pending>>
    BY <1>8 DEF DropAnswer, LoginFails, Expects, world
  <2> QED
    BY <2>1 DEF AnswerStep, Stays, StepKinds
<1>9. CASE TakeOver
  <2> DEFINE c == Answer.char
             p == [players[c] EXCEPT !.session = m_session]
  <2>1. c \in Chars /\ m_session \in Slots
    BY <1>9, AnswerIsTyped DEF TakeOver
  <2>2. /\ players[c] # None /\ results # <<>> /\ results' = Tail(results)
        /\ UNCHANGED <<last, stored, pending>> /\ players' = [players EXCEPT ![c] = p]
    BY <1>9 DEF TakeOver, Expects
  <2>3. players[c] \in Players
    BY <2>1, <2>2 DEF IndInv, TypeOK
  <2>4. /\ p \in Players /\ p.state = players[c].state
        /\ p.m_DbSaveDisabled <=> players[c].m_DbSaveDisabled
    BY <2>1, <2>3 DEF Players
  <2> HIDE DEF c, p
  <2>5. \A d \in Chars : Stays(d)
    BY <2>2, <2>4 DEF Stays, IndInv, TypeOK
  <2> QED
    BY <2>2, <2>5 DEF AnswerStep, StepKinds
<1>10. CASE \/ LoadFromDB
            \/ \E c \in Chars :
                 Play(c) \/ ChangeRace(c) \/ HandlePlayerLoginOpcode(c) \/ DelayThread(c)
  BY <1>10 DEF StepKinds
<1>11. ASSUME NEW c \in Chars, ChangeRaceFails(c) PROVE StepKinds
  <2>1. /\ players' = [players EXCEPT ![c] = None] /\ last' = [last EXCEPT ![c] = None]
        /\ players[c] # None /\ UNCHANGED <<stored, results, pending>>
    BY <1>11 DEF ChangeRaceFails, database
  <2>2. /\ players'[c] = None /\ last'[c] = None
        /\ \A d \in Chars \ {c} : players'[d] = players[d] /\ last'[d] = last[d]
    BY <2>1 DEF IndInv, TypeOK
  <2>3. SaveStep({})
    BY <2>1, <2>2 DEF SaveStep, Leaves, Stays
  <2> QED
    BY <2>3 DEF StepKinds
<1> QED
  BY <1>1, <1>2, <1>3, <1>4, <1>5, <1>6, <1>7, <1>8, <1>9, <1>10, <1>11
     DEF Next, UpdateSession, HandlePlayerLogin, Maps, Network

(* Every step keeps DataInv.                                               *)
LEMMA DataKept == IndInv /\ DataInv /\ [Next]_vars => DataInv'
  BY Kinds, SaveStepKeeps, AnswerStepKeeps, LoadKeeps, PlayKeeps, ChangeRaceKeeps,
     LoginKeeps, DelayKeeps DEF StepKinds

(* At the start nobody is in the world and nothing is queued.              *)
LEMMA DataInitially == Init => DataInv
<1> SUFFICES ASSUME Init PROVE DataInv
  OBVIOUS
<1>1. SavedInv
  BY DEF Init, SavedInv, LatestIn
<1>2. FreshLoads
  BY DEF Init, FreshLoads
<1>3. FreshAnswers
  BY DEF Init, FreshAnswers
<1> QED
  BY <1>1, <1>2, <1>3 DEF DataInv

(* DataInv holds in every state of every behaviour.                        *)
LEMMA DataAlways == Spec => []DataInv
  BY DataInitially, DataKept, Always, PTL DEF Spec

(* When a character has left the world (by logout, kick, relog, lost       *)
(* client or the end of UpdateDisconnected's time), between two maps and   *)
(* after its race change too, its last state is stored or queued to be     *)
(* stored last.  Excepted are the states that the code refuses to save: of *)
(* a character that plays on after its race change, of one that            *)
(* LogoutPlayer cannot bring back to a map, and of a failed race change.   *)
THEOREM WhoLeavesIsSaved == Spec => []LeavesSaved
<1>1. IndInv /\ DataInv => LeavesSaved
  BY LatestIsSaved DEF IndInv, DataInv, SavedInv, LeavesSaved
<1> QED
  BY <1>1, Always, DataAlways, PTL

(* HandlePlayerLogin of a login that was alone when it was queued puts the *)
(* character into the world as it last was, however many sessions, saves   *)
(* and other logins came between the query and its answer, unless that     *)
(* state was refused.                                                      *)
THEOREM LoginIsFresh == Spec => LoginFindsLastState
<1>1. ASSUME IndInv, DataInv, [Next]_vars, NEW c \in Chars,
             players[c] = None, players'[c] # None, Answer.alone, last[c] # None
      PROVE  players'[c].state = last[c]
  <2>1. LoadFromDB
    <3>1. StepKinds
      BY <1>1, Kinds
    <3>2. \A G : ~SaveStep(G)
      BY <1>1 DEF SaveStep, Leaves, Stays
    <3>3. ~AnswerStep
      BY <1>1 DEF AnswerStep, Stays
    <3>4. ASSUME NEW d \in Chars, Play(d) PROVE FALSE
      BY <1>1, <3>4 DEF Play, IndInv, TypeOK
    <3>5. ASSUME NEW d \in Chars, HandlePlayerLoginOpcode(d) \/ DelayThread(d) PROVE FALSE
      BY <1>1, <3>5 DEF HandlePlayerLoginOpcode, DelayThread, world
    <3>6. ASSUME NEW d \in Chars, ChangeRace(d) PROVE FALSE
      BY <1>1, <3>6 DEF ChangeRace, IndInv, TypeOK
    <3> QED
      BY <3>1, <3>2, <3>3, <3>4, <3>5, <3>6 DEF StepKinds
  <2>2. c = Answer.char
    BY <1>1, <2>1 DEF LoadFromDB, IndInv, TypeOK
  <2>3. Answer \in Holders /\ Answer.state \in Nat /\ m_session \in Slots
    BY <1>1, <2>1, AnswerIsTyped DEF LoadFromDB
  <2>4. players'[c].state = Answer.state
    <3> DEFINE p == [session |-> m_session, inWorld |-> TRUE,
                     m_DbSaveDisabled |-> FALSE, state |-> Answer.state]
    <3>1. players' = [players EXCEPT ![c] = p] /\ p.state = Answer.state
      BY <2>1, <2>2 DEF LoadFromDB
    <3> HIDE DEF p
    <3> QED
      BY <1>1, <3>1 DEF IndInv, TypeOK
  <2>5. results # <<>> /\ results' = Tail(results)
    BY <2>1 DEF LoadFromDB, Expects
  <2>6. 1 \in 1 .. Len(results) /\ Answer = results[1]
    BY <1>1, <2>5, Answered DEF Answer
  <2>7. results[1].state = last[results[1].char]
    BY <1>1, <2>2, <2>6 DEF DataInv, FreshAnswers
  <2> QED
    BY <2>2, <2>4, <2>6, <2>7
<1>2. IndInv /\ DataInv /\ [Next]_vars =>
        [\A c \in Chars :
            players[c] = None /\ players'[c] # None /\ Answer.alone /\ last[c] # None
                => players'[c].state = last[c]]_vars
  BY <1>1
<1> QED
  BY <1>2, Always, DataAlways, PTL DEF Spec, LoginFindsLastState

-----------------------------------------------------------------------------
(* A session that loads is answered. *)

(* A login is queued or its answer is on its way. *)
LoginUnderway ==
    \/ results # <<>>
    \/ \E c \in Chars : \E k \in 1 .. Len(pending[c]) : pending[c][k].op = "load"

(* A new session does not load before AddSession_; the session of the      *)
(* account loads only while a login is under way.                          *)
LoadInv ==
    /\ m_session # None /\ sess[m_session].loading => LoginUnderway
    /\ \A k \in 1 .. Len(addSessQueue) : ~sess[addSessQueue[k]].loading

(* No session begins to load, and the session of the account stays, goes   *)
(* or comes from addSessQueue.                                             *)
NobodyLoads ==
    /\ \A s \in Slots : sess'[s] # None /\ sess'[s].loading =>
          sess[s] # None /\ sess[s].loading
    /\ \/ m_session' \in {m_session, None}
       \/ \E k \in 1 .. Len(addSessQueue) : m_session' = addSessQueue[k]
    /\ \A k \in 1 .. Len(addSessQueue') :
          \/ \E j \in 1 .. Len(addSessQueue) : addSessQueue'[k] = addSessQueue[j]
          \/ ~sess'[addSessQueue'[k]].loading

(* Every step but the request to log in is such a step. *)
LEMMA OnlyOpcodeLoads ==
    ASSUME IndInv, [Next]_vars, \A c \in Chars : ~HandlePlayerLoginOpcode(c)
    PROVE  NobodyLoads
<1>1. /\ sess \in [Slots -> Sessions \cup {None}] /\ addSessQueue \in Seq(Slots)
      /\ Len(addSessQueue) \in Nat
      /\ m_session # None => m_session \in Slots /\ sess[m_session] \in Sessions
                             /\ sess[m_session] # None
      /\ None \notin Sessions
  BY PlayerAssumption, Living DEF IndInv, TypeOK, Ownership
<1>2. ASSUME NEW s \in Slots, NEW r, sess' = [sess EXCEPT ![s] = r],
             r # None /\ r.loading => sess[s] # None /\ sess[s].loading
      PROVE  \A t \in Slots : sess'[t] # None /\ sess'[t].loading =>
                sess[t] # None /\ sess[t].loading
  BY <1>1, <1>2
<1>3. ASSUME NEW r \in Sessions
      PROVE  /\ [r EXCEPT !.open = FALSE].loading = r.loading
             /\ [r EXCEPT !.loading = FALSE].loading = FALSE
             /\ [r EXCEPT !.player = None].loading = r.loading
             /\ \A t : [r EXCEPT !.timer = t].loading = r.loading
             /\ \A t : [r EXCEPT !.open = FALSE, !.timer = t].loading = r.loading
             /\ [r EXCEPT !.open = FALSE, !.loading = FALSE].loading = FALSE
             /\ \A c : [r EXCEPT !.player = c, !.loading = FALSE].loading = FALSE
  BY DEF Sessions
<1>4. ASSUME addSessQueue' = addSessQueue
      PROVE  \A k \in 1 .. Len(addSessQueue') :
                \E j \in 1 .. Len(addSessQueue) : addSessQueue'[k] = addSessQueue[j]
  BY <1>4
<1>5. CASE \/ AddedAll \/ UpdateNothing \/ MapsDone \/ EndTick \/ StopNow
           \/ Halted \/ UNCHANGED vars
           \/ \E c \in Chars : Play(c) \/ SaveTimer(c) \/ TeleportFar(c) \/ DelayThread(c)
  <2>1. UNCHANGED <<sess, addSessQueue, m_session>>
    BY <1>5 DEF AddedAll, UpdateNothing, MapsDone, EndTick, StopNow, Halted, Play,
                SaveTimer, TeleportFar, DelayThread, vars, tables
  <2> QED
    BY <2>1 DEF NobodyLoads
<1>6. ASSUME NEW s \in Slots, SocketCloses(s) PROVE NobodyLoads
  <2>1. /\ sess[s] \in Sessions /\ sess' = [sess EXCEPT ![s] = [sess[s] EXCEPT !.open = FALSE]]
        /\ UNCHANGED <<addSessQueue, m_session>>
    BY <1>1, <1>6 DEF SocketCloses
  <2> QED
    BY <1>1, <1>2, <1>3, <1>4, <2>1 DEF NobodyLoads
<1>7. CASE Shutdown
  <2>1. UNCHANGED <<addSessQueue, m_session>>
    BY <1>7 DEF Shutdown
  <2>2. CASE m_session = None
    <3>1. sess' = sess
      BY <1>7, <2>2 DEF Shutdown
    <3> QED
      BY <1>4, <2>1, <3>1 DEF NobodyLoads
  <2>3. CASE m_session # None
    <3>1. sess' = [sess EXCEPT ![m_session] = [sess[m_session] EXCEPT !.open = FALSE]]
      BY <1>7, <2>3 DEF Shutdown
    <3> QED
      BY <1>1, <1>2, <1>3, <1>4, <2>1, <2>3, <3>1 DEF NobodyLoads
  <2> QED
    BY <2>2, <2>3
<1>8. ASSUME NEW s \in Slots, HandleAuthSession(s) PROVE NobodyLoads
  <2> DEFINE r == [open |-> TRUE, loading |-> FALSE, player |-> None, timer |-> 0]
  <2>1. /\ sess' = [sess EXCEPT ![s] = r] /\ ~r.loading /\ m_session' = m_session
        /\ addSessQueue' = Append(addSessQueue, s)
    BY <1>8 DEF HandleAuthSession
  <2> HIDE DEF r
  <2>2. ~sess'[s].loading
    BY <1>1, <2>1
  <2>3. \A k \in 1 .. Len(addSessQueue') :
           \/ k \in 1 .. Len(addSessQueue) /\ addSessQueue'[k] = addSessQueue[k]
           \/ addSessQueue'[k] = s
    BY <1>1, <2>1
  <2>4. \A t \in Slots : sess'[t] # None /\ sess'[t].loading => sess[t] # None /\ sess[t].loading
    BY <1>2, <2>1
  <2> QED
    BY <2>1, <2>2, <2>3, <2>4 DEF NobodyLoads
<1>9. CASE AddSession
  <2> DEFINE s == Head(addSessQueue)
  <2>1. addSessQueue # <<>> /\ addSessQueue' = Tail(addSessQueue)
    BY <1>9 DEF AddSession
  <2>2. /\ 1 \in 1 .. Len(addSessQueue) /\ s = addSessQueue[1] /\ s \in Slots
        /\ \A k \in 1 .. Len(addSessQueue') : k + 1 \in 1 .. Len(addSessQueue)
                                              /\ addSessQueue'[k] = addSessQueue[k + 1]
    BY <1>1, <2>1
  <2>3. m_session' = m_session \/ m_session' = s
    BY <1>9 DEF AddSession
  <2>4. \/ sess' = sess
        \/ sess' = [sess EXCEPT ![s] = None]
        \/ /\ m_session # None
           /\ \/ sess' = [sess EXCEPT ![m_session] =
                            [sess[m_session] EXCEPT !.open = FALSE, !.timer = LogoutTicks]]
              \/ sess' = [sess EXCEPT ![m_session] = None]
    BY <1>1, <1>9 DEF AddSession
  <2> HIDE DEF s
  <2>5. \A t \in Slots : sess'[t] # None /\ sess'[t].loading => sess[t] # None /\ sess[t].loading
    <3>1. CASE sess' = sess
      BY <3>1
    <3>2. CASE sess' = [sess EXCEPT ![s] = None]
      BY <1>2, <2>2, <3>2
    <3>3. CASE m_session # None /\ sess' = [sess EXCEPT ![m_session] = None]
      BY <1>1, <1>2, <3>3
    <3>4. CASE m_session # None /\ sess' = [sess EXCEPT ![m_session] =
                            [sess[m_session] EXCEPT !.open = FALSE, !.timer = LogoutTicks]]
      BY <1>1, <1>2, <1>3, <3>4
    <3> QED
      BY <2>4, <3>1, <3>2, <3>3, <3>4
  <2> QED
    BY <2>2, <2>3, <2>5 DEF NobodyLoads
<1>10. CASE LogoutRequest \/ SetSessionDisconnected \/ DeleteSession
  <2>1. /\ m_session \in Slots /\ sess[m_session] \in Sessions /\ sess[m_session] # None
        /\ addSessQueue' = addSessQueue /\ m_session' \in {m_session, None}
    BY <1>1, <1>10 DEF LogoutRequest, SetSessionDisconnected, DeleteSession, IndInv, Ownership
  <2>2. \/ sess' = [sess EXCEPT ![m_session] = [sess[m_session] EXCEPT !.player = None]]
        \/ sess' = [sess EXCEPT ![m_session] = [sess[m_session] EXCEPT !.timer = LogoutTicks]]
        \/ sess' = [sess EXCEPT ![m_session] = None]
    BY <1>10 DEF LogoutRequest, SetSessionDisconnected, DeleteSession
  <2>3. \A t \in Slots : sess'[t] # None /\ sess'[t].loading => sess[t] # None /\ sess[t].loading
    <3>1. CASE sess' = [sess EXCEPT ![m_session] = [sess[m_session] EXCEPT !.player = None]]
      BY <1>2, <1>3, <2>1, <3>1
    <3>2. CASE sess' = [sess EXCEPT ![m_session] = [sess[m_session] EXCEPT !.timer = LogoutTicks]]
      BY <1>2, <1>3, <2>1, <3>2
    <3>3. CASE sess' = [sess EXCEPT ![m_session] = None]
      BY <1>2, <2>1, <3>3
    <3> QED
      BY <2>2, <3>1, <3>2, <3>3
  <2> QED
    BY <1>4, <2>1, <2>3 DEF NobodyLoads
<1>11. CASE UpdateDisconnected
  <2>1. addSessQueue' = addSessQueue /\ m_session' = m_session
    BY <1>11 DEF UpdateDisconnected
  <2>2. PICK over \in Ended : sess' = [s \in Slots |->
            CASE s \in over -> None
              [] s \in m_disconnectedSessions \ over ->
                    [sess[s] EXCEPT !.timer = Remaining(@)]
              [] OTHER -> sess[s]]
    BY <1>11 DEF UpdateDisconnected
  <2>3. ASSUME NEW t \in Slots, sess'[t] # None, sess'[t].loading
        PROVE  sess[t] # None /\ sess[t].loading
    <3>1. CASE t \in over
      BY <2>2, <2>3, <3>1
    <3>2. CASE t \in m_disconnectedSessions \ over
      <4>1. sess[t] # None /\ sess[t] \in Sessions
        BY <1>1, <3>2 DEF IndInv, Ownership
      <4>2. sess'[t] = [sess[t] EXCEPT !.timer = Remaining(sess[t].timer)]
        BY <2>2, <3>2
      <4> QED
        BY <1>3, <2>3, <4>1, <4>2
    <3>3. CASE t \notin over /\ t \notin m_disconnectedSessions
      BY <2>2, <2>3, <3>3
    <3> QED
      BY <3>1, <3>2, <3>3
  <2> QED
    BY <1>4, <2>1, <2>3 DEF NobodyLoads
<1>12. CASE DropAnswer \/ TakeOver \/ LoadFromDB \/ LoginFails
  <2>1. UNCHANGED <<addSessQueue, m_session>>
    BY <1>12 DEF DropAnswer, TakeOver, LoadFromDB, LoginFails
  <2>2. ASSUME NEW t \in Slots, sess'[t] # None, sess'[t].loading
        PROVE  sess[t] # None /\ sess[t].loading
    <3>1. CASE sess' = sess
      BY <2>2, <3>1
    <3>2. ASSUME m_session # None, NEW r, ~r.loading, sess' = [sess EXCEPT ![m_session] = r]
          PROVE  sess[t] # None /\ sess[t].loading
      <4>1. m_session \in Slots /\ (r # None /\ r.loading =>
                                     sess[m_session] # None /\ sess[m_session].loading)
        BY <1>1, <3>2
      <4> QED
        BY <1>2, <2>2, <3>2, <4>1
    <3>3. CASE TakeOver
      <4> DEFINE c == Answer.char
                 u == players[c].session
                 ss == Released(c)
      <4>1. /\ c \in Chars /\ m_session \in Slots /\ players[c] # None
            /\ u \in Slots /\ sess[u] \in Sessions
        BY <3>3, AnswerIsTyped, Living DEF TakeOver
      <4>2. /\ ss = [sess EXCEPT ![u] = [sess[u] EXCEPT !.player = None]]
            /\ sess' = [ss EXCEPT ![m_session] =
                          [ss[m_session] EXCEPT !.player = c, !.loading = FALSE]]
        BY <3>3 DEF TakeOver, Released
      <4> HIDE DEF c, u, ss
      <4>3. ss \in [Slots -> Sessions \cup {None}] /\ ss[m_session] \in Sessions
        <5>1. [sess[u] EXCEPT !.player = None] \in Sessions
          BY <4>1 DEF Sessions
        <5>2. sess[m_session] \in Sessions
          BY <3>3, AnswerIsTyped DEF TakeOver
        <5> QED
          BY <1>1, <4>1, <4>2, <5>1, <5>2
      <4>4. sess'[m_session].loading = FALSE
        BY <1>3, <4>1, <4>2, <4>3
      <4>5. t # m_session
        BY <2>2, <4>4
      <4>6. sess'[t] = ss[t]
        BY <4>2, <4>3, <4>5
      <4>7. CASE t = u
        <5>1. sess'[t] = [sess[u] EXCEPT !.player = None]
          BY <1>1, <4>1, <4>2, <4>6, <4>7
        <5>2. sess'[t].loading = sess[u].loading
          BY <1>3, <4>1, <5>1
        <5> QED
          BY <1>1, <2>2, <4>1, <4>7, <5>2
      <4>8. CASE t # u
        BY <1>1, <2>2, <4>2, <4>6, <4>8
      <4> QED
        BY <4>7, <4>8
    <3>4. CASE DropAnswer /\ m_session # None
      <4>1. sess' = [sess EXCEPT ![m_session] = [sess[m_session] EXCEPT !.loading = FALSE]]
        BY <3>4 DEF DropAnswer
      <4> QED
        BY <1>1, <1>3, <3>2, <3>4, <4>1
    <3>5. CASE LoginFails
      <4>1. /\ sess' = [sess EXCEPT ![m_session] =
                          [sess[m_session] EXCEPT !.open = FALSE, !.loading = FALSE]]
            /\ m_session # None
        BY <3>5 DEF LoginFails, Expects
      <4> QED
        BY <1>1, <1>3, <3>2, <4>1
    <3>6. CASE LoadFromDB
      <4>1. /\ sess' = [sess EXCEPT ![m_session] =
                          [sess[m_session] EXCEPT !.player = Answer.char, !.loading = FALSE]]
            /\ m_session # None
        BY <3>6 DEF LoadFromDB, Expects
      <4> QED
        BY <1>1, <1>3, <3>2, <4>1, ZenonT(40)
    <3>7. CASE DropAnswer /\ m_session = None
      BY <3>1, <3>7 DEF DropAnswer
    <3> QED
      BY <1>12, <3>3, <3>4, <3>5, <3>6, <3>7
  <2> QED
    BY <1>4, <2>1, <2>2 DEF NobodyLoads
<1>13. ASSUME NEW c \in Chars, ChangeRace(c) \/ ChangeRaceFails(c) PROVE NobodyLoads
  <2> DEFINE t == players[c].session
  <2>1. t \in Slots /\ sess[t] \in Sessions /\ sess[t] # None
    BY <1>1, <1>13, Living DEF ChangeRace, ChangeRaceFails, IndInv, PlayerHasItsSession
  <2>2. /\ UNCHANGED <<addSessQueue, m_session>>
        /\ \/ sess' = [sess EXCEPT ![t] = [sess[t] EXCEPT !.open = FALSE]]
           \/ sess' = [sess EXCEPT ![t] = [sess[t] EXCEPT !.player = None]]
    BY <1>13 DEF ChangeRace, ChangeRaceFails
  <2> HIDE DEF t
  <2>3. \A u \in Slots : sess'[u] # None /\ sess'[u].loading => sess[u] # None /\ sess[u].loading
    <3>1. CASE sess' = [sess EXCEPT ![t] = [sess[t] EXCEPT !.open = FALSE]]
      BY <1>2, <1>3, <2>1, <3>1
    <3>2. CASE sess' = [sess EXCEPT ![t] = [sess[t] EXCEPT !.player = None]]
      BY <1>2, <1>3, <2>1, <3>2
    <3> QED
      BY <2>2, <3>1, <3>2
  <2> QED
    BY <1>4, <2>2, <2>3 DEF NobodyLoads
<1> QED
  BY <1>5, <1>6, <1>7, <1>8, <1>9, <1>10, <1>11, <1>12, <1>13
     DEF Next, UpdateSession, HandlePlayerLogin, Maps, Network

(* A login that is under way stays so until its answer is taken.           *)
LEMMA UnderwayStays ==
    ASSUME IndInv, LoginUnderway,
           \/ \E G \in SUBSET Chars : SaveStep(G)
           \/ \E c \in Chars : Play(c) \/ ChangeRace(c) \/ DelayThread(c)
    PROVE  LoginUnderway'
<1>1. /\ results \in Seq(Holders)
      /\ \A c \in Chars : pending[c] \in Seq(Saves \cup Loads) /\ Len(pending[c]) \in Nat
  BY DEF IndInv, TypeOK
<1>2. ASSUME NEW G \in SUBSET Chars, SaveStep(G) PROVE LoginUnderway'
  <2>1. CASE results # <<>>
    BY <1>2, <2>1 DEF SaveStep, LoginUnderway
  <2>2. ASSUME NEW c \in Chars, NEW k \in 1 .. Len(pending[c]), pending[c][k].op = "load"
        PROVE  LoginUnderway'
    <3>1. CASE c \notin G
      <4>1. pending'[c] = pending[c]
        BY <1>2, <3>1 DEF SaveStep
      <4> QED
        BY <2>2, <4>1 DEF LoginUnderway
    <3>2. CASE c \in G
      <4>1. PICK o : o = [op |-> "save", state |-> players[c].state]
        OBVIOUS
      <4>2. pending'[c] = Append(pending[c], o) /\ o \in Saves
        BY <1>2, <3>2, <4>1 DEF SaveStep, IndInv, TypeOK, Players, Saves
      <4>3. k \in 1 .. Len(pending'[c]) /\ pending'[c][k] = pending[c][k]
        BY <1>1, <4>2
      <4> QED
        BY <2>2, <4>3 DEF LoginUnderway
    <3> QED
      BY <3>1, <3>2
  <2> QED
    BY <2>1, <2>2 DEF LoginUnderway
<1>3. ASSUME NEW d \in Chars, Play(d) PROVE LoginUnderway'
  BY <1>3 DEF Play, database, LoginUnderway
<1>4. ASSUME NEW d \in Chars, DelayThread(d) PROVE LoginUnderway'
  <2> DEFINE o == Head(pending[d])
  <2>1. /\ pending[d] # <<>> /\ pending' = [pending EXCEPT ![d] = Tail(pending[d])]
        /\ o.op = "save" => results' = results
        /\ o.op # "save" => \E r : results' = Append(results, r)
    BY <1>4 DEF DelayThread
  <2>2. /\ o = pending[d][1] /\ Tail(pending[d]) \in Seq(Saves \cup Loads)
        /\ Len(Tail(pending[d])) = Len(pending[d]) - 1
        /\ \A j \in 1 .. Len(Tail(pending[d])) : Tail(pending[d])[j] = pending[d][j + 1]
    BY <1>1, <2>1
  <2> HIDE DEF o
  <2>3. CASE o.op # "save"
    <3>1. results' # <<>>
      BY <1>1, <2>1, <2>3
    <3> QED
      BY <3>1 DEF LoginUnderway
  <2>4. CASE o.op = "save" /\ results # <<>>
    BY <2>1, <2>4 DEF LoginUnderway
  <2>5. ASSUME o.op = "save", NEW c \in Chars, NEW k \in 1 .. Len(pending[c]),
               pending[c][k].op = "load"
        PROVE  LoginUnderway'
    <3>1. CASE c # d
      <4>1. pending'[c] = pending[c]
        BY <2>1, <3>1 DEF IndInv, TypeOK
      <4> QED
        BY <2>5, <4>1 DEF LoginUnderway
    <3>2. CASE c = d
      <4>1. k # 1
        BY <2>2, <2>5, <3>2
      <4>2. pending'[d] = Tail(pending[d])
        BY <2>1 DEF IndInv, TypeOK
      <4>3. k - 1 \in 1 .. Len(Tail(pending[d])) /\ (k - 1) + 1 = k
        BY <1>1, <2>2, <3>2, <4>1
      <4>4. pending'[d][k - 1].op = "load"
        BY <2>2, <2>5, <3>2, <4>2, <4>3
      <4> QED
        BY <4>2, <4>3, <4>4 DEF LoginUnderway
    <3> QED
      BY <3>1, <3>2
  <2> QED
    BY <2>3, <2>4, <2>5 DEF LoginUnderway
<1>5. ASSUME NEW d \in Chars, ChangeRace(d) PROVE LoginUnderway'
  <2>1. PICK o : o = [op |-> "save", state |-> changes + 1]
    OBVIOUS
  <2>2. o \in Saves
    BY <2>1 DEF Saves, IndInv, TypeOK
  <2>3. pending' = [pending EXCEPT ![d] = Append(pending[d], o)] /\ results' = results
    BY <1>5, <2>1 DEF ChangeRace
  <2>4. /\ pending'[d] = Append(pending[d], o)
        /\ \A c \in Chars \ {d} : pending'[c] = pending[c]
    BY <2>3 DEF IndInv, TypeOK
  <2>5. \A k \in 1 .. Len(pending[d]) :
            k \in 1 .. Len(pending'[d]) /\ pending'[d][k] = pending[d][k]
    BY <1>1, <2>2, <2>4
  <2> QED
    BY <2>3, <2>4, <2>5 DEF LoginUnderway
<1> QED
  BY <1>2, <1>3, <1>4, <1>5

(* The answer ends the loading of the session the account has. *)
LEMMA AnswerEndsLoading ==
    ASSUME IndInv, DropAnswer \/ TakeOver \/ LoadFromDB \/ LoginFails
    PROVE  m_session' # None => ~sess'[m_session'].loading
<1> SUFFICES ASSUME m_session # None PROVE ~sess'[m_session].loading
  BY DEF DropAnswer, TakeOver, LoadFromDB, LoginFails
<1>1. m_session \in Slots /\ sess[m_session] \in Sessions
      /\ sess \in [Slots -> Sessions \cup {None}]
  BY Living DEF IndInv, TypeOK
<1>2. ASSUME NEW r \in Sessions
      PROVE  /\ ~[r EXCEPT !.loading = FALSE].loading
             /\ ~[r EXCEPT !.open = FALSE, !.loading = FALSE].loading
             /\ \A c : ~[r EXCEPT !.player = c, !.loading = FALSE].loading
  BY DEF Sessions
<1>3. ASSUME NEW ss \in [Slots -> Sessions \cup {None}], NEW r,
             sess' = [ss EXCEPT ![m_session] = r], ~r.loading
      PROVE  ~sess'[m_session].loading
  BY <1>1, <1>3
<1>4. CASE DropAnswer
  <2>1. sess' = [sess EXCEPT ![m_session] = [sess[m_session] EXCEPT !.loading = FALSE]]
    BY <1>4 DEF DropAnswer
  <2> QED
    BY <1>1, <1>2, <1>3, <2>1
<1>5. CASE LoginFails
  <2>1. sess' = [sess EXCEPT ![m_session] =
                   [sess[m_session] EXCEPT !.open = FALSE, !.loading = FALSE]]
    BY <1>5 DEF LoginFails
  <2> QED
    BY <1>1, <1>2, <1>3, <2>1
<1>6. CASE LoadFromDB
  <2>1. sess' = [sess EXCEPT ![m_session] =
                   [sess[m_session] EXCEPT !.player = Answer.char, !.loading = FALSE]]
    BY <1>6 DEF LoadFromDB
  <2> QED
    BY <1>1, <1>2, <1>3, <2>1
<1>7. CASE TakeOver
  <2> DEFINE c == Answer.char
             u == players[c].session
             ss == Released(c)
  <2>1. u \in Slots /\ sess[u] \in Sessions
    BY <1>7, AnswerIsTyped, Living DEF TakeOver
  <2>2. /\ ss = [sess EXCEPT ![u] = [sess[u] EXCEPT !.player = None]]
        /\ sess' = [ss EXCEPT ![m_session] =
                      [ss[m_session] EXCEPT !.player = c, !.loading = FALSE]]
    BY <1>7 DEF TakeOver, Released
  <2> HIDE DEF c, u, ss
  <2>3. [sess[u] EXCEPT !.player = None] \in Sessions
    BY <2>1 DEF Sessions
  <2>4. ss \in [Slots -> Sessions \cup {None}] /\ ss[m_session] \in Sessions
    BY <1>1, <2>1, <2>2, <2>3
  <2> QED
    BY <1>1, <1>2, <1>3, <2>2, <2>4
<1> QED
  BY <1>4, <1>5, <1>6, <1>7

(* Every step keeps LoadInv. *)
LEMMA LoadKept == IndInv /\ IndInv' /\ LoadInv /\ [Next]_vars => LoadInv'
<1> SUFFICES ASSUME IndInv, IndInv', LoadInv, [Next]_vars PROVE LoadInv'
  OBVIOUS
<1>1. /\ \A k \in 1 .. Len(addSessQueue) : addSessQueue[k] \in Slots
      /\ \A k \in 1 .. Len(addSessQueue') :
            addSessQueue'[k] \in Slots /\ sess'[addSessQueue'[k]] # None
      /\ m_session' # None => m_session' \in Slots /\ sess'[m_session'] # None
  <2>1. addSessQueue \in Seq(Slots) /\ addSessQueue' \in Seq(Slots)
        /\ m_session' \in Slots \cup {None}
    BY DEF IndInv, TypeOK
  <2> QED
    BY <2>1 DEF IndInv, Ownership
<1>2. CASE \A c \in Chars : ~HandlePlayerLoginOpcode(c)
  <2>1. NobodyLoads
    BY <1>2, OnlyOpcodeLoads
  <2>2. ASSUME NEW k \in 1 .. Len(addSessQueue') PROVE ~sess'[addSessQueue'[k]].loading
    BY <1>1, <2>1 DEF NobodyLoads, LoadInv
  <2>3. ASSUME m_session' # None, sess'[m_session'].loading PROVE LoginUnderway'
    <3>1. sess[m_session'].loading
      BY <1>1, <2>1, <2>3 DEF NobodyLoads
    <3>2. m_session' = m_session
      BY <2>1, <2>3, <3>1 DEF NobodyLoads, LoadInv
    <3>3. LoginUnderway
      BY <2>3, <3>1, <3>2 DEF LoadInv
    <3>4. ~(DropAnswer \/ TakeOver \/ LoadFromDB \/ LoginFails)
      BY <2>3, AnswerEndsLoading
    <3>5. StepKinds
      BY Kinds
    <3>6. ~AnswerStep
      <4> SUFFICES ASSUME AnswerStep PROVE FALSE
        OBVIOUS
      <4>1. results \in Seq(Holders) /\ results # <<>> /\ results' = Tail(results)
            /\ pending' = pending
        BY DEF AnswerStep, IndInv, TypeOK
      <4>2. Len(results') = Len(results) - 1 /\ Len(results) \in Nat
        BY <4>1
      <4>3. results' # results
        BY <4>2
      <4>4. ~(AddedAll \/ UpdateNothing \/ MapsDone \/ EndTick \/ StopNow \/ Shutdown
              \/ Halted \/ UNCHANGED vars)
        BY <4>3 DEF AddedAll, UpdateNothing, MapsDone, EndTick, StopNow, Shutdown, Halted,
                    vars, database
      <4>5. ~(AddSession \/ LogoutRequest \/ SetSessionDisconnected \/ DeleteSession
              \/ UpdateDisconnected)
        BY <4>3 DEF AddSession, LogoutRequest, SetSessionDisconnected, DeleteSession,
                    UpdateDisconnected, LogoutPlayers, ForcePlayerLogoutDelay, database
      <4>6. \A d \in Chars : ~(Play(d) \/ SaveTimer(d) \/ TeleportFar(d)
                                \/ ChangeRace(d) \/ ChangeRaceFails(d))
        BY <4>3 DEF Play, SaveTimer, TeleportFar, ChangeRace, ChangeRaceFails, database
      <4>7. \A s \in Slots : ~(HandleAuthSession(s) \/ SocketCloses(s))
        BY <4>3 DEF HandleAuthSession, SocketCloses, database
      <4>8. ASSUME NEW d \in Chars, DelayThread(d) PROVE FALSE
        <5>1. /\ pending[d] \in Seq(Saves \cup Loads) /\ pending[d] # <<>>
              /\ pending'[d] = Tail(pending[d])
          BY <4>8 DEF DelayThread, IndInv, TypeOK
        <5>2. Len(pending'[d]) = Len(pending[d]) - 1 /\ Len(pending[d]) \in Nat
          BY <5>1
        <5> QED
          BY <4>1, <5>2
      <4> QED
        BY <1>2, <3>4, <4>4, <4>5, <4>6, <4>7, <4>8
           DEF Next, UpdateSession, HandlePlayerLogin, Maps, Network
    <3> QED
      BY <1>2, <3>3, <3>4, <3>5, <3>6, UnderwayStays DEF StepKinds
  <2> QED
    BY <2>2, <2>3 DEF LoadInv
<1>3. ASSUME NEW c \in Chars, HandlePlayerLoginOpcode(c) PROVE LoadInv'
  <2>1. PICK o : o = [op |-> "load", alone |-> Alone(c)]
    OBVIOUS
  <2>2. /\ pending' = [pending EXCEPT ![c] = Append(pending[c], o)] /\ o.op = "load"
        /\ addSessQueue' = addSessQueue
    BY <1>3, <2>1 DEF HandlePlayerLoginOpcode, QueueLogin
  <2>3. /\ pending[c] \in Seq(Saves \cup Loads) /\ pending \in [Chars -> Seq(Saves \cup Loads)]
        /\ Len(pending[c]) \in Nat
    BY SMTT(30) DEF IndInv, TypeOK
  <2>4. /\ pending'[c] = Append(pending[c], o)
        /\ Len(pending[c]) + 1 \in 1 .. Len(pending'[c])
        /\ pending'[c][Len(pending[c]) + 1] = o
    BY <2>2, <2>3
  <2>5. LoginUnderway'
    BY <2>2, <2>4 DEF LoginUnderway
  <2>6. \A k \in 1 .. Len(addSessQueue) : sess'[addSessQueue[k]] = sess[addSessQueue[k]]
    BY <1>1, <1>3 DEF HandlePlayerLoginOpcode, IndInv, Ownership, TypeOK
  <2> QED
    BY <2>2, <2>5, <2>6 DEF LoadInv
<1> QED
  BY <1>2, <1>3

(* Logins counts the logins under way. *)
LEMMA LoginsCounted == IndInv /\ LoginUnderway => Logins > 0
<1> SUFFICES ASSUME IndInv, LoginUnderway PROVE Logins > 0
  OBVIOUS
<1>1. results \in Seq(Holders) /\ \A c \in Chars : Len(pending[c]) \in Nat
  BY DEF IndInv, TypeOK
<1> DEFINE K(c) == {i \in 1 .. Len(pending[c]) : pending[c][i].op = "load"}
           P(c) == {<<c, k>> : k \in K(c)}
           F == [c \in Chars |-> P(c)]
<1>2. ASSUME NEW c \in Chars PROVE IsFiniteSet(P(c))
  <2>1. IsFiniteSet(1 .. Len(pending[c]))
    BY <1>1, FS_Interval
  <2>2. IsFiniteSet(K(c))
    <3>1. K(c) \subseteq 1 .. Len(pending[c])
      OBVIOUS
    <3> HIDE DEF K
    <3> QED
      BY <2>1, <3>1, FS_Subset
  <2> DEFINE f == [k \in K(c) |-> <<c, k>>]
  <2> HIDE DEF K
  <2>3. f \in Surjection(K(c), P(c))
    BY DEF Surjection
  <2> HIDE DEF f, P
  <2> QED
    BY <2>2, <2>3, FS_Surjection
<1>3. IsFiniteSet({P(c) : c \in Chars})
  <2> HIDE DEF P
  <2>1. F \in Surjection(Chars, {P(c) : c \in Chars})
    BY DEF Surjection
  <2>2. IsFiniteSet(Chars)
    BY PlayerAssumption
  <2> HIDE DEF F
  <2> QED
    BY <2>1, <2>2, FS_Surjection
<1>4. QueuedLogins = UNION {P(c) : c \in Chars}
  BY DEF QueuedLogins
<1>5. results # <<>> \/ QueuedLogins # {}
  <2> SUFFICES ASSUME NEW c \in Chars, NEW k \in 1 .. Len(pending[c]),
                      pending[c][k].op = "load"
               PROVE  QueuedLogins # {}
    BY DEF LoginUnderway
  <2>1. <<c, k>> \in P(c)
    OBVIOUS
  <2> HIDE DEF P
  <2> QED
    BY <1>4, <2>1
<1> HIDE DEF P, K, F
<1>6. IsFiniteSet(QueuedLogins)
  BY <1>2, <1>3, <1>4, FS_UNION
<1>7. Cardinality(QueuedLogins) \in Nat /\ (QueuedLogins # {} => Cardinality(QueuedLogins) # 0)
  BY <1>6, FS_CardinalityType, FS_EmptySet
<1>8. Len(results) \in Nat /\ (results # <<>> => Len(results) # 0)
  BY <1>1
<1>9. \A x, y \in Nat : x # 0 \/ y # 0 => x + y > 0
  OBVIOUS
<1> QED
  BY <1>5, <1>7, <1>8, <1>9 DEF Logins

(* A session that is loading has a login under way, for any number of      *)
(* sessions and characters: HandlePlayerLoginCallback ends its loading     *)
(* whatever became of the session that asked for it, so that the account   *)
(* is never locked out by a session that loads for ever.                   *)
THEOREM LoadingEnds == Spec => []LoadingIsAnswered
<1>1. Init => LoadInv
  BY DEF Init, LoadInv
<1>2. Spec => []LoadInv
  BY <1>1, LoadKept, Always, PTL DEF Spec
<1>3. IndInv /\ LoadInv => LoadingIsAnswered
  BY LoginsCounted DEF LoadInv, LoadingIsAnswered
<1> QED
  BY <1>2, <1>3, Always, PTL
=============================================================================
