-------------------------------- MODULE LFTQueue --------------------------------
(***************************************************************************)
(* The queue of the dungeon finder (LFTManager, src/game/LFT): rolechecks, *)
(* the queue, the matcher, offers and the forming of the group. Everything *)
(* runs on the world thread, one handler at a time; what is hard is the    *)
(* long sequences of messages, expiries, logouts, teleports and party      *)
(* changes, which nobody tells the finder about.                           *)
(*                                                                         *)
(* The manager's maps are one record that each operation maps to a record, *)
(* as the handlers call one another. LFT.BotFill.Enable = 0.               *)
(***************************************************************************)
EXTENDS Naturals, Sequences, FiniteSets, SequencesExt

CONSTANTS
    Players,        \* guids: the maps of the code are ordered by them
    Instances,      \* names of dungeons, ordered too
    Allowed,        \* AllowedRoleMask of each player's class
    CanPlayersGroup,\* pairs: team, hardcore mode and levels fit
    SameKind,       \* pairs: team and hardcore mode fit
    DamageSlots,    \* 3 in the code
    RolecheckTime, OfferTime, \* timeouts, in calls of Update
    OfferIds,       \* bound: ids are taken in turn, never the last again
    Invites,        \* bound: who may ask whom into a party
    Leavers,        \* bound: who may leave a party
    Travellers,     \* bound: who may leave the world
    Requests        \* bound: the sets of instances asked for

Roles == {"tank", "healer", "damage"}

ASSUME LFTAssumption ==
    /\ Players \subseteq Nat \ {0} /\ IsFiniteSet(Players)
    /\ Instances \subseteq Nat \ {0} /\ IsFiniteSet(Instances)
    /\ Allowed \in [Players -> (SUBSET Roles) \ {{}}]
    /\ CanPlayersGroup \subseteq SameKind /\ SameKind \subseteq Players \X Players
    /\ \A p \in Players : <<p, p>> \in CanPlayersGroup
    /\ \A p, q \in Players : <<p, q>> \in CanPlayersGroup => <<q, p>> \in CanPlayersGroup
    /\ {DamageSlots, RolecheckTime, OfferTime} \subseteq Nat \ {0}
    /\ OfferIds \subseteq Nat \ {0}
    /\ Cardinality(OfferIds) * (DamageSlots + 2) > Cardinality(Players)
    /\ Invites \subseteq CanPlayersGroup /\ Leavers \cup Travellers \subseteq Players
    /\ Requests \subseteq (SUBSET Instances) \ {{}}

VARIABLES
    lft,     \* the LFTManager
    groups,  \* the parties: leader -> member slots
    where    \* [Players -> "out" of the game, "loading" a map, in the "world"]

vars == <<lft, groups, where>>

NoGuid == 0
EmptyMap == [x \in {} |-> 0]
GroupSize == DamageSlots + 2

Erase(map, K) == Restrict(map, DOMAIN map \ K)
Put(map, k, v) == [x \in DOMAIN map \cup {k} |-> IF x = k THEN v ELSE map[x]]

(* The members of P, in the order of seq.                                  *)
Keep(seq, P) ==
    LET Take(kept, x) == IF x \in P THEN Append(kept, x) ELSE kept
    IN  FoldLeft(Take, <<>>, seq)

Ascending(S) == Keep([n \in 1 .. Max(S \cup {1}) |-> n], S)

\* LFTManager::GetPlayer finds the player.
InWorld(p) == p \in Players /\ where[p] = "world"

(* queueOrder is the order the counter m_nextQueueOrder gave to the        *)
(* entries of m_queue; lastOffer is m_nextOfferId - 1.                     *)
Init ==
    /\ lft = [m_queue |-> EmptyMap, queueOrder |-> <<>>, m_rolechecks |-> EmptyMap,
              m_offers |-> EmptyMap, m_playerOffers |-> EmptyMap, lastOffer |-> NoGuid]
    /\ groups = EmptyMap
    /\ where = [p \in Players |-> "world"]

-----------------------------------------------------------------------------
(* The matcher.                                                            *)

Counted(roles, r) == Cardinality({p \in DOMAIN roles : roles[p] = r})

Slots(r) == IF r = "damage" THEN DamageSlots ELSE 1

(* The first role of the mask that the group still lacks.                  *)
PickRole(roleMask, roles) ==
    LET open == {r \in roleMask : Counted(roles, r) < Slots(r)}
    IN  IF open = {} THEN "none" ELSE Head(Keep(<<"tank", "healer", "damage">>, open))

CanQueuedPlayersGroup(p, q) ==
    IF InWorld(p) /\ InWorld(q) THEN <<p, q>> \in CanPlayersGroup
                                ELSE <<p, q>> \in SameKind

(* The entry waits for this instance and is not in an offer.               *)
Waiting(s, p, instance) ==
    /\ p \notin DOMAIN s.m_playerOffers
    /\ instance \in s.m_queue[p].instances

QueueLeader(s, p) ==
    IF s.m_queue[p].leader = NoGuid THEN p ELSE s.m_queue[p].leader

(* All entries that queued under the same leader, in queue order.          *)
Block(s, p) ==
    Keep(s.queueOrder, {q \in DOMAIN s.m_queue : QueueLeader(s, q) = QueueLeader(s, p)})

\* Mutant: the candidate is taken without the rest of its block.
AddAlone(s, instance, seed, roles, p) ==
    LET r == PickRole(s.m_queue[p].roleMask, roles)
    IN  IF r = "none" THEN roles ELSE Put(roles, p, r)

(* The block of a candidate joins as a whole or not at all.                *)
AddBlock(s, instance, seed, roles, p) ==
    LET Fit(acc, q) ==
            LET r == PickRole(s.m_queue[q].roleMask, acc.roles)
            IN  IF /\ acc.fits /\ q \notin DOMAIN roles /\ Waiting(s, q, instance)
                   /\ CanQueuedPlayersGroup(seed, q) /\ r # "none"
                THEN [fits |-> TRUE, roles |-> Put(acc.roles, q, r)]
                ELSE [fits |-> FALSE, roles |-> roles]
        all == FoldLeft(Fit, [fits |-> TRUE, roles |-> roles], Block(s, p))
    IN  IF all.fits /\ Cardinality(DOMAIN all.roles) <= GroupSize
        THEN all.roles ELSE roles

\* Mutant: players already in an offer are candidates again.
SelectAgain(s, instance, seed) ==
    LET Consider(roles, p) ==
            IF /\ Cardinality(DOMAIN roles) < GroupSize /\ p \notin DOMAIN roles
               /\ instance \in s.m_queue[p].instances /\ CanQueuedPlayersGroup(seed, p)
            THEN Put(roles, p, CHOOSE r \in s.m_queue[p].roleMask : TRUE) ELSE roles
    IN  FoldLeft(Consider, EmptyMap, s.queueOrder)

(* The greedy selection around one seed.                                   *)
SelectedRoles(s, instance, seed) ==
    LET Consider(roles, p) ==
            IF /\ Cardinality(DOMAIN roles) < GroupSize /\ p \notin DOMAIN roles
               /\ Waiting(s, p, instance) /\ CanQueuedPlayersGroup(seed, p)
            THEN AddBlock(s, instance, seed, roles, p) ELSE roles
    IN  FoldLeft(Consider, EmptyMap, s.queueOrder)

FullGroup(roles) ==
    /\ Cardinality(DOMAIN roles) = GroupSize
    /\ Counted(roles, "tank") = 1 /\ Counted(roles, "healer") = 1
    /\ Counted(roles, "damage") = DamageSlots

NextOfferId(s) == Min(OfferIds \ (DOMAIN s.m_offers \cup {s.lastOffer}))

MakeOffer(s, instance, roles) ==
    LET id == NextOfferId(s)
    IN  [s EXCEPT
          !.m_offers = Put(@, id, [instance |-> instance, roles |-> roles,
                                   accepted |-> {}, timer |-> OfferTime]),
          !.m_playerOffers = [p \in DOMAIN @ \cup DOMAIN roles |->
                                IF p \in DOMAIN roles THEN id ELSE @[p]],
          !.lastOffer = id]

\* Mutant: only the first entry is tried as the seed.
TryFirstSeed(s, instance) ==
    LET seeds == Keep(s.queueOrder, {p \in DOMAIN s.m_queue : Waiting(s, p, instance)})
    IN  IF seeds = <<>> \/ ~FullGroup(SelectedRoles(s, instance, Head(seeds))) THEN s
        ELSE MakeOffer(s, instance, SelectedRoles(s, instance, Head(seeds)))

(* Seeds are tried in queue order until one gives a full group.            *)
TryBuildOfferForInstance(s, instance) ==
    LET Seeds == {p \in DOMAIN s.m_queue :
                    Waiting(s, p, instance) /\ FullGroup(SelectedRoles(s, instance, p))}
        seeds == Keep(s.queueOrder, Seeds)
    IN  IF seeds = <<>> THEN s
        ELSE MakeOffer(s, instance, SelectedRoles(s, instance, Head(seeds)))

\* Mutant: only the first instance is looked at.
TryFirstInstance(s) ==
    LET wanted == UNION {s.m_queue[p].instances : p \in DOMAIN s.m_queue}
    IN  IF wanted = {} THEN s ELSE TryBuildOfferForInstance(s, Min(wanted))

TryMakeOffers(s) ==
    LET wanted == UNION {s.m_queue[p].instances :
                           p \in DOMAIN s.m_queue \ DOMAIN s.m_playerOffers}
    IN  FoldLeft(TryBuildOfferForInstance, s, Ascending(wanted))

-----------------------------------------------------------------------------
(* The queue, rolechecks and offers.                                       *)

Dequeue(s, P) ==
    [s EXCEPT !.m_queue = Erase(@, P), !.queueOrder = Keep(@, Players \ P)]

(* An entry the player already has is overwritten.                         *)
EnqueuePlayer(s, p, leader, instances, roleMask) ==
    [s EXCEPT !.m_queue = Put(@, p, [leader |-> leader, instances |-> instances,
                                     roleMask |-> roleMask]),
              !.queueOrder = Append(Keep(@, Players \ {p}), p)]

EnqueueRolecheck(s, rolecheck) ==
    LET Enqueue(t, p) ==
            IF InWorld(p) /\ p \in DOMAIN rolecheck.responses
            THEN EnqueuePlayer(t, p, rolecheck.leader, rolecheck.instances,
                               rolecheck.responses[p])
            ELSE t
    IN  TryMakeOffers(FoldLeft(Enqueue, s, rolecheck.members))

(* The rolechecks the player is a member of, by their leaders.             *)
RolechecksOf(s, p) ==
    {l \in DOMAIN s.m_rolechecks : p \in ToSet(s.m_rolechecks[l].members)}

CancelRolechecks(s, L) == [s EXCEPT !.m_rolechecks = Erase(@, L)]

(* Who accepted keeps the place in the queue; with requeueOthers everybody *)
(* but removeGuid does. Nothing happens when the offer is gone.            *)
CancelOffer(s, id, requeueAccepted, removeGuid, requeueOthers) ==
    IF id \notin DOMAIN s.m_offers THEN s ELSE
    LET offer == s.m_offers[id]
        keepQueued == {p \in DOMAIN offer.roles :
                         /\ requeueAccepted /\ p # removeGuid
                         /\ requeueOthers \/ p \in offer.accepted}
    IN  [Dequeue(s, DOMAIN offer.roles \ keepQueued)
           EXCEPT !.m_offers = Erase(@, {id}),
                  !.m_playerOffers = Erase(@, DOMAIN offer.roles)]

\* Mutant: rolechecks of others with the player as a member stay.
CleanupOwn(s, p) ==
    LET t == Dequeue(s, {p})
        u == IF p \in DOMAIN t.m_playerOffers
             THEN CancelOffer(t, t.m_playerOffers[p], TRUE, p, TRUE) ELSE t
    IN  CancelRolechecks(u, {p} \cap DOMAIN u.m_rolechecks)

CleanupPlayer(s, p) ==
    LET t == Dequeue(s, {p})
        u == IF p \in DOMAIN t.m_playerOffers
             THEN CancelOffer(t, t.m_playerOffers[p], TRUE, p, TRUE) ELSE t
    IN  CancelRolechecks(u, RolechecksOf(u, p))

-----------------------------------------------------------------------------
(* Parties: of class Group what the finder asks of it.                     *)

\* The leaders of the parties p is a member of: none or one.
GroupsOf(g, p) == {l \in DOMAIN g : p \in ToSet(g[l])}
IsFull(g, l) == Len(g[l]) >= GroupSize

GetPartyMembers(leader) ==
    IF GroupsOf(groups, leader) = {} THEN <<leader>>
    ELSE Keep(groups[leader], {p \in Players : InWorld(p)})

(* One call of AddPlayerToGroup; acc.key is the party once there is one.   *)
AddPlayerToGroup(acc, leader, p) ==
    LET known == IF acc.key # NoGuid THEN {acc.key} ELSE GroupsOf(acc.groups, leader)
        key == IF known = {} THEN leader ELSE CHOOSE l \in known : TRUE
        g == IF known = {} THEN Put(acc.groups, leader, <<leader>>) ELSE acc.groups
        joins == /\ GroupsOf(g, p) = {} /\ ~IsFull(g, key)
                 /\ InWorld(leader) => <<leader, p>> \in CanPlayersGroup
    IN  IF ~acc.added \/ ~InWorld(p) \/ (acc.key = NoGuid /\ ~InWorld(leader))
        THEN [acc EXCEPT !.added = FALSE]
        ELSE IF p \in ToSet(g[key]) THEN [added |-> TRUE, key |-> key, groups |-> g]
        ELSE [added |-> joins, key |-> key,
              groups |-> IF joins THEN Put(g, key, Append(g[key], p)) ELSE g]

(* The queue leader of the first player, by guid, that has one; else the   *)
(* tank.                                                                   *)
OfferLeader(s, offer) ==
    LET led == {p \in DOMAIN offer.roles \cap DOMAIN s.m_queue :
                  s.m_queue[p].leader # NoGuid}
    IN  IF led # {} THEN s.m_queue[Min(led)].leader
        ELSE CHOOSE p \in DOMAIN offer.roles : offer.roles[p] = "tank"

FormedGroup(s, offer) ==
    LET leader == OfferLeader(s, offer)
        Add(acc, p) == AddPlayerToGroup(acc, leader, p)
    IN  FoldLeft(Add, [added |-> TRUE, key |-> NoGuid, groups |-> groups],
                 Ascending(DOMAIN offer.roles))

\* Mutant: the players of the group stay in the queue.
CompleteStillQueued(s, id) ==
    /\ groups' = FormedGroup(s, s.m_offers[id]).groups
    /\ lft' = [s EXCEPT !.m_offers = Erase(@, {id}),
                        !.m_playerOffers = Erase(@, DOMAIN s.m_offers[id].roles)]

(* CompleteOffer: when one player cannot be added the offer is cancelled,  *)
(* and who was added before stays in the party.                            *)
CompleteOffer(s, id) ==
    LET offer == s.m_offers[id]
        formed == FormedGroup(s, offer)
    IN  /\ groups' = formed.groups
        /\ lft' = IF formed.added
                  THEN [Dequeue(s, DOMAIN offer.roles)
                          EXCEPT !.m_offers = Erase(@, {id}),
                                 !.m_playerOffers = Erase(@, DOMAIN offer.roles)]
                  ELSE CancelOffer(s, id, FALSE, NoGuid, FALSE)

-----------------------------------------------------------------------------
(* The handlers. A player sends messages while in the world.               *)

HandleQueueJoin(p, instances) ==
    /\ InWorld(p)
    /\ GroupsOf(groups, p) \subseteq {p}
    /\ LET s == CleanupPlayer(lft, p)
       IN  lft' = [s EXCEPT !.m_rolechecks =
                     Put(@, p, [leader |-> p, members |-> GetPartyMembers(p),
                                instances |-> instances, responses |-> EmptyMap,
                                timer |-> RolecheckTime])]
    /\ UNCHANGED <<groups, where>>

(* Out of a rolecheck, else out of an offer, else out of the queue with    *)
(* the whole block.                                                        *)
HandleQueueLeave(p) ==
    /\ InWorld(p)
    /\ LET checks == RolechecksOf(lft, p)
       IN  CASE checks # {} ->
                    lft' = CancelRolechecks(lft, {Min(checks)})
             [] checks = {} /\ p \in DOMAIN lft.m_playerOffers ->
                    lft' = TryMakeOffers(CancelOffer(lft, lft.m_playerOffers[p],
                                                     TRUE, p, TRUE))
             [] OTHER -> /\ p \in DOMAIN lft.m_queue
                         /\ lft' = Dequeue(lft, ToSet(Block(lft, p)))
    /\ UNCHANGED <<groups, where>>

\* Mutant: the rolecheck waits for one answer too many.
RolecheckFinished(rolecheck) ==
    Cardinality(DOMAIN rolecheck.responses) > Len(rolecheck.members)

(* Everybody has answered.                                                 *)
AllResponded(rolecheck) ==
    Cardinality(DOMAIN rolecheck.responses) = Len(rolecheck.members)

(* ParseRoleMask & AllowedRoleMask                                         *)
RoleMask(p, roles) == roles \cap Allowed[p]

(* The answer counts for the first rolecheck, by leader, that asks p.      *)
HandleRolecheckResponse(p, roles) ==
    /\ InWorld(p) /\ RoleMask(p, roles) # {} /\ RolechecksOf(lft, p) # {}
    /\ LET l == Min(RolechecksOf(lft, p))
           answered == [lft.m_rolechecks[l] EXCEPT
                          !.responses = Put(@, p, RoleMask(p, roles))]
       IN  lft' = IF AllResponded(answered)
                  THEN EnqueueRolecheck(CancelRolechecks(lft, {l}), answered)
                  ELSE [lft EXCEPT !.m_rolechecks[l] = answered]
    /\ UNCHANGED <<groups, where>>

HandleOfferAccept(p) ==
    /\ InWorld(p) /\ p \in DOMAIN lft.m_playerOffers
    /\ LET id == lft.m_playerOffers[p]
           s == [lft EXCEPT !.m_offers[id].accepted = @ \cup {p}]
       IN  IF s.m_offers[id].accepted = DOMAIN s.m_offers[id].roles
           THEN CompleteOffer(s, id)
           ELSE lft' = s /\ UNCHANGED groups
    /\ UNCHANGED where

(* The timers of a map run on.                                             *)
Passed(map) == [x \in DOMAIN map |-> [map[x] EXCEPT !.timer = @ - 1]]

\* Mutant: timers of offers do not run.
TickRolechecks(s) ==
    LET late == {l \in DOMAIN s.m_rolechecks : s.m_rolechecks[l].timer <= 1}
    IN  [CancelRolechecks(s, late) EXCEPT !.m_rolechecks = Passed(@)]

(* The two loops of Update over the timers.                                *)
Tick(s) ==
    LET lateChecks == {l \in DOMAIN s.m_rolechecks : s.m_rolechecks[l].timer <= 1}
        lateOffers == {id \in DOMAIN s.m_offers : s.m_offers[id].timer <= 1}
        Expire(t, id) == CancelOffer(t, id, TRUE, NoGuid, FALSE)
    IN  [FoldLeft(Expire, CancelRolechecks(s, lateChecks), Ascending(lateOffers)) EXCEPT
           !.m_rolechecks = Passed(@), !.m_offers = Passed(@)]

Update ==
    /\ lft' = TryMakeOffers(Tick(Dequeue(lft, {p \in DOMAIN lft.m_queue : ~InWorld(p)})))
    /\ UNCHANGED <<groups, where>>

-----------------------------------------------------------------------------
(* The world around the finder.                                            *)

(* Members leave; a party of one disbands; a party without its leader      *)
(* gets another, an online member: which one is left open.                 *)
RemoveFromParty(l, gone) ==
    LET left == Keep(groups[l], Players \ gone)
    IN  IF Len(left) < 2 THEN groups' = Erase(groups, {l})
        ELSE \E next \in IF l \in gone THEN ToSet(left) ELSE {l} :
                 groups' = Put(Erase(groups, {l}), next, left)

LeaveParty(p) ==
    /\ InWorld(p) /\ \E l \in GroupsOf(groups, p) : RemoveFromParty(l, {p})
    /\ UNCHANGED <<lft, where>>

AcceptInvite(l, p) ==
    /\ InWorld(l) /\ InWorld(p) /\ l # p /\ GroupsOf(groups, p) = {}
    /\ \/ GroupsOf(groups, l) = {} /\ groups' = Put(groups, l, <<l, p>>)
       \/ /\ l \in DOMAIN groups /\ ~IsFull(groups, l)
          /\ groups' = Put(groups, l, Append(groups[l], p))
    /\ UNCHANGED <<lft, where>>

(* A far teleport.                                                         *)
LeaveWorld(p) ==
    /\ InWorld(p) /\ where' = [where EXCEPT ![p] = "loading"]
    /\ UNCHANGED <<lft, groups>>

EnterWorld(p) ==
    /\ where[p] # "world" /\ where' = [where EXCEPT ![p] = "world"]
    /\ UNCHANGED <<lft, groups>>

(* WorldSession::LogoutPlayer and OnPlayerLogout: who loses the connection *)
(* stays in the party, who logs out leaves it after absent members do.     *)
Logout(p) ==
    /\ where[p] # "out" /\ where' = [where EXCEPT ![p] = "out"]
    /\ lft' = CleanupPlayer(lft, p)
    /\ \/ UNCHANGED groups
       \/ \E l \in GroupsOf(groups, p) :
            RemoveFromParty(l, {p} \cup {q \in ToSet(groups[l]) : ~InWorld(q)})

-----------------------------------------------------------------------------
Message(p) ==
    \/ \E instances \in Requests : HandleQueueJoin(p, instances)
    \/ HandleQueueLeave(p)
    \/ \E roles \in SUBSET Roles : HandleRolecheckResponse(p, roles)
    \/ HandleOfferAccept(p)

Surroundings ==
    \/ \E p \in Leavers : LeaveParty(p)
    \/ \E i \in Invites : AcceptInvite(i[1], i[2])
    \/ \E p \in Travellers : LeaveWorld(p) \/ EnterWorld(p) \/ Logout(p)

Next == (\E p \in Players : Message(p)) \/ Surroundings \/ Update

Spec == Init /\ [][Next]_vars

-----------------------------------------------------------------------------
(* m_playerOffers and the roles of m_offers say the same: nobody is in two *)
(* offers, no player is held by an offer that is gone, and an offer lists  *)
(* nobody who is free to be put into another one.                          *)
OfferIndex ==
    /\ \A p \in DOMAIN lft.m_playerOffers :
         /\ lft.m_playerOffers[p] \in DOMAIN lft.m_offers
         /\ p \in DOMAIN lft.m_offers[lft.m_playerOffers[p]].roles
    /\ \A id \in DOMAIN lft.m_offers : \A p \in DOMAIN lft.m_offers[id].roles :
         p \in DOMAIN lft.m_playerOffers /\ lft.m_playerOffers[p] = id

(* Nothing that is decided stays open: a rolecheck everybody has answered  *)
(* is in the queue, an offer everybody accepted is a group or cancelled,   *)
(* also when a player is asked in two rolechecks at once.                  *)
NothingDecidedStays ==
    /\ \A l \in DOMAIN lft.m_rolechecks :
         ~ (ToSet(lft.m_rolechecks[l].members) \subseteq
              DOMAIN lft.m_rolechecks[l].responses)
    /\ \A id \in DOMAIN lft.m_offers :
         ~ (DOMAIN lft.m_offers[id].roles \subseteq lft.m_offers[id].accepted)

(* The finder knows nothing of who logged out: not as an entry of the      *)
(* queue, not in an offer and not as a member of any rolecheck, whatever   *)
(* happened between, although parties keep absent members.                 *)
LoggedOutIsGone ==
    \A p \in Players : where[p] = "out" =>
        /\ p \notin DOMAIN lft.m_queue
        /\ p \notin DOMAIN lft.m_playerOffers
        /\ RolechecksOf(lft, p) = {}

(* A new offer is a full group of players who wait for its instance, each  *)
(* in a role of the mask and all compatible with one who waits too (the    *)
(* seed, who may be left out when others fill the group before), and it    *)
(* splits no block: who queued together is offered together.               *)
OffersAreSound ==
    [][\A id \in DOMAIN lft'.m_offers \ DOMAIN lft.m_offers :
         LET offer == lft'.m_offers[id]
         IN  /\ FullGroup(offer.roles)
             /\ \A p \in DOMAIN offer.roles :
                  /\ p \in DOMAIN lft'.m_queue
                  /\ offer.instance \in lft'.m_queue[p].instances
                  /\ offer.roles[p] \in lft'.m_queue[p].roleMask
                  /\ ToSet(Block(lft', p)) \subseteq DOMAIN offer.roles
             /\ \E seed \in DOMAIN lft'.m_queue :
                  /\ offer.instance \in lft'.m_queue[seed].instances
                  /\ \A p \in DOMAIN offer.roles : CanQueuedPlayersGroup(seed, p)]_vars

(* Players who wait alone for an instance, each in one role.               *)
Simple(s, instance) ==
    {p \in DOMAIN s.m_queue :
       /\ Waiting(s, p, instance) /\ Len(Block(s, p)) = 1
       /\ Cardinality(s.m_queue[p].roleMask) = 1}

(* The greedy matcher misses no simple match: where players who queued     *)
(* alone for one role each, and all fit together, make a full group, the   *)
(* next TryMakeOffers offers the instance to somebody, or one of them      *)
(* another instance, whoever else waits and in whatever order.             *)
NoMissedMatch ==
    \A instance \in Instances : \A P \in SUBSET Simple(lft, instance) :
        /\ FullGroup([p \in P |-> CHOOSE r \in lft.m_queue[p].roleMask : TRUE])
        /\ P \X P \subseteq CanPlayersGroup
        => LET next == TryMakeOffers(lft)
           IN  \/ P \cap DOMAIN next.m_playerOffers # {}
               \/ \E id \in DOMAIN next.m_offers \ DOMAIN lft.m_offers :
                    next.m_offers[id].instance = instance

(* When the last of the offered players accepts, and all of them are in    *)
(* the world, without a party and compatible with the queue leader, who is *)
(* one of them, they end up in one party of their own and out of the       *)
(* finder.                                                                 *)
GroupForms ==
    [][\A id \in DOMAIN lft.m_offers : \A p \in DOMAIN lft.m_offers[id].roles :
         LET offer == lft.m_offers[id]
             P == DOMAIN offer.roles
         IN  /\ P \subseteq offer.accepted \cup {p} /\ HandleOfferAccept(p)
             /\ \A q \in P : InWorld(q) /\ GroupsOf(groups, q) = {}
             /\ P \X P \subseteq CanPlayersGroup
             /\ OfferLeader(lft, offer) \in P
             => /\ \E l \in P : l \in DOMAIN groups' /\ ToSet(groups'[l]) = P
                /\ P \cap (DOMAIN lft'.m_queue \cup DOMAIN lft'.m_playerOffers) = {}]_vars

(* No offer stays open for ever, and a rolecheck does only when its leader *)
(* starts it over again and again: its clock runs, and is set back.        *)
DecisionsEnd ==
    /\ \A id \in OfferIds :
         (id \in DOMAIN lft.m_offers) ~> (id \notin DOMAIN lft.m_offers)
    /\ \A l \in Players :
         LET Open == l \in DOMAIN lft.m_rolechecks
             Fresh == lft.m_rolechecks[l].timer = RolecheckTime
         IN  <>[]Open => []<>(Open /\ Fresh) /\ []<>(Open /\ ~Fresh)
=============================================================================
