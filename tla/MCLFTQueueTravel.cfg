SPECIFICATION FairSpec
CONSTANTS
    Players = {1, 2, 3}
    Instances = {1, 2}
    Allowed <- Classes3
    CanPlayersGroup <- All3
    SameKind <- All3
    DamageSlots = 1
    RolecheckTime = 2
    OfferTime = 2
    OfferIds = {1, 2}
    Invites <- PairInvites
    Leavers = {}
    Travellers = {2}
    Requests = {{2}, {1, 2}}
INVARIANTS LoggedOutIsGone NoMissedMatch
PROPERTY DecisionsEnd
