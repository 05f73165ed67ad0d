SPECIFICATION Spec
CONSTANTS
    Players = {1, 2, 3, 4}
    Instances = {1}
    Allowed <- PartyClasses
    CanPlayersGroup <- FarApart
    SameKind <- All4
    DamageSlots = 1
    RolecheckTime = 1
    OfferTime = 1
    OfferIds = {1, 2}
    Invites <- PairInvites
    Leavers = {1}
    Travellers = {}
    Requests = {{1}}
INVARIANTS OfferIndex NothingDecidedStays NoMissedMatch
PROPERTIES OffersAreSound GroupForms
