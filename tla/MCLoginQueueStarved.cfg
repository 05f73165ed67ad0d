CONSTANTS
    a1 = a1
    a2 = a2
    a3 = a3
    s1 = s1
    s2 = s2
    s3 = s3
    Accounts = {a1, a2}
    Slots = {s1, s2}
    NoSession = NoSession
    NonRegional = {}
    Skips = {}
    HardLimit = 2
    MaxPop <- MaxPopValue
    LoginPerTick = 1
    PlayerLimits = {0}
    PriorityModes = {FALSE}
    GracePeriod = TRUE
    MaxBase = 1
    LogoutTicks = 1
SPECIFICATION FairSpec
PROPERTY EmptyWorldLetsIn
