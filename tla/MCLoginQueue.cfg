CONSTANTS
    a1 = a1
    a2 = a2
    a3 = a3
    s1 = s1
    s2 = s2
    s3 = s3
    Accounts = {a1, a2, a3}
    Slots = {s1, s2, s3}
    NoSession = NoSession
    NonRegional = {a3}
    Skips = {}
    HardLimit = 2
    MaxPop <- MaxPopValue
    LoginPerTick = 2
    PlayerLimits = {0}
    PriorityModes = {TRUE, FALSE}
    GracePeriod = TRUE
    MaxBase = 1
    LogoutTicks = 1
SPECIFICATION Spec
INVARIANTS TypeOK OneOwner WaitsOrPassed LoggedIsPopulation PopulationBound
PROPERTIES GraceIsEarned RoundLetsIn
SYMMETRY Symmetry
