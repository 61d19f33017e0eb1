SPECIFICATION Spec
CONSTANTS
    N = 3
    MinPlayers = 2
    MaxDeaths = 2
    MaxHand = 1
    Thread = {t1, t2}
    Domination = FALSE
    WeaponLimits = {1}
    MaxFound = 0
    Leaky = {}
CHECK_DEADLOCK FALSE
SYMMETRY ThreadSymmetry
INVARIANTS
    TypeOK
    OneToken
PROPERTIES
    ImplementsOrder
    EverybodyRespawned
    NoTagbackPending
