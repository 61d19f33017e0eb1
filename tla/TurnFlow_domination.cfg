\* Two players.  With arsenals of 3 nobody drops a weapon, and the lock of one
\* player may be left taken; with arsenals of 1 drops leave more turn tokens.
SPECIFICATION FairSpec
CONSTANTS
    N = 2
    MinPlayers = 2
    MaxDeaths = 1
    MaxHand = 0
    Thread = {t1}
    Domination = TRUE
    WeaponLimits = {1, 3}
    MaxFound = 2
    Leaky = {1}
CHECK_DEADLOCK FALSE
PROPERTIES
    FrenzyStartsOnce
    TurnEnds
    GameCloses
