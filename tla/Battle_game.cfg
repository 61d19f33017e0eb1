SPECIFICATION Spec
CONSTANTS
    N = 3
    Points = {c1, c2}
    Modes = {"normal", "domination"}
    HP = 2
    Overkill = 2
    MaxMarks = 2
    MaxDeaths = 2
    TrackLength = 2
    Amounts <- AmountsOf
    Marks <- MarksOf
    MaxActs <- ActsOf
    MaxTurns <- TurnsOf
SYMMETRY PointSymmetry
INVARIANTS
    TypeOK
    DeadAreSettled
PROPERTIES
    PaidByRank
    FairEnd
    MarksPayOff
CHECK_DEADLOCK FALSE
