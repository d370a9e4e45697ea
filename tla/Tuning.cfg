SPECIFICATION FairSpec
CONSTANTS
    App = {"user", "stress"}
    Deployed <- MCDeployed
    Combos <- MCCombos
    Starts <- MCStarts
    Score = {40, 90}
    NoScore = NoScore
    MaxMoves = 2
CHECK_DEADLOCK FALSE
INVARIANTS
    TypeOK
    TopScorerStays
    MeasuredAsRecorded
    BestLeftApplied
PROPERTIES
    ScriptsEnd
