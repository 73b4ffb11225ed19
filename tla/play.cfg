SPECIFICATION Spec
CONSTANTS
    w1 = w1
    w2 = w2
    Workers = {w1, w2}
    Settings <- AllSettings
    Name <- ReverseNames
INVARIANTS
    EveryPairOnce
    OncePerDay
    OneFixturePerRound
    RoundHoldsWinners
    NoRoundTooEarly
    TopSeedsMeetLast
    SomethingToPlay
    BestTwoAdvance
    TiebreakerOrder
PROPERTIES
    BracketCompletedWhenPlayed
CHECK_DEADLOCK FALSE
