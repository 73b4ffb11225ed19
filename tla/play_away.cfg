SPECIFICATION Spec
CONSTANTS
    w1 = w1
    w2 = w2
    Workers = {w1, w2}
    Settings <- SmallLeagues
    Name <- ReverseNames
INVARIANTS EveryTeamHosts
CHECK_DEADLOCK FALSE
