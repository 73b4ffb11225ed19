SPECIFICATION FairSpec
CONSTANTS
    Slots = {s1}
    Stadiums = {st1}
    StadiumOf <- OneStadium
    Bookings = {b1}
    Workers = {w1, w2}
    NoOne = NoOne
    Faults = {"crash", "redis", "broker", "db"}
INVARIANTS
    ErrorMeansUnbookedOrUntold
PROPERTIES
    SlotLockFreed
    ConfirmedSettles
