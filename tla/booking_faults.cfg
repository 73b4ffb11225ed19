SPECIFICATION Spec
CONSTANTS
    Slots = {s1}
    Stadiums = {st1}
    StadiumOf <- OneStadium
    Bookings = {b1, b2}
    Workers = {w1, w2, w3}
    NoOne = NoOne
    Faults = {"redis", "overrun", "db"}
SYMMETRY Symmetry
INVARIANTS
    NoDoubleBooking
    ConstraintNeverTrips
    NotificationsTruthful
    EventsAnnounced
    DeadlocksCross
    IInv
PROPERTIES
    BookedOnlyWhenBookable
    OnlyOwnerReleases
    ImplementsReservation
