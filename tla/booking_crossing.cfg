SPECIFICATION OwnerSpec
CONSTANTS
    Slots = {s1}
    Stadiums = {st1}
    StadiumOf <- OneStadium
    Bookings = {b1, b2}
    Workers = {w1, w2}
    NoOne = NoOne
    Faults = {"redis"}
INVARIANTS
    AtMostOneInFlight
PROPERTIES
    RequestsAnswered
