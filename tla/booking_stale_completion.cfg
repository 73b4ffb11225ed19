SPECIFICATION Spec
CONSTANTS
    Slots = {s1}
    Stadiums = {st1}
    StadiumOf <- OneStadium
    Bookings = {b1}
    Workers = {w1, w2}
    NoOne = NoOne
    Faults = {}
SYMMETRY Symmetry
PROPERTIES
    CompletedFromConfirmed
