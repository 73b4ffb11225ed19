SPECIFICATION Spec
CONSTANTS
    Players = {p1, p2, p3}
    Clients = {c1}
    Owners = {o1, o2}
    Caps = {2}
    ValidCounts = {2}
    NoOne = NoOne
INVARIANTS CalledOnce
CHECK_DEADLOCK FALSE
