SPECIFICATION Spec
CONSTANTS
    Players = {p1, p2, p3, p4}
    Clients = {c1, c2}
    Owners = {o1}
    Caps = {2, 4}
    ValidCounts = {2, 4}
    NoOne = NoOne
SYMMETRY Symmetry
INVARIANTS OneTeamRegistered Capacity OpenMeansRoom GeneratedOnce
PROPERTIES RegisteredWhileOpen NeverTakenBack
CHECK_DEADLOCK FALSE
