SPECIFICATION FairMCSpec
CONSTANTS
    o1 = o1
    a1 = a1
    u1 = u1
    u2 = u2
    g1 = g1
    g2 = g2
    r1 = r1
    r2 = r2
    p1 = p1
    p2 = p2
    p3 = p3
    p4 = p4
    b1 = b1
    b2 = b2
    Owners = {o1}
    Admins = {a1}
    Uploaders = {}
    Generators = {g1}
    Reviewers = {}
    Durations = {1}
    Bookings = {}
    Faults = {}
    Photos = {p1}
    MaxPhotos = 2
    QueueBound = 1
    HourChoices <- Openings
    Closed = Closed
    Consumed = {"default", "bookings", "notifications"}
    DailyRuns = FALSE
PROPERTY ApprovedGetsSlots
CHECK_DEADLOCK FALSE
