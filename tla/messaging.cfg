SPECIFICATION MCSpec
CONSTANTS
    n1 = n1
    n2 = n2
    u1 = u1
    u2 = u2
    Notices = {n1, n2}
    Kind <- KindOf
    Recipient <- RecipientOf
    Users = {u1, u2}
    Nobody = Nobody
    Tokens = {t1, t2}
    MaxRetries = 3
    FcmConfigured = TRUE
    DeliveryFaults = {"broker", "crash"}
    Callers = {c1, c2}
    Codes = {k1, k2}
    NoCode = NoCode
    LockTicks = 3
    RequestTicks = 3
    MaxAttempts = 2
    MaxRequests = 2
INVARIANTS LimitsHold NoNeedlessCopy
PROPERTIES EveryTaskEnds CodeUsedOnce
CHECK_DEADLOCK FALSE
