SPECIFICATION FairSpec
CONSTANTS
    r1 = r1
    r2 = r2
    c1 = c1
    c2 = c2
    None = None
    Responders = {r1, r2}
    Clients = {c1, c2}
    MaxPayments = 2
    MaxSilent = 1
    Faulty = TRUE
PROPERTIES
    CacheHeals
CHECK_DEADLOCK FALSE
