SPECIFICATION FairSpec
CONSTANTS
    o1 = o1
    o2 = o2
    u1 = u1
    bot = bot
    ref = ref
    key = key
    reason = reason
    NoText = NoText
    p1 = p1
    p2 = p2
    Orders = {o1, o2}
    Users = {u1}
    Services = {bot}
    Processes = {p1, p2}
    User <- UserOf
    Service <- ServiceOf
    Price <- PriceOf
    Ref <- RefOf
    IdempotencyKey <- IdempotencyKeyOf
    Reason <- ReasonOf
    Keyed = {bot}
    Bots = {bot}
    Lossy = {3}
    MaxAmount = 3
    Funds <- FundsOf
    MaxTimeOuts = 1
    MaxFaults = 1
INVARIANTS
    TypeOK
    SuccessIsPaid
    ChargedOnce
    RefundBacked
    FirstRefusalIsFinal
    ToldPerPayment
PROPERTIES
    PurchaseEnds
CHECK_DEADLOCK FALSE
