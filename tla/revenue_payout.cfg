SPECIFICATION FairSpec
CONSTANTS
    e1 = e1
    e2 = e2
    e3 = e3
    r1 = r1
    t1 = t1
    t2 = t2
    nats = nats
    worker = worker
    NoRef = NoRef
    NoRule = NoRule
    RefOf <- RefR1
    TotalOf <- Totals
    TypeOf <- TypePair
    Worker = worker
    Lossy = {15, 30}
    Events = {e1, e2, e3}
    HasOwner = {e1, e2}
    Listeners = {nats}
    Percents <- PercentsOf
    BatchLimit = 1
    MaxDeliveries = 1
    MaxChanges = 1
    MaxFaults = 1
INVARIANTS
    OnePayer
    PaidBySplit
    DoneIsPaid
    StrandedByFault
    EarningOncePerRef
PROPERTIES
    PendingIsProcessed
CHECK_DEADLOCK FALSE
