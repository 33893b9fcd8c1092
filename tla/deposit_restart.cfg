SPECIFICATION FairFlowSpec
CONSTANTS
    t1 = t1
    t2 = t2
    i1 = i1
    w1 = w1
    w2 = w2
    hmac = hmac
    aes = aes
    merkle = merkle
    None = None
    Wallets = {w1, w2}
    Invoices = {i1}
    Owner <- OwnerOf
    Price <- PriceOf
    Value <- ValueOf
    Admits <- AdmitsOf
    Workers = {hmac, aes}
    Merkle = merkle
    Unreliable = {aes}
    Threshold = 2
    Txs = {t1, t2}
    Deposits = {t1, t2}
    Comments <- CommentsOf
    Window = 1
    MaxRestarts = 1
    MaxFaults = 1
INVARIANTS
    FlowTypeOK
    InvoiceBacked
    AnnouncedIsFunded
PROPERTIES
    DepositsArrive
CHECK_DEADLOCK FALSE
