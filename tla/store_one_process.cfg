SPECIFICATION FairGuardSpec
CONSTANTS
    a = a
    b = b
    h1 = h1
    h2 = h2
    k1 = k1
    s1 = s1
    s2 = s2
    s3 = s3
    NoKey = NoKey
    None = None
    Wallets = {a, b}
    Keys = {h1, h2, k1}
    Sessions = {s1, s2, s3}
    Calls <- RetryCalls
    Serves <- OneProcess
    NetworkFee = 1
    MinWithdraw = 1
    MaxStarts = 4
    BatchSize = 2
    MaxTampers = 1
    MaxFailures = 1
INVARIANTS
    NoFalseAlarm
    PaymentOncePerRef
    DepositOncePerHash
PROPERTIES
    CallsEnd
    TamperNoticed
