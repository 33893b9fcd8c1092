SPECIFICATION FairSpec
CONSTANTS
    d1 = d1
    p1 = p1
    hmac = hmac
    ed25519 = ed25519
    aes = aes
    merkle = merkle
    Deposits = {d1}
    Value <- Values
    Admits <- AdmitsOf
    Merkle = merkle
    Txs = {d1}
    Workers = {hmac, ed25519, aes, merkle}
    Unreliable = {aes}
    Threshold = 3
    MaxRestarts = 2
INVARIANTS
    ApprovedOnce
    ApprovalRemembered
PROPERTIES
    VerifyEnds
CHECK_DEADLOCK FALSE
