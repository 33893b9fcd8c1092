SPECIFICATION Spec
CONSTANTS
    u1 = u1
    boss = boss
    a1 = a1
    a2 = a2
    q1 = q1
    q2 = q2
    g1 = g1
    g2 = g2
    Users = {u1, boss}
    BotOwner = boss
    Goroutines = {g1, g2}
    Addresses = {a1}
    Requests = {q1}
    Amounts = {1}
    Offered = {"withdraw", "transfer", "deposit", "approve", "reject", "credit", "lookup"}
    Nothing = Nothing
    MaxUpdates = 5
    MaxRestarts = 1
SYMMETRY Same
CHECK_DEADLOCK FALSE
INVARIANTS CallsAsEntered OwnerOnly ExecutedOnce
PROPERTIES NewestExecuted
