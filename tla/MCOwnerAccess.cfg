SPECIFICATION AccessSpec
SYMMETRY MCSymmetry
CONSTANTS
    Req = {r1, r2, r3}
    Username = {u1, u2}
    OwnerName = {u1}
    Password = {p1, p2}
    IP = {ip1}
    Loopback = {}
    TicketId = {t1}
    Tool = {"pgadmin", "redisinsight"}
    LockoutThreshold = 2
    SprayThreshold = 3
    Window = 1
    MaxLockout = 2
    MaxStored = 3
    Idle = 1
    Absolute = 1
    TicketTTL = 1
    ToolSessionTTL = 1
    MaxTime = 2
    MaxUpsets = 1
    NoHash = NoHash
INVARIANTS AccessTypeOK GuessesBounded EarlierSessionsEnd ChangeRevokes LifetimeBounded OneLaunchPerTicket
PROPERTY RevokedStaysOut
CHECK_DEADLOCK FALSE
