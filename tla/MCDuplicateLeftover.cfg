CONSTANTS
    shop = shop
    copy = copy
    third = third
    app = app
    own = own
    own2 = own2
    root = root
    Initial = Initial
    None = None
    DeniedDb = {}
    DeniedRole = {}
    Superuser = {root}
    Truncates = {}
    Resource <- JobResource
    Database = {shop, copy}
    Role = {app, own, root}
    InitOwner <- MCInitOwner
    InitObjects <- MCInitObjects
    InitSaved = {app}
    Caller = {1}
    OpId = {1}
    Creates = {}
    Rotates = {}
    Drops = {}
    Requests <- SameCopy
    LedgerFails = FALSE
    MaxFaults = 2
    MaxCrashes = 0
    Retention = 0
    MaxTerminal = 1
    MaxTime = 0
CHECK_DEADLOCK FALSE
SPECIFICATION Spec
INVARIANTS
    FailedLeavesNothing
