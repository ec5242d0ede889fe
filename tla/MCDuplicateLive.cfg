CONSTANTS
    shop = shop
    copy = copy
    third = third
    app = app
    own = own
    own2 = own2
    root = root
    Initial = Initial
    None = None
    DeniedDb = {}
    DeniedRole = {}
    Superuser = {root}
    Truncates = {}
    Resource <- JobResource
    Database = {shop, copy}
    Role = {app, own, own2, root}
    InitOwner <- MCInitOwner
    InitObjects <- MCInitObjects
    InitSaved = {app}
    Caller = {1, 2, c1}
    OpId = {1, 2}
    Creates = {c1}
    Rotates = {}
    Drops = {}
    Requests <- SameCopy
    LedgerFails = FALSE
    MaxFaults = 1
    MaxCrashes = 2
    Retention = 0
    MaxTerminal = 1
    MaxTime = 0
CHECK_DEADLOCK FALSE
SPECIFICATION FairSpec
INVARIANTS
    RefusedCreateLeavesNothing
PROPERTIES
    EveryDuplicateSettles
