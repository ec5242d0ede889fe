CONSTANTS
    shop = shop
    copy = copy
    third = third
    app = app
    own = own
    own2 = own2
    root = root
    Initial = Initial
    None = None
    DeniedDb = {}
    DeniedRole = {}
    Superuser = {root}
    Truncates = {}
    Resource <- JobResource
    Database = {shop, copy}
    Role = {app, own, root}
    InitOwner <- MCInitOwner
    InitObjects <- MCInitObjects
    InitSaved = {app}
    Caller = {1, c1}
    OpId = {1}
    Creates = {c1}
    Rotates = {}
    Drops = {}
    Requests <- SameCopy
    LedgerFails = FALSE
    MaxFaults = 1
    MaxCrashes = 1
    Retention = 0
    MaxTerminal = 2
    MaxTime = 0
CHECK_DEADLOCK FALSE
SPECIFICATION Spec
PROPERTIES
    CleanupTouchesOwnOnly
