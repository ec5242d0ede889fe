CONSTANTS
    shop = shop
    copy = copy
    third = third
    app = app
    own = own
    own2 = own2
    root = root
    Initial = Initial
    None = None
    DeniedDb = {}
    DeniedRole = {}
    Superuser = {root}
    Truncates = {}
    Resource <- JobResource
    Database = {shop, copy, third}
    Role = {app, own, own2, root}
    InitOwner <- MCInitOwner
    InitObjects <- MCInitObjects
    InitSaved = {app}
    Caller = {1, 2, 3}
    OpId = {1, 2, 3}
    Creates = {}
    Rotates = {}
    Drops = {}
    Requests <- CopyOfCopy
    LedgerFails = TRUE
    MaxFaults = 2
    MaxCrashes = 1
    Retention = 0
    MaxTerminal = 1
    MaxTime = 1
CHECK_DEADLOCK FALSE
SPECIFICATION Spec
INVARIANTS
    JobTypeOK
    WorkIsLocked
    FailedLeavesNoAccess
PROPERTIES
    SourceOutlivesCopy
    SucceededIsWhole
    ServesOnlySettled
    NamesAreKept
