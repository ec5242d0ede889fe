CONSTANTS
    shop = shop
    fresh = fresh
    sys = sys
    app = app
    adm = adm
    other = other
    Initial = Initial
    None = None
    Database = {shop, fresh, sys}
    Role = {app, adm, other}
    DeniedDb = {sys}
    DeniedRole = {adm}
    Superuser = {}
    InitOwner <- MCInitOwner
    InitObjects <- MCInitObjects
    InitSaved = {app}
    Caller = {c1, x1, x2, d1, t1}
    Creates = {c1}
    Rotates = {x1, x2}
    Drops = {d1}
    Truncates = {t1}
    MaxFaults = 1
CHECK_DEADLOCK FALSE
SYMMETRY MCSymmetry
SPECIFICATION RequestsSpec
INVARIANTS
    RequestsTypeOK
    VaultCurrent
    DropTruncateExclusive
PROPERTIES
    ProtectedUntouched
