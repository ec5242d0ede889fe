CONSTANTS
    rA = rA
    rB = rB
    OpId = {1, 2, 3}
    Resource = {rA, rB}
    Retention = 1
    MaxTerminal = 1
    MaxTime = 2
SYMMETRY ResourceSymmetry
SPECIFICATION StoreSpec
INVARIANTS
    StoreTypeOK
    LiveHoldsItsClaim
    LiveClaimsDisjoint
    NoStrayLock
PROPERTIES
    OutcomeIsFinal
    PruneIsJustified
