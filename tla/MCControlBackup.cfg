SPECIFICATION BackupSpec
CONSTANTS
    Procs = {p1, p2}
    Builds <- MCBuilds
    MaxWrites = 1
    Names <- MCNames
    None = None
    Times <- MCTimes
    Pages = 2
    Keep = 1
INVARIANTS BackupTypeOK OneLineage
PROPERTY KeepsPromise
SYMMETRY MCSymmetry
