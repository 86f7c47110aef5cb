CONSTANTS
    Nothing = Nothing
    Conflicts = "refused"
    Limits = {}
    Clients = {i1, i2, d1}
    Inspectors = {i1, i2}
    Differs = {d1}
    Targets = {t1}
    Times <- MCTimes
    Metrics <- MCMetrics
    MaxClock = 1
    MaxSetBacks = 1
    Formats = {"json"}
    MaxChanges = 1
SYMMETRY Alike
SPECIFICATION CommandsSpec
INVARIANTS
    StoredUnlessWarned
    ObservedBeforeHolds
