CONSTANTS
    Nothing = Nothing
    Conflicts = "refused"
    Limits = {}
    Clients = {i1, d1}
    Inspectors = {i1}
    Differs = {d1}
    Formats = {"json"}
    Targets = {t1}
    Times <- MCTimes
    Metrics <- MCMetrics
    MaxClock = 3
    MaxSetBacks = 1
    MaxChanges = 1
SPECIFICATION CommandsSpec
INVARIANTS
    DiffSkipsNothing
    DiffFollowsTime
