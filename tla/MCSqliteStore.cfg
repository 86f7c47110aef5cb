CONSTANTS
    Nothing = Nothing
    Limits = {0, 1}
    Clients = {c1, c2}
    Targets = {t1}
    Times <- MCTimes
    Metrics = {m1, m2, m3}
    MaxTrendRows = 2
SYMMETRY Alike
SPECIFICATION SqliteSpec
INVARIANTS
    TrendsMatchSnapshots
    SchemaReady
PROPERTIES
    ImplementsStore
