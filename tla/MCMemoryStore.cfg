CONSTANTS
    Nothing = Nothing
    Clients = {c1, c2, c3}
    Targets = {t1}
    Times <- TwoTimes
    Metrics = {m1}
    Limits = {0, 1}
SYMMETRY Alike
SPECIFICATION MemorySpec
PROPERTIES
    MemoryImplementsStore
