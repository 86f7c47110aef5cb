CONSTANTS
    None = None
    NonNumeric = NonNumeric
    MaxJobs = 2
    MaxConcurrency = 2
    Answers <- SomeAnswers
    Windows <- ZeroOrOne
    MaxClock = 2
    MaxGrowth = 1
    MaxFalls = 1
SPECIFICATION FairPlannerSpec
INVARIANTS
    EveryPhaseOnce
    FailureIsolated
    WindowBetweenSamples
    DeltaNeverOverstates
PROPERTIES
    RunReturns
