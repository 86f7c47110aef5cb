CONSTANTS
    None = None
    NonNumeric = NonNumeric
    MaxJobs = 2
    MaxConcurrency = 1
    Answers <- SomeAnswers
    Windows <- One
    MaxClock = 1
    MaxGrowth = 1
    MaxFalls = 1
SPECIFICATION PlannerSpec
INVARIANTS
    ResetWarningsAreResets
