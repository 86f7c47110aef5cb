CONSTANTS
    None = None
    Plans <- SmallPlans
SPECIFICATION FairExplainSpec
INVARIANTS
    ExplainTypeOK
    NothingLeftBehind
    ReportIsTheSafePart
PROPERTIES
    ExplainReturns
