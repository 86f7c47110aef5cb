CONSTANTS
    Fallible = {"query_digest"}
    Objects <- MCObjects
    Room <- MCRoom
    MaxChanges = 2
SPECIFICATION VisibilitySpec
INVARIANTS
    RulesHaveTheirEvidence
    EventsAreExplained
    StoredIfItFits
