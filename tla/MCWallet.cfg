\* Two payments or names with a reorg between, one trade of every kind.
SPECIFICATION Spec
CONSTANTS
    MaxAmount = 1000
    Scenario <- MCScenario
INVARIANTS
    AsAsked
    CoveredSends
PROPERTIES
    EventuallySynced
CHECK_DEADLOCK FALSE
