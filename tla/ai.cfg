CONSTANTS
    q1 = q1
    q2 = q2
    Conns <- TwoConns
    Agents <- SomeAgents
    ModelIds <- SomeModels
    Reports <- SomeReports
    MaxCost = 2
    Budgets <- SomeBudgets
    MaxInstances = 2
    MaxQueries = 3
    MaxFailures = 1
    Requests <- SomeRequests
SPECIFICATION PipelineSpec
INVARIANTS
    PipelineTypeOK
    BlockedIsTagged
    TagsOfOwnRequests
    GuardrailGapsKnown
    PlainPairsPayTheirOwn
PROPERTY ImplementsCostGovernor
SYMMETRY Symmetric
CHECK_DEADLOCK FALSE
