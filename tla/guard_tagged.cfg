CONSTANTS
    q1 = q1
    q2 = q2
    Conns <- TwoConns
    Agents <- SomeAgents
    ModelIds <- SomeModels
    Reports <- SomeReports
    MaxCost = 2
    Budgets <- SomeBudgets
    MaxInstances = 2
    MaxQueries = 3
    MaxFailures = 1
    Requests <- MarkedRequests
SPECIFICATION PipelineSpec
INVARIANT TaggedIsGuarded
CHECK_DEADLOCK FALSE
