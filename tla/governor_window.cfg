CONSTANTS
    q1 = q1
    q2 = q2
    t1 = t1
    NoTenant = NoTenant
    Conns <- TwoConns
    Tenants <- OneTenant
    Outcomes <- BothOutcomes
    MaxCost = 1000
    Budgets <- SomeBudgets
    Waits = {60}
    MaxInstances = 1
    MaxQueries = 5
    MaxFailures = 0
SPECIFICATION Spec
CHECK_DEADLOCK FALSE
PROPERTY RetryAfterHonoured
