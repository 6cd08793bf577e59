CONSTANTS
    q1 = q1
    q2 = q2
    t1 = t1
    NoTenant = NoTenant
    Conns <- TwoConns
    Tenants <- OneTenant
    Outcomes <- BothOutcomes
    MaxCost = 1000
    Budgets <- SomeBudgets
    Waits = {60}
    MaxInstances = 2
    MaxQueries = 5
    MaxFailures = 1
SPECIFICATION Spec
INVARIANTS
    TypeOK
    SerialInv
    NeverOvercharged
    NoLostCharge
    OvershootBounded
    OvershootPerFault
CHECK_DEADLOCK FALSE
