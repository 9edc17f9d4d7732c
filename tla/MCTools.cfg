CONSTANTS
    t1 = t1
    t2 = t2
    web = web
    shell = shell
    stepA = stepA
    stepB = stepB
    stepC = stepC
    stepX = stepX
    chain = chain
    cycle = cycle
    ExecutionIds = {stepA, stepB, stepC, stepX}
    Tools = {web, shell}
    Executors = {chain, cycle}
    PlanOf <- MCPlanOf
    MaxConcurrent = 3
    MaxPerTool = 2
    MaxSubmits = 2
    Tenants = {t1, t2}
    Callers = {1, 2}
    Requests <- MCRequests
    FirstPolicies <- MCFirstPolicies
    LaterPolicies <- MCLaterPolicies
    ToolBudget = 100
    ClarifyLimit = 1
    ClarifyConcurrency = 2
    CollabLimit = 8
    MaxCalls = 2
    Events = {1, 2}
    Writers = {1, 2}
    RetryBudgets = {0, 1, 2}
    MaxWrites = 3
    PlanInputs <- MCPlanInputs
SPECIFICATION Spec
INVARIANTS
    GatewayIsOrderly
    AuthorisationIsLawful
    OneJobPerEvent
    PlansAreLawfulAndTold
PROPERTIES
    EnhancementsSettle
CHECK_DEADLOCK FALSE
