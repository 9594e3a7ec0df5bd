CONSTANTS
    r1 = r1  r2 = r2  w1 = w1  w2 = w2  plan = plan
    Runs = {r1, r2}
    Plans = {plan}
    PlanOf <- OnePlan
    Workers = {w1, w2}
    BodyCount = 1
    MaxCancels = 1
    MaxRedeliveries = 0
    MaxFaults = 0
SPECIFICATION FairSpec
PROPERTY KeepsPromise
CHECK_DEADLOCK FALSE
