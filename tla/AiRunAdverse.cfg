\* One run, two workers, everything that can go wrong around a task.
CONSTANTS
    r1 = r1  r2 = r2  w1 = w1  w2 = w2  plan = plan
    Runs = {r1}
    Plans = {plan}
    PlanOf <- OnePlan
    Workers = {w1, w2}
    BodyCount = 2
    MaxCancels = 1
    MaxRedeliveries = 1
    MaxFaults = 1
SPECIFICATION FairSpec
INVARIANTS TypeOK   AppliedAtMostOnce
PROPERTIES EveryRunSettles OnlyStaleCancelOverwrites
CHECK_DEADLOCK FALSE
