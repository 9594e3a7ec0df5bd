\* A run and an auto-name task in two processes, one redelivery or fault.
CONSTANTS
    r1 = r1  r2 = r2  a1 = a1  w1 = w1  w2 = w2
    Runs = {r1}
    AutoNames = {a1}
    Processes = {w1, w2}
    MaxAttempts = 2
    MaxCancels = 0
    MaxFaults = 1
SPECIFICATION FairSpec
PROPERTY JobsEnd
CHECK_DEADLOCK FALSE
