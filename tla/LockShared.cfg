\* Two runs, an auto-name task and a cancel in two processes.
CONSTANTS
    r1 = r1  r2 = r2  a1 = a1  w1 = w1  w2 = w2
    Runs = {r1, r2}
    AutoNames = {a1}
    Processes = {w1, w2}
    MaxAttempts = 3
    MaxCancels = 1
    MaxFaults = 0
SPECIFICATION Spec
INVARIANTS TypeOK ClaimsAreHeld StagesRunUnderTheLock
SYMMETRY ProcessSymmetry
CHECK_DEADLOCK FALSE
