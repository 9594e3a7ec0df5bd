\* Two events, two deliveries and a request at once, one fault or lost answer.
CONSTANTS
    e1 = e1  e2 = e2  h1 = h1  h2 = h2  q1 = q1
    Events = {e1, e2}
    Handlers = {h1, h2}
    Requests = {q1}
    GraceDays = 1
    SuspendDays = 2
    LastDay = 2
    MaxFaults = 1
SPECIFICATION FairSpec
INVARIANTS TypeOK EffectsAtMostOnce ReceiptSentOnce FlagsMatchStatus NeverRestrictedEarly
PROPERTY EventsTakeEffect
CHECK_DEADLOCK FALSE
