\* Two plans of one page: uploads, deletes and retries settle.
CONSTANTS
    p1 = p1  p2 = p2  w1 = w1  w2 = w2
    Plans = {p1, p2}
    Workers = {w1, w2}
    PageCount = 1
    Chunk = 1
    MaxRetries = 1
    MaxRedeliveries = 0
    MaxFaults = 0
SPECIFICATION FairSpec
PROPERTY UploadsSettle
CHECK_DEADLOCK FALSE
