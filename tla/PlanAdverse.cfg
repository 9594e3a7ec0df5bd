\* One plan of three pages saved in chunks of two; two workers, a retry,
\* a redelivery and a fault.
CONSTANTS
    p1 = p1  p2 = p2  w1 = w1  w2 = w2
    Plans = {p1}
    Workers = {w1, w2}
    PageCount = 3
    Chunk = 2
    MaxRetries = 1
    MaxRedeliveries = 1
    MaxFaults = 1
SPECIFICATION Spec
INVARIANTS TypeOK ReadyHasEveryPage ReportedPagesAreSaved ChunkIsNew
SYMMETRY WorkerSymmetry
CHECK_DEADLOCK FALSE
