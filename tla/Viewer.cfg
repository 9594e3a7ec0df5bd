\* Three sheets of two plans for the canvas, the two of one plan for the tools, and one
\* with two names for the strip.
CONSTANTS
    s1 = s1  s2 = s2  s3 = s3
    p1 = p1  p2 = p2
    Sheets = {s1, s2, s3}
    PlanOf <- TwoPlans
    Zooms = {1, 2}
    MaxOps = 3
    MaxFaults = 1
    lin = lin  area = area  cnt = cnt
    ToolSheets = {t1, t2}
    Conditions = {lin, area, cnt}
    TypeOf <- Types
    Spots = {d1, d2}
    Slots = {c1}
    MaxPoints = 3
    StripSheets = {s}
    Manual = {n1, n2}
    MaxRenames = 2
SPECIFICATION Spec
INVARIANTS TypeOK  DrawingsAreWhole NamesShown
SYMMETRY Symmetry
CHECK_DEADLOCK FALSE
