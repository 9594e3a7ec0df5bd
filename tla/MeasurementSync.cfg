SPECIFICATION Spec
CONSTANTS
    Sheets = {s1, s2}
    Slots = {c1, c2}
    MaxIds = 2
    MaxLoads = 3
    MaxOps = 2
    MaxUpsets = 1
INVARIANTS TypeOK ListsMatchServer NoBlindOverwrite OneRowPerDrawing
CHECK_DEADLOCK FALSE
SYMMETRY Symmetry
