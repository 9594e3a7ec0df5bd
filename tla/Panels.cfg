\* Two editors, two measurements; in the list two requests, none refused.
CONSTANTS
    Users = {u1, u2}
    Editors = {u1, u2}
    Measurements = {m1, m2}
    s1 = s1
    Sheets = {s1}
    SheetOf <- OnOneSheet
    Names = {n1}
    Conditions = {k1}
    FirstCondition = k1
    OpenSections = {"room", "list"}
    MaxId = 2
    MaxOps = 2
    MaxUpsets = 0
    MaxLines = 1
    MaxLineOps = 0
SPECIFICATION PanelsSpec
SYMMETRY Symmetry
INVARIANTS PanelsTypeOK  
CHECK_DEADLOCK FALSE
