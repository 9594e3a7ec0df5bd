\* Up to three conditions in the panel; two conditions and two lines in the assembly.
CONSTANTS
    Users = {u1}
    Editors = {u1}
    Measurements = {m1}
    s1 = s1
    Sheets = {s1}
    SheetOf <- OnOneSheet
    Names = {n1}
    Conditions = {k1, k2}
    FirstCondition = k1
    OpenSections = {"panel", "lines"}
    MaxId = 3
    MaxOps = 2
    MaxUpsets = 1
    MaxLines = 2
    MaxLineOps = 3
SPECIFICATION PanelsSpec
INVARIANTS PanelsTypeOK ChoiceIsRight 
CHECK_DEADLOCK FALSE
