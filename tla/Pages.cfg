\* Two plans and two projects, two templates, two people, up to two seats at once,
\* a third project, two AI runs.
CONSTANTS
    Plans = {p1, p2}
    Projects = {a, b}
    Home = a
    Templates = {t1, t2}
    People = {u1, u2}
    Seats = 2
    MaxQty = 2
    MaxPageOps = 2
    MaxLibraryOps = 3
    MaxTeamOps = 2
    MaxBillingOps = 4
    MaxUpsets = 1
    MaxProjects = 3
    MaxRuns = 2
    MaxReads = 2
SPECIFICATION PagesSpec
INVARIANTS PagesTypeOK  TemplatesAreRight SettingsAreRight
CHECK_DEADLOCK FALSE
