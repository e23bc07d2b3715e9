SPECIFICATION Spec
CONSTANTS
    Documents <- MCDocuments
    a = a
    b = b
    Stations = {a, b}
    Importers = {i1, i2}
    Jobs = {j1}
    RetryDays = 2
INVARIANTS
    ImportTypeOK
    NumberFollowsGuide
PROPERTIES
    FirstChoiceKept
    RetriedWeekly
SYMMETRY Symmetry
CHECK_DEADLOCK FALSE
