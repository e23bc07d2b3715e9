SPECIFICATION Spec
CONSTANTS
    Documents <- MCDocuments
    a = a
    b = b
    Stations = {a, b}
    Importers = {i1, i2}
    Jobs = {}
    RetryDays = 1
PROPERTY
    ChoicePreserved
CHECK_DEADLOCK FALSE
