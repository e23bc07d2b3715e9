SPECIFICATION Spec
CONSTANTS
    Requests = {q1, q2, q3, q4}
    None = None
    MaxCrashes = 1
INVARIANTS
    SettingsTypeOK
    CopiesFollowRows
    OneSetup
    OldCredentialsRefused
SYMMETRY Symmetry
CHECK_DEADLOCK FALSE
