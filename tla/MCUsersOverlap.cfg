SPECIFICATION Spec

CONSTANTS
    Admin = Admin
    u1 = u1
    q1 = q1
    q2 = q2
    q3 = q3
    Users = {u1}
    Requests = {q1, q2, q3}
    Operations = {"findByID", "updatePreferiti", "save", "deleteByID"}
    MaxCards = 2
    Null = Null
    NoPreference = NoPreference
    MaxPerUser = 3
    MaxFailures = 1

SYMMETRY UserSymmetry

INVARIANT TypeOK
INVARIANT FieldIsUsable
INVARIANT NoPreferenceIsHidden
INVARIANT ServedAlone

CHECK_DEADLOCK FALSE
