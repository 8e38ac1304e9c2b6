SPECIFICATION Spec

CONSTANTS
    Admin = Admin
    u1 = u1
    q1 = q1
    q2 = q2
    q3 = q3
    Users = {u1, Admin}
    Requests = {q1, q2, q3}
    Operations = {"getUserPreferitiByID", "updateAddress", "updatePaymentMethod",
                  "updatePreferiti"}
    MaxCards = 2
    Null = Null
    NoPreference = NoPreference
    MaxPerUser = 1
    MaxFailures = 0

SYMMETRY UserSymmetry

INVARIANT AcknowledgedChangesStay
INVARIANT LeaksComeFromOverlaps

CHECK_DEADLOCK FALSE
