SPECIFICATION Spec

CONSTANTS
    u1 = u1
    u2 = u2
    t1 = t1
    t2 = t2
    q1 = q1
    q2 = q2
    v1 = v1
    v2 = v2
    Users = {u1, u2}
    Tabs = {t1, t2}
    Requests = {q1, q2}
    Fields = {"userName", "userMail"}
    Versions = {v1, v2}
    Nobody = Nobody
    Null = Null
    MaxInFlight = 2
    MaxRequests = 5
    MaxFailures = 1

SYMMETRY SessionSymmetry

INVARIANT TypeOK
INVARIANT NobodySeesAnother
INVARIANT SessionIsWhoLoggedIn
INVARIANT SessionMatchesRow

CHECK_DEADLOCK FALSE
