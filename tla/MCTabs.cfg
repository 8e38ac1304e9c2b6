SPECIFICATION Spec

CONSTANTS
    u1 = u1
    u2 = u2
    r1 = r1
    r2 = r2
    i1 = i1
    i2 = i2
    q1 = q1
    q2 = q2
    q3 = q3
    q4 = q4
    Users = {u1, u2}
    Restaurants = {r1, r2}
    Items = {i1, i2}
    Requests = {q1, q2, q3, q4}
    MaxQuantity = 1
    Null = Null
    NoCart = NoCart
    MaxTabs <- MixedTabs
    MaxFailures = 1

SYMMETRY StorefrontSymmetry

INVARIANT TypeOK
INVARIANT CartsAreWellFormed
INVARIANT NothingIsAddedTwice
INVARIANT MailsFollowApprovals
INVARIANT NothingIsBoughtTwice
INVARIANT OneTabLosesNothing

CHECK_DEADLOCK FALSE
