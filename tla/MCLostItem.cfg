SPECIFICATION Spec

CONSTANTS
    u1 = u1
    r1 = r1
    i1 = i1
    q1 = q1
    q2 = q2
    Users = {u1}
    Restaurants = {r1}
    Items = {i1}
    Requests = {q1, q2}
    MaxQuantity = 1
    Null = Null
    NoCart = NoCart
    MaxTabs <- TwoTabs
    MaxFailures = 0

SYMMETRY StorefrontSymmetry

INVARIANT CartHoldsWhatWasAdded

CHECK_DEADLOCK FALSE
