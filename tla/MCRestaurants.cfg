SPECIFICATION Spec

CONSTANTS
    n1 = n1
    q1 = q1
    q2 = q2
    q3 = q3
    Names = {n1}
    Requests = {q1, q2, q3}
    Operations = {"addRestaurant", "deleteRestaurant", "modifyRestaurant",
                  "modifyRestaurantMenu", "getAllRestaurants", "getRestaurantInfoByName",
                  "getRestaurantInfoById", "getRestaurantMenu"}
    Null = Null
    AcquaLiscia = AcquaLiscia
    MaxFaults = 1

INVARIANT TypeOK
INVARIANT MenusKeepTheirFirstDish
INVARIANT AcknowledgedDishesStay
PROPERTY DeletedStaysDeleted
PROPERTY PagesEnd

CHECK_DEADLOCK FALSE
