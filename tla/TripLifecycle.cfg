SPECIFICATION FairSpec
CONSTANTS
    t1 = t1
    t2 = t2
    Trips = {t1, t2}
    Rentals = {t2}
    Vans = {v1, v2}
    Sessions = {s1, s2}
    None = None
    Departs <- MCDeparts
    Lasts <- MCLasts
INVARIANTS
    TypeOK
    RentalFollowsTrip
PROPERTIES
    OnlyDetectionRestarts
    ChecksSeparateVans
    LeftVanDeparts
CHECK_DEADLOCK FALSE
