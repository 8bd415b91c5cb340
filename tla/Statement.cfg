SPECIFICATION Spec
CONSTANTS
    t1 = t1
    t2 = t2
    v1 = v1
    v2 = v2
    Trips = {t1, t2}
    Vans = {v1, v2}
    Sessions = {s1, s2}
    MaxSeats <- MCMaxSeats
    SHARE = 1
    DCOTT = 1
    PARKING = 1
    MaxActs = 5
    None = None
INVARIANTS
    TypeOK
    EverySeatChargedOnce
    

    
CHECK_DEADLOCK FALSE
