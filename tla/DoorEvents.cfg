SPECIFICATION Spec
CONSTANTS
    LastTrip = 2
    MaxEvents = 2
    MaxSeats <- MCMaxSeats
    Kinds <- MCKinds
    Uncounted = {2}
    Followed = {1}
    Sessions = {s1, s2}
    Nobody = Nobody
SYMMETRY AnySession
INVARIANTS
    TypeOK
    NothingVanishes
    OnTheTripItRan
    LeftWithMoreIsTold
PROPERTIES
    KeepsTheLog
CHECK_DEADLOCK FALSE
