SPECIFICATION FairSpec
CONSTANTS
    Sessions = {s1, s2}
INVARIANTS
    TypeOK
    BothPaidActivates
    RelativeHasSeat
    WaitingSeatKept
PROPERTIES
    NotReinstated
    HandlersFinish
CHECK_DEADLOCK FALSE
