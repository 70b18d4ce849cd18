SPECIFICATION Spec
CONSTANTS
    Threads = {t1, t2, t3, t4}
INVARIANTS
    TypeOK
    Accounting
PROPERTIES
    ReleaseMeetsAll
    OnlyDepartureStarves
    LostIsFatal
    ImplementsRendezvous
CHECK_DEADLOCK FALSE
