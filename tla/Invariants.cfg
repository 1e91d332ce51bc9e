SPECIFICATION PartsSpec
CHECK_DEADLOCK FALSE
CONSTANTS
    a = a
    b = b
    big = big
    Consumer = {a, b, big}
    Size <- PacketSizes
    Capacity = 3
    Rate = 2
    Unit = 3
    MaxTime = 6
INVARIANTS
    PartsTypeOK
    Within
    RevokedStays
    
    
    SettledIsSynced
PROPERTIES
    WindowExact
    LimitExact
