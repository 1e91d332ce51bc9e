\* One component per behaviour, none of which has to go on for ever.
SPECIFICATION PartsSpec
CHECK_DEADLOCK FALSE
CONSTANTS
    a = a
    b = b
    c = c
    k1 = k1
    k2 = k2
    NoKey = NoKey
    Conn = {a, b, c}
    KeyOf <- ProvedKeys
INVARIANTS
    PartsTypeOK
    StrandedIsHeld
    ClosesOnlyQuiet
    
    CallsSound
    ProxySound
    HasHandler
PROPERTIES
    UselessCloses
    SessionsMeet
    Retried
    TablesCleared
