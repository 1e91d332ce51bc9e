\* One component per behaviour, none of which has to go on for ever.
SPECIFICATION PartsSpec
CHECK_DEADLOCK FALSE
CONSTANTS
    Node = {1, 2, 3}
    Links = {{1, 2}, {2, 3}}
    Open = {3}
    MaxFails = 0
    Flapping = {}
    MaxFlaps = 0
    r1 = r1
    n1 = n1
    cr1 = cr1
    cn1 = cn1
    s1 = s1
    NoDoc = NoDoc
    Torn = Torn
    NoCert = NoCert
INVARIANTS
    PartsTypeOK
    OneInitiated
PROPERTIES
    Converges
    
    
    Spread
