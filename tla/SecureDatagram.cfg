\* Copies live for 1, calls take up to 1, slots are forgotten after 3.
SPECIFICATION Spec
CHECK_DEADLOCK FALSE
CONSTANTS
    Window = 2
    Senders = {s1, s2}
    Receivers = {t1, t2}
    MaxAhead = 1
    EvictAfter = 3
    FailThreshold = 1
    Lifetime = 1
    Stall = 1
    MaxEpoch = 2
    MaxOwnEpoch = 1
    MaxSeq = 2
    MaxTime = 5
    NoSlot = NoSlot
    Idle = Idle
SYMMETRY ThreadSymmetry
INVARIANTS
    TypeOK
    AtMostOnce
    SlotsOrdered
