\* Two urls of the configuration, the peer cache, one lost connection.
SPECIFICATION Spec
CHECK_DEADLOCK FALSE
CONSTANTS
    Url = {"a", "b"}
    Configured = {"a", "b"}
    Addable = {}
    Hints = {}
    Caching = TRUE
    BorrowAfter = 2
    MaxAdds = 0
    MaxLists = 0
    MaxRemoves = 0
    MaxDrops = 1
INVARIANT RoutineSurvives
