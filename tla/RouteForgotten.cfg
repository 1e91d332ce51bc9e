\* Three nodes in a row; the link to the last one breaks once, and peers are
\* forgotten as soon as they are unreachable.
SPECIFICATION Spec
CHECK_DEADLOCK FALSE
CONSTANTS
    Node = {1, 2, 3}
    Kinds = {"peer", "conn"}
    Links = {{1, 2}, {2, 3}}
    Flapping = {{2, 3}}
    MaxFlaps = 1
    MaxUpdates = 0
    MaxFails = 0
    Expiring = TRUE
    Gap = FALSE
INVARIANT SettledIsSynced
