SPECIFICATION NetworkSpec
CHECK_DEADLOCK FALSE
CONSTANTS
    n1 = n1
    n2 = n2
    n3 = n3
    rt = rt
    a1 = a1
    q1 = q1
    q2 = q2
    Applicants = {a1}
    Requests = {q1, q2}
    ApplicantOf <- OneApplicant
    Enqueuers = {rt}
    NoRequest = NoRequest
    NoNode = NoNode
    Nodes = {n1, n2, rt}
    Neighbors <- TriangleNeighbors
    SubmitTtl = 2
    Faulty = TRUE
INVARIANTS
    NetworksTypeOK
    DecidedStaysDecided
PROPERTIES
    JoinsSucceed
    TailFloodEnds
