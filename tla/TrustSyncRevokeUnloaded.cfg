\* One command at a time, fair scheduling: a revocation stays in the file.
SPECIFICATION FairOrderlySpec
CHECK_DEADLOCK FALSE
CONSTANTS
    r1 = r1
    r2 = r2
    n1 = n1
    cr1 = cr1
    cr2 = cr2
    cn1 = cn1
    NoDoc = NoDoc
    Torn = Torn
    NoCert = NoCert
    Nodes = {r1, n1}
    Roots = {r1}
    Certs = {cr1, cn1}
    CertOf <- OneRootCertOf
    Members = {cr1, cn1}
    Sessions = {s1}
    MaxVersion = 2
PROPERTY
    RevokePropagates
