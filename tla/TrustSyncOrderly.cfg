\* Two devices with the root key, one that joins through an approval; commands
\* are run one at a time, on a device whose file is current.
SPECIFICATION OrderlySpec
CHECK_DEADLOCK FALSE
CONSTANTS
    r1 = r1
    r2 = r2
    n1 = n1
    cr1 = cr1
    cr2 = cr2
    cn1 = cn1
    NoDoc = NoDoc
    Torn = Torn
    NoCert = NoCert
    Nodes = {r1, r2, n1}
    Roots = {r1, r2}
    Certs = {cr1, cr2, cn1}
    CertOf <- TwoRootsCertOf
    Members = {cr1, cr2}
    Sessions = {s1}
    MaxVersion = 3
INVARIANTS
    TypeOK
    NoForks
    RevocationPermanent
    ViewDurable

    
