\* One peer with two connections, possibly under different certificates, being
\* admitted while a refresh runs.
SPECIFICATION FairSpec
CONSTANTS
    Peers = {p1}
    Certs = {a, b}
    Conns = {k1, k2}
    Tasks = {t1}
    NoIdentity = NoIdentity
    NoPeer = NoPeer
INVARIANT
    TypeOK
PROPERTIES
    CutOff
    CapsRefreshed
