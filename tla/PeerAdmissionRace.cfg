\* One connection being admitted while one refresh runs.
SPECIFICATION FairSpec
CONSTANTS
    Peers = {p1}
    Certs = {a}
    Conns = {k1}
    Tasks = {t1}
    NoIdentity = NoIdentity
    NoPeer = NoPeer
PROPERTY
    RevokedDisconnected
