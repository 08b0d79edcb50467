CONSTANTS
    c1 = c1
    c2 = c2
    b1 = b1
    b2 = b2
    NoBuf = NoBuf
    NoPeer = NoPeer
    Clients = {c1, c2}
    Buffers = {b1, b2}
    Wire <- MCWireNames
    MaxDials = 3
    MaxRecv = 3
    MaxRemote = 1
    RemoteSizes <- MCRemoteSizes
SPECIFICATION Spec
INVARIANT DialedNamedHost
CHECK_DEADLOCK FALSE
