CONSTANTS
    a1 = a1
    c1 = c1
    c2 = c2
    b1 = b1
    b2 = b2
    AllowAll = AllowAll
    NoCmd = NoCmd
    NoMethod = NoMethod
    NoCred = NoCred
    NoBuf = NoBuf
    NoPeer = NoPeer
    IPs = {a1}
    Allowlists = {AllowAll}
    AuthConfigs <- MCConnAuthConfigs
    MethodOffers <- MCConnOffers
    Users = {"alice"}
    Passwords = {"pw"}
    Creds <- MCConnCreds
    RuleSets <- MCConnRuleSets
    Commands = {1, 3}
    Clients = {c1, c2}
    Buffers = {b1, b2}
    Wire <- MCConnWire
    MaxDials = 3
    MaxRecv = 4
    MaxRemote = 1
    RemoteSizes = {4, 65507}
SPECIFICATION Spec
INVARIANT AssociationClosedOnReturn
CHECK_DEADLOCK FALSE
