CONSTANTS
    a1 = a1
    a2 = a2
    AllowAll = AllowAll
    NoCmd = NoCmd
    NoMethod = NoMethod
    NoCred = NoCred
    IPs = {a1, a2}
    Allowlists <- MCAllowlists
    AuthConfigs <- MCAuthConfigs
    MethodOffers <- MCMethodOffers
    Users = {"alice", "bob"}
    Passwords = {"pw", "x"}
    Creds <- MCCreds
    RuleSets <- MCRuleSets
    Commands = {1, 2, 3, 9}
SPECIFICATION Spec
INVARIANT TypeOK
INVARIANT AuthorizedDispatch
INVARIANT CredentialsEnforced
PROPERTY ReplyOrder
PROPERTY ProxiesReleased
PROPERTY RelayEnds
CHECK_DEADLOCK FALSE
