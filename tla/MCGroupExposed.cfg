SPECIFICATION Spec
CONSTANTS
    Person = {ann, bob}
    Machine = {}
    Group = {grp}
    EnvName = {dev, prod, stage}
    EnvKey <- MCKeys
    Delegate = {}
    ScopeOf <- MCScopes
    ExpiresOf <- MCExpires
    Hour = 1
    NoEnv = NoEnv
    NoKey = NoKey
    NoDelegate = NoDelegate
    Token = {}
    Fleet = {mac}
    Workload = {}
    TokenExpires <- MCTokenExpires
    Creator = ann
    Other = bob
    FirstEnvs = {dev, prod}
    TheGroup = grp
    MaxNow = 5
    MaxEvents = 0
INVARIANT LeaversListed
CHECK_DEADLOCK FALSE
