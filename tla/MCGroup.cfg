SPECIFICATION FairSpec
CONSTANTS
    Person = {ann, bob}
    Machine = {}
    Group = {grp}
    EnvName = {dev, stage}
    EnvKey <- MCKeys
    Delegate = {srv}
    ScopeOf <- MCScopes
    ExpiresOf <- MCExpires
    Hour = 1
    NoEnv = NoEnv
    NoKey = NoKey
    NoDelegate = NoDelegate
    Token = {tok}
    Fleet = {mac}
    Workload = {app}
    TokenExpires <- MCTokenExpires
    Creator = ann
    Other = bob
    FirstEnvs = {dev}
    TheGroup = grp
    MaxNow = 5
    MaxEvents = 1
INVARIANTS FormerHoldersExposed ReadersListed ReportedKeysOpen
PROPERTIES HoldersRead
CHECK_DEADLOCK FALSE
