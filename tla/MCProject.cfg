SPECIFICATION FairSpec
CONSTANTS
    Person = {ann, bob}
    Machine = {ci}
    Group = {}
    EnvName = {dev, stage}
    EnvKey <- MCKeys
    Delegate = {}
    ScopeOf <- MCScopes
    ExpiresOf <- MCExpires
    Hour = 1
    NoEnv = NoEnv
    NoKey = NoKey
    NoDelegate = NoDelegate
    NFiles = 1
    NoJournal = NoJournal
    Creator = ann
    Other = bob
    FirstEnv = dev
    MaxLinks = 4
    MaxEvents = 1
INVARIANTS KeysNameOneEnv NothingLost
PROPERTIES SharesKeys OldKeysStayOutProperty ReadersGetKeys
CHECK_DEADLOCK FALSE
