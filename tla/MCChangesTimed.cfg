CONSTANTS
  Person = {boss, ann}
  Machine = {}
  Group = {}
  EnvName = {dev, prod}
  EnvKey = {1, 2}
  Delegate = {server, pass}
  ScopeOf <- MCScopeOf
  ExpiresOf <- MCExpiresOf
  Hour = 1
  NoEnv = NoEnv
  NoKey = 0
  NoDelegate = NoDelegate
  Boss = boss
  Reader = ann
  ServerKey = server
  Passkey = pass
  FirstEnvs = {dev, prod}
  FirstReads = {dev, prod}
  MaxOpen = 2
  MaxTimed = 3
  MaxAsks = 0
  FormEnvs = {{dev}}
  Ends = {server}
  MaxEvents = 1
SPECIFICATION Spec
PROPERTIES ProposedAccessEndsProperty
CHECK_DEADLOCK FALSE
