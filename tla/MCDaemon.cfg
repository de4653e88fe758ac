CONSTANTS
  Commands = {c1}
  Daemon = daemon
  Lockless = {u1}
  Nobody = Nobody
  MaxChain = 2
  MaxVault = 2
  MaxRuns = 3
  ann = ann
  srv = srv
  pass = pass
  Person = {ann, bob}
  Delegate = {srv, pass}
  DelegateOf <- MCDelegateOf
  KindOf <- MCKindOf
  ScopeOf <- MCScopeOf
  KeyName = {prod}
  KMSKey = {kms}
  Hour = 1
  NoKey = NoKey
  NoDelegate = NoDelegate
  Creator = ann
  Place = {api}
  AheadOf <- MCAheadOf
  Starts = {"open", "reserved", "personal", "legacy"}
  Choices <- MCChoices
  Kinds = {"account-key"}
  MaxNow = 2
  MaxCommands = 4
  MaxKey = 2
SPECIFICATION MCSpec
INVARIANTS
  NoMissedWake
  Governed
PROPERTIES
  LockedKeepsPinsProperty
  RecordCatchesUp
  MembersOnlyProperty
  OnlyLeaversTakenOutProperty
  LeaversTakenOut
CHECK_DEADLOCK FALSE
