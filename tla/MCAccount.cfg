CONSTANTS
  Devices = {d1, d2}
  PubOf <- MCPubOf
  Names = {n1}
  Slots = {s1}
  Delegates = {}
  KindOf <- NoDelegates
  CredentialOf <- NoCredentials
  SecurityKeys = {}
  RecipientOf <- NoRecipients
  Keys <- MCKeys
  None = None
  Day = 1
  MaxSlotLifetime = 2
  MaxDelegates = 1
  MaxSecurityKeys = 1
  MaxLinks = 10
  MaxTime = 3
  PendingTTL = 1
  MaxCommands = 4
  MaxFaults = 1
  MaxRestores = 1
SPECIFICATION MCSpec
INVARIANTS
  ReadersAreMembers
  RowsMirrorChain
  SlotsMirrorChain
  NeverOrphaned
  OnlyMembersWrite
PROPERTIES
  PinsMoveForwardProperty
  SuspendedStaysOutProperty
  CatchUp
CHECK_DEADLOCK FALSE
