CONSTANTS
  Devices = {d1, d2}
  PubOf <- MCPubOf
  Names = {n1}
  Slots = {s1}
  Delegates = {g1}
  KindOf <- MCKindOf
  CredentialOf <- MCCredentialOf
  SecurityKeys = {h1}
  RecipientOf <- MCRecipientOf
  Keys = {k1, k2, k3}
  None = None
  Day = 1
  MaxSlotLifetime = 1
  MaxDelegates = 2
  MaxSecurityKeys = 2
  MaxLinks = 5
  Times = {1, 2}
SYMMETRY KeyDeviceSymmetry
SPECIFICATION Spec
INVARIANTS
  RevokedNeverSigns
  CurrentKeyHolders
  EpochMatchesSignature
  AdmittedByAuthority
  WaysEndWithKey
  DelegateAtMatchesReplay
PROPERTY AppendOnlyProperty
CHECK_DEADLOCK FALSE
