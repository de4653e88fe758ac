CONSTANTS
  Devices = {d1, d2}
  Values = {v1, v2, v3}
  First = v1
  None = None
  Lost = Lost
  Joining = {d2}
  MaxTroubles = 1
  MaxAnswers = 1
SPECIFICATION SyncFairSpec
INVARIANTS
  NoStaleUndo
PROPERTIES
  KeepsEditsProperty
  Settles
CHECK_DEADLOCK FALSE
