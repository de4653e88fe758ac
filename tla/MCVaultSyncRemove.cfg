CONSTANTS
  Devices = {d1}
  Values = {v1, v2, v3}
  First = v1
  None = None
  Lost = Lost
  Joining = {}
  MaxTroubles = 2
  MaxAnswers = 1
SPECIFICATION SyncSpec
INVARIANT NeverGoesBack
CHECK_DEADLOCK FALSE
