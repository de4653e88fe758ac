CONSTANTS
  Read = {r1, r2}
  Env = {"prod"}
  GuardOf <- MCGuardOf
  MaxWaiting = 2
  Hour = 1
  TTLs = {1}
  MaxNow = 1
  MaxEpoch = 2
SPECIFICATION Spec
PROPERTIES TouchEndsWithLockProperty
CHECK_DEADLOCK FALSE
