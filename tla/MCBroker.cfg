CONSTANTS
  Read = {r1, r2}
  Env = {"dev", "prod"}
  GuardOf <- MCGuardOf
  MaxWaiting = 2
  Hour = 1
  TTLs = {1}
  MaxNow = 1
  MaxEpoch = 2
SPECIFICATION FairSpec
PROPERTIES
  LockRevokesProperty
  SessionLastsProperty
  ReadsAnswered
CHECK_DEADLOCK FALSE
