SPECIFICATION FairInfrastructureSpec
CONSTANTS
  Key <- MCKey
  Attempt <- MCAttempt
  Threshold <- MCThreshold
  Request = {r1, r2}
  EventLimit = 1
  MaxCount = 3
  MaxEvents = 3
  MaxAttempts = 2
  MaxBusy = 2
  ProbeWeight = 2
INVARIANTS InfrastructureTypeOK CountersExpire LockComes EventsBounded
PROPERTIES LocksAreFounded ProbeIsAnswered
CHECK_DEADLOCK FALSE
