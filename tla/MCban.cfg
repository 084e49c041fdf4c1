SPECIFICATION AccessSpec
CONSTANTS
  MaxSession = 3
  Legacy = 2
  Devices = {d1, d2}
  NoDevice = NoDevice
  Cap = 2
  MaxRotation = 1
  Requests = {r1, r2}
  Enforced = FALSE
  MaxChanges = 1
  MaxFailures = 0
INVARIANT LockObeyedAtOnce
CHECK_DEADLOCK FALSE
