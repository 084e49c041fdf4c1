SPECIFICATION AccessSpec
CONSTANTS
  MaxSession = 3
  Legacy = 1
  Devices = {d1, d2}
  NoDevice = NoDevice
  Cap = 2
  MaxRotation = 1
  Requests = {r1, r2}
  Enforced = FALSE
  MaxChanges = 1
  MaxFailures = 1
INVARIANTS AccessTypeOK WithinCap OwnsItsDevice OldSessionsShutOut
PROPERTIES EndedStaysEnded SpentTokenEndsSession LockObeyedInTheEnd
CHECK_DEADLOCK FALSE
